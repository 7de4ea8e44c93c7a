--------------------------- MODULE AllocationProofs ---------------------------
(***************************************************************************)
(* Proofs about LinearScan, and about AllocatedCode, which runs it: for    *)
(* any routines, any register file that lists each register once and any   *)
(* fixed and argument registers, the scan uses the pool as the pool        *)
(* expects, no two active intervals share a register, and no part of a     *)
(* name's life is handled twice.  For routines whose operands are all in   *)
(* code that can run, and a file of one class, no assertion of the scan    *)
(* fails as long as it has passed over no instruction.                     *)
(***************************************************************************)
EXTENDS AllocatedCode, InstructionProofs, SequenceTheorems, FiniteSetTheorems

(* An interval, with the rest of its name's chain behind it.               *)
IntervalOf(P, chain) ==
  [name : Name, start : Positions(P), end : Positions(P), reg : Reg \cup {NoReg},
   is_fixed : BOOLEAN, is_spilled : BOOLEAN, next : chain]

Link(P)  == IntervalOf(P, {<<>>})
Entry(P) == IntervalOf(P, Seq(Link(P)))

(* The parts of a life: an interval of the code, behind it the later ones  *)
(* of the same name.                                                       *)
Ordered(iv) ==
  /\ iv.start <= iv.end
  /\ \A c \in DOMAIN iv.next :
       /\ iv.next[c].name = iv.name
       /\ iv.next[c].start <= iv.next[c].end
       /\ iv.end < iv.next[c].start
  /\ \A c, d \in DOMAIN iv.next : c < d => iv.next[c].end < iv.next[d].start

Timely(P) == {iv \in Entry(P) : Ordered(iv)}

RegsIn(s) == {s[j].reg : j \in DOMAIN s}

DistinctRegs(s) == \A m, n \in DOMAIN s : s[m].reg = s[n].reg => m = n

StartsSorted(s) == \A m, n \in DOMAIN s : m < n => s[m].start <= s[n].start

-----------------------------------------------------------------------------
(* What putting an element into a set of intervals and taking one out do.  *)

(* array::Insert: the elements from the position on move up.               *)
LEMMA InsertAtElements ==
  ASSUME NEW S, NEW s \in Seq(S), NEW i \in 1 .. Len(s) + 1, NEW e \in S
  PROVE  LET t == InsertAt(s, i, e)
         IN  /\ t \in Seq(S)
             /\ Len(t) = Len(s) + 1
             /\ \A j \in 1 .. Len(s) + 1 :
                  t[j] = IF j < i THEN s[j] ELSE IF j = i THEN e ELSE s[j - 1]
<1> DEFINE a == SubSeq(s, 1, i - 1)
           b == SubSeq(s, i, Len(s))
           t == InsertAt(s, i, e)
<1>0. Len(s) \in Nat /\ i \in Nat /\ i >= 1 /\ i <= Len(s) + 1 /\ DOMAIN s = 1 .. Len(s)
  OBVIOUS
<1>1. /\ a \in Seq(S) /\ Len(a) = i - 1
      /\ \A j \in 1 .. i - 1 : a[j] = s[j]
  BY <1>0
<1>2. /\ b \in Seq(S) /\ Len(b) = Len(s) - i + 1
      /\ \A j \in 1 .. Len(s) - i + 1 : b[j] = s[j + i - 1]
  BY <1>0
<1> DEFINE c == a \o <<e>>
<1>3. t = c \o b
  BY DEF InsertAt
<1>. HIDE DEF a, b, t
<1>4. /\ c \in Seq(S) /\ Len(c) = i
      /\ \A j \in 1 .. i : c[j] = IF j < i THEN s[j] ELSE e
  BY <1>0, <1>1, SMTT(30)
<1>. HIDE DEF c
<1>5. t \in Seq(S) /\ Len(t) = Len(s) + 1
  <2>1. t \in Seq(S) /\ Len(t) = Len(c) + Len(b)
    BY <1>2, <1>3, <1>4, ConcatProperties
  <2>. QED  BY <1>0, <1>2, <1>4, <2>1
<1>6. ASSUME NEW j \in 1 .. Len(s) + 1
      PROVE  t[j] = IF j < i THEN s[j] ELSE IF j = i THEN e ELSE s[j - 1]
  <2>1. CASE j <= i
    BY <1>0, <1>2, <1>3, <1>4, <2>1
  <2>2. CASE j > i
    <3>1. j - i \in 1 .. Len(s) - i + 1 /\ (j - i) + i - 1 = j - 1
      BY <1>0, <2>2
    <3>2. t[j] = b[j - i]
      BY <1>0, <1>2, <1>3, <1>4, <2>2
    <3>. QED  BY <1>0, <1>2, <2>2, <3>1, <3>2
  <2>. QED  BY <1>0, <2>1, <2>2
<1>. QED  BY <1>5, <1>6 DEF t

(* t is s with e put in front of the i-th element.                         *)
With(t, s, i, e) ==
  /\ Len(t) = Len(s) + 1
  /\ \A j \in 1 .. Len(s) + 1 :
       t[j] = IF j < i THEN s[j] ELSE IF j = i THEN e ELSE s[j - 1]

LEMMA Inserted ==
  ASSUME NEW S, NEW s \in Seq(S), NEW i \in 1 .. Len(s) + 1, NEW e \in S
  PROVE  InsertAt(s, i, e) \in Seq(S) /\ With(InsertAt(s, i, e), s, i, e)
BY InsertAtElements DEF With

(* array::Erase: the elements behind the position move down.               *)
LEMMA RemoveAtElements ==
  ASSUME NEW S, NEW s \in Seq(S), NEW i \in 1 .. Len(s)
  PROVE  LET t == RemoveAt(s, i)
         IN  /\ t \in Seq(S)
             /\ Len(t) = Len(s) - 1
             /\ \A j \in 1 .. Len(s) - 1 : t[j] = IF j < i THEN s[j] ELSE s[j + 1]
<1> DEFINE a == SubSeq(s, 1, i - 1)
           b == SubSeq(s, i + 1, Len(s))
           t == RemoveAt(s, i)
<1>0. Len(s) \in Nat /\ i \in Nat /\ i >= 1 /\ i <= Len(s) /\ DOMAIN s = 1 .. Len(s)
  OBVIOUS
<1>1. /\ a \in Seq(S) /\ Len(a) = i - 1
      /\ \A j \in 1 .. i - 1 : a[j] = s[j]
  BY <1>0
<1>2. /\ b \in Seq(S) /\ Len(b) = Len(s) - i
      /\ \A j \in 1 .. Len(s) - i : b[j] = s[j + i]
  <2>1. i + 1 \in 1 .. Len(s) + 1 /\ Len(s) \in (i + 1) - 1 .. Len(s)
    BY <1>0
  <2>2. /\ b \in Seq(S) /\ Len(b) = Len(s) - (i + 1) + 1
        /\ \A j \in 1 .. Len(s) - (i + 1) + 1 : b[j] = s[(i + 1) + j - 1]
    BY <2>1, SubSeqProperties
  <2>3. Len(s) - (i + 1) + 1 = Len(s) - i
    BY <1>0
  <2>4. \A j \in 1 .. Len(s) - i : (i + 1) + j - 1 = j + i
    BY <1>0
  <2>. QED  BY <2>2, <2>3, <2>4
<1>3. t = a \o b
  BY DEF RemoveAt
<1>. HIDE DEF a, b, t
<1>4. t \in Seq(S) /\ Len(t) = Len(s) - 1
  <2>1. t \in Seq(S) /\ Len(t) = Len(a) + Len(b)
    BY <1>1, <1>2, <1>3, ConcatProperties
  <2>. QED  BY <1>0, <1>1, <1>2, <2>1
<1>5. ASSUME NEW j \in 1 .. Len(s) - 1
      PROVE  t[j] = IF j < i THEN s[j] ELSE s[j + 1]
  <2>1. CASE j < i
    BY <1>0, <1>1, <1>2, <1>3, <2>1
  <2>2. CASE j >= i
    <3>1. j - i + 1 \in 1 .. Len(s) - i /\ (j - i + 1) + i = j + 1
      BY <1>0, <2>2
    <3>2. t[j] = b[j - i + 1]
      BY <1>0, <1>1, <1>2, <1>3, <2>2
    <3>. QED  BY <1>0, <1>2, <2>2, <3>1, <3>2
  <2>. QED  BY <1>0, <2>1, <2>2
<1>. QED  BY <1>4, <1>5 DEF t

(* Putting a new key into a list of different keys.                        *)
LEMMA AddedKey ==
  ASSUME NEW n \in Nat, NEW a, DOMAIN a = 1 .. n, NEW b, DOMAIN b = 1 .. n + 1,
         NEW i \in 1 .. n + 1,
         \A j \in 1 .. n + 1 : j # i => b[j] = IF j < i THEN a[j] ELSE a[j - 1],
         Distinct(a), b[i] \notin Elements(a)
  PROVE  Elements(b) = Elements(a) \cup {b[i]} /\ Distinct(b)
<1>1. i \in Nat /\ i >= 1 /\ i <= n + 1
  OBVIOUS
<1>2. \A j \in 1 .. n : a[j] # b[i]
  BY DEF Elements
<1>3. Elements(b) \subseteq Elements(a) \cup {b[i]}
  <2> SUFFICES ASSUME NEW j \in 1 .. n + 1  PROVE b[j] \in Elements(a) \cup {b[i]}
    BY DEF Elements
  <2>1. CASE j < i
    BY <1>1, <2>1 DEF Elements
  <2>2. CASE j = i
    BY <1>1, <2>2
  <2>3. CASE j > i
    <3>1. j - 1 \in 1 .. n /\ b[j] = a[j - 1]
      BY <1>1, <2>3
    <3>. QED  BY <3>1 DEF Elements
  <2>. QED  BY <1>1, <2>1, <2>2, <2>3
<1>4. b[i] \in Elements(b)
  BY <1>1 DEF Elements
<1>5. Elements(a) \subseteq Elements(b)
  <2> SUFFICES ASSUME NEW j \in 1 .. n  PROVE a[j] \in Elements(b)
    BY DEF Elements
  <2>1. CASE j < i
    BY <1>1, <2>1 DEF Elements
  <2>2. CASE j >= i
    <3>1. j + 1 \in 1 .. n + 1 /\ b[j + 1] = a[(j + 1) - 1] /\ (j + 1) - 1 = j
      BY <1>1, <2>2
    <3>. QED  BY <3>1 DEF Elements
  <2>. QED  BY <1>1, <2>1, <2>2
<1>6. ASSUME NEW m \in 1 .. n + 1, NEW o \in 1 .. n + 1, b[m] = b[o], m < o
      PROVE  FALSE
  <2> DEFINE old(j) == IF j < i THEN j ELSE j - 1
  <2>1. \A j \in 1 .. n + 1 : j # i => old(j) \in 1 .. n /\ b[j] = a[old(j)]
    BY <1>1
  <2>2. m # i
    <3>1. m = i => o > i
      BY <1>6, <1>1
    <3>. QED  BY <1>1, <1>2, <1>6, <2>1, <3>1
  <2>3. o # i
    <3>. SUFFICES ASSUME o = i  PROVE FALSE
      OBVIOUS
    <3>1. m \in 1 .. n /\ m < i
      BY <1>1, <1>6
    <3>2. b[m] = a[m]
      BY <3>1
    <3>. QED  BY <1>2, <1>6, <3>1, <3>2
  <2>4. old(m) = old(o)
    <3>1. /\ old(m) \in DOMAIN a /\ b[m] = a[old(m)]
          /\ old(o) \in DOMAIN a /\ b[o] = a[old(o)]
      BY <2>1, <2>2, <2>3
    <3>. HIDE DEF old
    <3>. QED  BY <1>6, <3>1 DEF Distinct
  <2>5. old(m) # old(o)
    BY <1>1, <1>6, <2>2, <2>3
  <2>. QED  BY <2>4, <2>5
<1>7. Distinct(b)
  <2> SUFFICES ASSUME NEW m \in 1 .. n + 1, NEW o \in 1 .. n + 1, b[m] = b[o], m # o
               PROVE  FALSE
    BY DEF Distinct
  <2>1. m < o \/ o < m
    OBVIOUS
  <2>. QED  BY <1>6, <2>1
<1>. QED  BY <1>3, <1>4, <1>5, <1>7

(* Taking a key out takes away that one and no other.                      *)
LEMMA RemovedKey ==
  ASSUME NEW n \in Nat, NEW a, DOMAIN a = 1 .. n, NEW b, DOMAIN b = 1 .. n - 1,
         NEW i \in 1 .. n,
         \A j \in 1 .. n - 1 : b[j] = IF j < i THEN a[j] ELSE a[j + 1],
         Distinct(a)
  PROVE  Elements(b) = Elements(a) \ {a[i]} /\ Distinct(b)
<1> DEFINE new(j) == IF j < i THEN j ELSE j + 1
<1>1. i \in Nat /\ i >= 1 /\ i <= n
  OBVIOUS
<1>2. \A j \in 1 .. n - 1 : new(j) \in 1 .. n /\ new(j) # i /\ b[j] = a[new(j)]
  BY <1>1
<1>3. \A m, o \in 1 .. n - 1 : new(m) = new(o) => m = o
  BY <1>1
<1>4. ASSUME NEW j \in 1 .. n, j # i  PROVE a[j] \in Elements(b)
  <2>1. CASE j < i
    <3>1. j \in 1 .. n - 1 /\ b[j] = a[j]
      BY <1>1, <2>1
    <3>. QED  BY <3>1 DEF Elements
  <2>2. CASE j > i
    <3>1. j - 1 \in 1 .. n - 1 /\ b[j - 1] = a[(j - 1) + 1] /\ (j - 1) + 1 = j
      BY <1>1, <2>2
    <3>. QED  BY <3>1 DEF Elements
  <2>. QED  BY <1>1, <1>4, <2>1, <2>2
<1>. HIDE DEF new
<1>5. Elements(b) \subseteq Elements(a)
  BY <1>2 DEF Elements
<1>6. a[i] \notin Elements(b)
  <2>1. SUFFICES ASSUME NEW j \in 1 .. n - 1, b[j] = a[i]  PROVE FALSE
    BY DEF Elements
  <2>2. new(j) \in 1 .. n /\ new(j) # i /\ a[new(j)] = a[i]
    BY <1>2, <2>1
  <2>. QED  BY <2>2 DEF Distinct
<1>7. Elements(a) \ {a[i]} \subseteq Elements(b)
  BY <1>4 DEF Elements
<1>8. Distinct(b)
  BY <1>2, <1>3 DEF Distinct
<1>. QED  BY <1>5, <1>6, <1>7, <1>8

(* Adding an interval whose register no interval of the set has.           *)
LEMMA AddedRegs ==
  ASSUME NEW S, NEW s \in Seq(S), NEW t \in Seq(S), NEW e \in S, NEW i \in 1 .. Len(s) + 1,
         Len(t) = Len(s) + 1,
         \A j \in 1 .. Len(s) + 1 :
           t[j] = IF j < i THEN s[j] ELSE IF j = i THEN e ELSE s[j - 1],
         DistinctRegs(s), e.reg \notin RegsIn(s)
  PROVE  RegsIn(t) = RegsIn(s) \cup {e.reg} /\ DistinctRegs(t)
<1> DEFINE n == Len(s)
           a == [j \in 1 .. n |-> s[j].reg]
           b == [j \in 1 .. n + 1 |-> t[j].reg]
<1>1. n \in Nat /\ i \in Nat /\ DOMAIN s = 1 .. n /\ DOMAIN t = 1 .. n + 1
  OBVIOUS
<1>2. /\ Elements(a) = RegsIn(s) /\ Distinct(a)
      /\ Elements(b) = RegsIn(t) /\ (Distinct(b) => DistinctRegs(t))
  BY <1>1 DEF Elements, RegsIn, Distinct, DistinctRegs
<1>3. DOMAIN a = 1 .. n /\ DOMAIN b = 1 .. n + 1 /\ b[i] = e.reg
  BY <1>1
<1>4. ASSUME NEW j \in 1 .. n + 1, j # i
      PROVE  b[j] = IF j < i THEN a[j] ELSE a[j - 1]
  <2>1. j < i => j \in 1 .. n
    BY <1>1
  <2>2. j > i => j - 1 \in 1 .. n
    BY <1>1
  <2>3. j < i \/ j = i \/ j > i
    BY <1>1
  <2>. QED  BY <1>1, <1>4, <2>1, <2>2, <2>3
<1>. HIDE DEF a, b, n
<1>5. i \in 1 .. n + 1 /\ b[i] \notin Elements(a)
  BY <1>2, <1>3 DEF n
<1>6. Elements(b) = Elements(a) \cup {b[i]} /\ Distinct(b)
  BY ONLY <1>1, <1>2, <1>3, <1>4, <1>5, AddedKey
<1>. QED  BY <1>2, <1>3, <1>6

(* Removing an interval takes away its register and no other.              *)
LEMMA RemovedRegs ==
  ASSUME NEW S, NEW s \in Seq(S), NEW t \in Seq(S), NEW i \in 1 .. Len(s),
         Len(t) = Len(s) - 1,
         \A j \in 1 .. Len(s) - 1 : t[j] = IF j < i THEN s[j] ELSE s[j + 1],
         DistinctRegs(s)
  PROVE  RegsIn(t) = RegsIn(s) \ {s[i].reg} /\ DistinctRegs(t)
<1> DEFINE n == Len(s)
           a == [j \in 1 .. n |-> s[j].reg]
           b == [j \in 1 .. n - 1 |-> t[j].reg]
<1>1. n \in Nat /\ i \in Nat /\ DOMAIN s = 1 .. n /\ DOMAIN t = 1 .. n - 1
  OBVIOUS
<1>2. /\ Elements(a) = RegsIn(s) /\ Distinct(a)
      /\ Elements(b) = RegsIn(t) /\ (Distinct(b) => DistinctRegs(t))
  BY <1>1 DEF Elements, RegsIn, Distinct, DistinctRegs
<1>3. DOMAIN a = 1 .. n /\ DOMAIN b = 1 .. n - 1 /\ a[i] = s[i].reg
  OBVIOUS
<1>4. ASSUME NEW j \in 1 .. n - 1
      PROVE  b[j] = IF j < i THEN a[j] ELSE a[j + 1]
  <2>1. j \in 1 .. n /\ j + 1 \in 1 .. n
    BY <1>1
  <2>. QED  BY <1>1, <2>1
<1>. HIDE DEF a, b, n
<1>5. i \in 1 .. n
  BY DEF n
<1>6. Elements(b) = Elements(a) \ {a[i]} /\ Distinct(b)
  BY ONLY <1>1, <1>2, <1>3, <1>4, <1>5, RemovedKey
<1>. QED  BY <1>2, <1>3, <1>6

-----------------------------------------------------------------------------
(* The positions that the searches in a set find.                          *)

(* The first index at which a test holds.                                  *)
LEMMA FirstIndex ==
  ASSUME NEW n \in Nat, NEW I, I \subseteq 1 .. n, I # {}
  PROVE  Min(I) \in I /\ \A y \in I : Min(I) <= y
<1>1. I \subseteq Nat
  OBVIOUS
<1>2. \E x \in I : \A y \in I : x <= y
  BY <1>1, LeastNatural
<1>. QED  BY <1>2 DEF Min

(* AddToSetSortedByEnd finds a position in the set or behind it.           *)
LEMMA EndPositionInSet ==
  ASSUME NEW S, NEW set \in Seq(S), NEW iv
  PROVE  EndPosition(set, iv) \in 1 .. Len(set) + 1
<1> DEFINE I == {i \in 1 .. Len(set) : iv.end <= set[i].end}
<1>1. Len(set) \in Nat /\ I \subseteq 1 .. Len(set)
  OBVIOUS
<1>2. EndPosition(set, iv) =
        LET p == IF I # {} THEN Min(I) ELSE 0 IN IF p = 0 THEN Len(set) + 1 ELSE p
  BY DEF EndPosition, SelectInSeq
<1>. HIDE DEF I
<1>3. I # {} => Min(I) \in 1 .. Len(set)
  BY <1>1, FirstIndex
<1>. QED  BY <1>1, <1>2, <1>3

(* AddToSetSortedByStart puts the interval in front of the first that does *)
(* not start before it.                                                    *)
LEMMA AddedByStart ==
  ASSUME NEW S, NEW set \in Seq(S), NEW iv \in S
  PROVE  /\ AddByStart(set, iv) \in Seq(S) /\ Len(AddByStart(set, iv)) = Len(set) + 1
         /\ \E i \in 1 .. Len(set) + 1 :
              /\ AddByStart(set, iv) = InsertAt(set, i, iv)
              /\ \A j \in 1 .. Len(set) : j < i => ~(iv.start <= set[j].start)
              /\ i <= Len(set) => iv.start <= set[i].start
              /\ With(AddByStart(set, iv), set, i, iv)
<1> DEFINE I == {i \in 1 .. Len(set) : iv.start <= set[i].start}
           i == IF I # {} THEN Min(I) ELSE Len(set) + 1
<1>1. Len(set) \in Nat /\ I \subseteq 1 .. Len(set)
  OBVIOUS
<1>2. AddByStart(set, iv) =
        LET p == IF I # {} THEN Min(I) ELSE 0
        IN InsertAt(set, IF p = 0 THEN Len(set) + 1 ELSE p, iv)
  BY DEF AddByStart, SelectInSeq
<1>3. I # {} => Min(I) \in I /\ Min(I) \in 1 .. Len(set) /\ \A j \in I : Min(I) <= j
  <2>. HIDE DEF I
  <2>. QED  BY <1>1, FirstIndex
<1>4. /\ i \in 1 .. Len(set) + 1
      /\ i <= Len(set) => i \in I
      /\ \A j \in 1 .. Len(set) : j < i => j \notin I
  <2>. HIDE DEF I
  <2>. QED  BY <1>1, <1>3
<1>5. AddByStart(set, iv) = InsertAt(set, i, iv)
  <2>. HIDE DEF I
  <2>1. I # {} => Min(I) # 0
    BY <1>1, <1>3
  <2>. QED  BY <1>2, <2>1
<1>. HIDE DEF i
<1>6. InsertAt(set, i, iv) \in Seq(S) /\ With(InsertAt(set, i, iv), set, i, iv)
  BY <1>4, Inserted
<1>7. /\ \A j \in 1 .. Len(set) : j < i => ~(iv.start <= set[j].start)
      /\ i <= Len(set) => iv.start <= set[i].start
  BY <1>4
<1>8. AddByStart(set, iv) \in Seq(S) /\ Len(AddByStart(set, iv)) = Len(set) + 1
      /\ With(AddByStart(set, iv), set, i, iv)
  BY <1>5, <1>6 DEF With
<1>. QED  BY <1>4, <1>5, <1>7, <1>8

(* SpillFixedRegAtInterval finds the interval that has the register.       *)
LEMMA HolderHasRegister ==
  ASSUME NEW S, active \in Seq(S), Current.reg \in Held
  PROVE  Holder \in 1 .. Len(active) /\ active[Holder].reg = Current.reg
<1> DEFINE I == {i \in 1 .. Len(active) : active[i].reg = Current.reg}
<1>1. Len(active) \in Nat /\ DOMAIN active = 1 .. Len(active) /\ I \subseteq 1 .. Len(active)
  OBVIOUS
<1>2. I # {}
  BY <1>1 DEF Held
<1>3. Holder = Min(I)
  BY <1>2 DEF Holder, SelectInSeq
<1>4. Min(I) \in I
  <2>. HIDE DEF I
  <2>. QED  BY <1>1, <1>2, FirstIndex
<1>. QED  BY <1>3, <1>4

(* The active interval that the scan of OP_SPILL finds has the name.       *)
LEMMA SpillHolderHasName ==
  ASSUME NEW S, active \in Seq(S), SpillHolder # 0
  PROVE  SpillHolder \in 1 .. Len(active) /\ active[SpillHolder].name = Spillee
<1> DEFINE I == {i \in 1 .. Len(active) : active[i].name = Spillee}
<1>1. Len(active) \in Nat /\ I \subseteq 1 .. Len(active)
  OBVIOUS
<1>2. SpillHolder = IF I # {} THEN Min(I) ELSE 0
  BY DEF SpillHolder, SelectInSeq
<1>3. Min(I) \in I
  <2>. HIDE DEF I
  <2>. QED  BY <1>1, <1>2, FirstIndex
<1>. QED  BY <1>2, <1>3

(* So does the one whose register SetRegOperand takes.                     *)
LEMMA ActiveRegisterHeld ==
  ASSUME NEW S, active \in Seq(S), NEW x \in Name, ActiveRegister(x) # NoReg
  PROVE  ActiveRegister(x) \in Held \cup Reg
<1> DEFINE I == {i \in 1 .. Len(active) : active[i].name = x}
           a == IF I # {} THEN Min(I) ELSE 0
<1>1. Len(active) \in Nat /\ DOMAIN active = 1 .. Len(active) /\ I \subseteq 1 .. Len(active)
  OBVIOUS
<1>2. ActiveRegister(x) =
        IF FixedReg[x] # NoReg THEN FixedReg[x] ELSE IF a = 0 THEN NoReg ELSE active[a].reg
  BY DEF ActiveRegister, SelectInSeq
<1>3. I # {} => Min(I) \in I
  <2>. HIDE DEF I
  <2>. QED  BY <1>1, FirstIndex
<1>4. FixedReg[x] \in Reg \cup {NoReg}
  BY RegisterAssumption
<1>5. a # 0 => a \in DOMAIN active
  BY <1>1, <1>3
<1>. HIDE DEF a
<1>. QED  BY <1>2, <1>4, <1>5 DEF Held

-----------------------------------------------------------------------------
(* The intervals that the scan starts from are well formed.                *)

LiveInterval(P) == [name : Name, start : Positions(P), end : Positions(P)]

(* The reduction of the live sets gives finitely many intervals, within    *)
(* the code; the name and the start tell them apart.                       *)
LEMMA LiveIntervalsTyped ==
  ASSUME NEW P \in Seq(Instruction), NEW in, NEW out
  PROVE  LET lis == LiveIntervals(P, in, out)
         IN  /\ IsFiniteSet(lis)
             /\ lis \subseteq LiveInterval(P)
             /\ \A l, m \in lis : l.name = m.name /\ l.start = m.start => l = m
<1> DEFINE Q == {q \in Name \X Positions(P) : StartsInterval(in, out, q[1], q[2])}
           li(p) == [name |-> p[1], start |-> p[2], end |-> IntervalEnd(P, in, p[1], p[2])]
           f == [p \in Q |-> li(p)]
           lis == LiveIntervals(P, in, out)
<1>0. Len(P) \in Nat /\ Positions(P) = 1 .. Len(P)
  BY DEF Positions
<1>1. lis = {li(p) : p \in Q}
  BY DEF LiveIntervals
<1>2. IsFiniteSet(Q)
  <2>1. IsFiniteSet(Positions(P))
    BY <1>0, FS_Interval
  <2>2. IsFiniteSet(Name \X Positions(P))
    BY <2>1, RoutineAssumption, FS_Product
  <2>. QED  BY <2>2, FS_Subset
<1>3. IsFiniteSet(lis)
  <2>1. f \in Surjection(Q, lis)
    BY <1>1 DEF Surjection
  <2>. HIDE DEF f, Q, lis
  <2>. QED  BY <1>2, <2>1, FS_Surjection
<1>4. ASSUME NEW x \in Name, NEW s \in Positions(P)
      PROVE  IntervalEnd(P, in, x, s) \in Positions(P)
  BY <1>0, IntervalEndIs
<1>5. \A p \in Q : p[1] \in Name /\ p[2] \in Positions(P)
  OBVIOUS
<1>6. \A p \in Q : li(p) \in LiveInterval(P)
  <2>. HIDE DEF Q
  <2>. QED  BY <1>4, <1>5 DEF LiveInterval
<1>7. \A p, q \in Q : li(p).name = li(q).name /\ li(p).start = li(q).start => li(p) = li(q)
  OBVIOUS
<1>. QED  BY <1>1, <1>3, <1>6, <1>7

(* The interval of an argument or of another name.                         *)
LEMMA IntervalTyped ==
  ASSUME NEW P, NEW li \in LiveInterval(P), NEW a
  PROVE  /\ Interval(li, a) \in Link(P)
         /\ Interval(li, a).name = li.name
         /\ Interval(li, a).start = li.start /\ Interval(li, a).end = li.end
<1>1. li.name \in Name /\ li.start \in Positions(P) /\ li.end \in Positions(P)
  BY DEF LiveInterval
<1>2. /\ FixedReg[li.name] \in Reg \cup {NoReg}
      /\ ArgReg[li.name] \in Reg \cup {NoReg}
  BY <1>1, RegisterAssumption
<1>. QED  BY <1>1, <1>2 DEF Interval, Link, IntervalOf

(* The orders of a finite set have each of its elements, once.             *)
LEMMA SequenceOfAll ==
  ASSUME NEW S, IsFiniteSet(S), NEW s \in SetToSeqs(S)
  PROVE  /\ s \in Seq(S) /\ Distinct(s) /\ Elements(s) = S
         /\ Len(s) = Cardinality(S) /\ DOMAIN s = 1 .. Len(s)
<1> DEFINE n == Cardinality(S)
<1>1. n \in Nat
  BY FS_CardinalityType
<1>2. s \in [1 .. n -> S] /\ \A i, j \in 1 .. n : i # j => s[i] # s[j]
  BY DEF SetToSeqs
<1>3. IsFiniteSet(1 .. n) /\ Cardinality(1 .. n) = n
  BY <1>1, FS_Interval
<1>. HIDE DEF n
<1>4. s \in Injection(1 .. n, S)
  BY <1>2 DEF Injection, IsInjective
<1>5. s \in Surjection(1 .. n, S)
  BY <1>3, <1>4, FS_Injection DEF n
<1>6. \A e \in S : \E j \in 1 .. n : s[j] = e
  BY <1>5 DEF Surjection
<1>7. s \in Seq(S) /\ Len(s) = n /\ DOMAIN s = 1 .. n
  BY <1>1, <1>2
<1>8. Elements(s) = S
  BY <1>2, <1>6, <1>7 DEF Elements
<1>. QED  BY <1>2, <1>7, <1>8 DEF Distinct, n

(* Intervals with different starts can be sorted: by induction over a      *)
(* bound on the starts.                                                    *)
SortedByStart(s) == \A i, j \in DOMAIN s : i < j => s[i].start < s[j].start

(* Intervals whose starts differ can be written in the order of their      *)
(* starts.                                                                 *)
LEMMA SortedOrderExists ==
  ASSUME NEW S, IsFiniteSet(S), \A e \in S : e.start \in Nat,
         \A d, e \in S : d.start = e.start => d = e,
         NEW max \in Nat, \A e \in S : e.start <= max
  PROVE  \E s \in SetToSeqs(S) : SortedByStart(s)
<1> DEFINE Below(m) == {e \in S : e.start < m}
           Ok(m) == \E s \in SetToSeqs(Below(m)) : SortedByStart(s)
           Bad == {m \in Nat : ~ Ok(m)}
<1>1. ASSUME NEW T, IsFiniteSet(T), T \subseteq S, NEW s \in SetToSeqs(T), SortedByStart(s),
             NEW e \in S, e \notin T, \A d \in T : d.start < e.start
      PROVE  \E r \in SetToSeqs(T \cup {e}) : SortedByStart(r)
  <2> DEFINE n == Cardinality(T)
             r == [i \in 1 .. n + 1 |-> IF i <= n THEN s[i] ELSE e]
  <2>1. n \in Nat /\ Cardinality(T \cup {e}) = n + 1
    BY <1>1, FS_CardinalityType, FS_AddElement
  <2>2. s \in [1 .. n -> T] /\ \A i, j \in 1 .. n : i # j => s[i] # s[j]
    BY <1>1 DEF SetToSeqs
  <2>. HIDE DEF n
  <2>3. r \in [1 .. n + 1 -> T \cup {e}]
    BY <2>1, <2>2
  <2>4. \A i \in 1 .. n + 1 : (i \in 1 .. n /\ r[i] = s[i] /\ r[i] \in T) \/ (i = n + 1 /\ r[i] = e)
    BY <2>1, <2>2
  <2>5. \A i, j \in 1 .. n + 1 : i # j => r[i] # r[j]
    BY <1>1, <2>2, <2>4
  <2>6. r \in SetToSeqs(T \cup {e})
    BY <2>1, <2>3, <2>5 DEF SetToSeqs
  <2>7. ASSUME NEW i \in 1 .. n + 1, NEW j \in 1 .. n + 1, i < j
        PROVE  r[i].start < r[j].start
    <3>1. i \in 1 .. n
      BY <2>1, <2>7
    <3>2. r[i] = s[i] /\ r[i] \in T
      BY <2>1, <2>4, <3>1
    <3>3. CASE j \in 1 .. n
      <4>1. r[j] = s[j] /\ DOMAIN s = 1 .. n
        BY <2>1, <2>2, <2>4, <3>3
      <4>. QED  BY <1>1, <2>7, <3>1, <3>2, <3>3, <4>1 DEF SortedByStart
    <3>4. CASE j = n + 1
      BY <1>1, <2>1, <2>4, <3>2, <3>4
    <3>. QED  BY <2>1, <3>3, <3>4
  <2>8. SortedByStart(r)
    BY <2>3, <2>7 DEF SortedByStart
  <2>. QED  BY <2>6, <2>8
<1>2. \A m : IsFiniteSet(Below(m)) /\ Below(m) \subseteq S
  BY FS_Subset
<1>3. Ok(0)
  <2>1. Below(0) = {}
    OBVIOUS
  <2>2. Cardinality({}) = 0
    BY FS_EmptySet
  <2>3. <<>> \in SetToSeqs({}) /\ SortedByStart(<<>>)
    BY <2>2 DEF SetToSeqs, SortedByStart
  <2>. QED  BY <2>1, <2>3
<1>4. ASSUME NEW m \in Nat, Ok(m)  PROVE Ok(m + 1)
  <2>1. PICK s \in SetToSeqs(Below(m)) : SortedByStart(s)
    BY <1>4
  <2>2. CASE \A e \in S : e.start # m
    <3>1. \A e \in S : e.start < m + 1 <=> e.start < m
      BY <2>2
    <3>2. Below(m + 1) = Below(m)
      BY <3>1
    <3>. QED  BY <1>4, <3>2
  <2>3. CASE \E e \in S : e.start = m
    <3>1. PICK e \in S : e.start = m
      BY <2>3
    <3>2. \A d \in S : d.start < m + 1 <=> d.start < m \/ d = e
      BY <3>1
    <3>3. Below(m + 1) = Below(m) \cup {e}
      BY <3>2
    <3>4. e \notin Below(m) /\ \A d \in Below(m) : d.start < e.start
      BY <3>1
    <3>. HIDE DEF Below
    <3>5. \E r \in SetToSeqs(Below(m) \cup {e}) : SortedByStart(r)
      BY <1>1, <1>2, <2>1, <3>4
    <3>. QED  BY <3>3, <3>5
  <2>. QED  BY <2>2, <2>3
<1>. HIDE DEF Below, Ok
<1>5. \A m \in Nat : Ok(m)
  <2> SUFFICES ASSUME Bad # {}  PROVE FALSE
    OBVIOUS
  <2>1. PICK m \in Bad : \A y \in Bad : m <= y
    BY LeastNatural
  <2>2. m \in Nat /\ m # 0
    BY <1>3
  <2>3. m - 1 \in Nat /\ (m - 1) + 1 = m /\ ~(m <= m - 1)
    BY <2>2
  <2>4. Ok(m - 1)
    BY <2>1, <2>3
  <2>. QED  BY <1>4, <2>3, <2>4
<1>6. Below(max + 1) = S
  BY DEF Below
<1>7. Ok(max + 1)
  BY <1>5
<1>. QED  BY <1>6, <1>7 DEF Ok

(* A live interval is the interval or hangs behind it.                     *)
Holds(iv, li) ==
  /\ iv.name = li.name
  /\ \/ iv.start = li.start /\ iv.end = li.end
     \/ \E c \in DOMAIN iv.next : iv.next[c].start = li.start /\ iv.next[c].end = li.end

(* An interval has the register that AllocateRegisters has given it.       *)
OfArgument(iv, a) == iv.name \in a /\ iv.start = 1

Fresh(iv, a) ==
  /\ OfArgument(iv, a) => iv.reg = ArgReg[iv.name] /\ iv.is_fixed = FALSE
                       /\ iv.is_spilled = (ArgReg[iv.name] = NoReg)
  /\ ~OfArgument(iv, a) => iv.reg = FixedReg[iv.name] /\ iv.is_spilled = FALSE
                        /\ iv.is_fixed = (FixedReg[iv.name] # NoReg)

(* Sorting the intervals of one name gives its chain, with every interval, *)
(* in which they are apart if they are.                                    *)
LEMMA ChainTyped ==
  ASSUME NEW P \in Seq(Instruction), NEW lis, lis # {}, IsFiniteSet(lis),
         lis \subseteq LiveInterval(P), \A l, m \in lis : l.start = m.start => l = m, NEW a,
         NEW x, \A l \in lis : l.name = x
  PROVE  /\ Chain(lis, a) \in Entry(P) /\ Chain(lis, a).name = x
         /\ PartsApart(lis) => Ordered(Chain(lis, a))
         /\ Fresh(Chain(lis, a), a) /\ \A l \in lis : Holds(Chain(lis, a), l)
<1> DEFINE ivs == {Interval(li, a) : li \in lis}
           f == [li \in lis |-> Interval(li, a)]
           sorted == CHOOSE s \in SetToSeqs(ivs) : SortedByStart(s)
<1>0. Len(P) \in Nat /\ Positions(P) = 1 .. Len(P)
  BY DEF Positions
<1>1. ivs \subseteq Link(P) /\ ivs # {}
  BY IntervalTyped
<1>2. IsFiniteSet(ivs)
  <2>1. f \in Surjection(lis, ivs)
    BY DEF Surjection
  <2>. HIDE DEF f, ivs
  <2>. QED  BY <2>1, FS_Surjection
<1>3. \A d, e \in ivs : d.start = e.start => d = e
  <2> SUFFICES ASSUME NEW l \in lis, NEW m \in lis,
                      Interval(l, a).start = Interval(m, a).start
               PROVE  l = m
    OBVIOUS
  <2>. QED  BY IntervalTyped
<1>4. \A e \in ivs : e.start \in Nat /\ e.start <= Len(P)
  <2>. HIDE DEF ivs
  <2>. QED  BY <1>0, <1>1 DEF Link, IntervalOf
<1>5. \E s \in SetToSeqs(ivs) : SortedByStart(s)
  <2>. HIDE DEF ivs
  <2>. QED  BY <1>0, <1>2, <1>3, <1>4, SortedOrderExists
<1>6. sorted \in SetToSeqs(ivs) /\ SortedByStart(sorted)
  BY <1>5
<1>7. Chain(lis, a) = [Head(sorted) EXCEPT !.next = Tail(sorted)]
  BY DEF Chain, SortedByStart
<1>. HIDE DEF ivs, sorted
<1>8. /\ sorted \in Seq(ivs) /\ sorted # <<>> /\ SortedByStart(sorted)
      /\ Len(sorted) \in Nat /\ Len(sorted) # 0 /\ DOMAIN sorted = 1 .. Len(sorted)
      /\ Elements(sorted) = ivs
  <2>1. Cardinality(ivs) \in Nat /\ Cardinality(ivs) # 0
    BY <1>1, <1>2, FS_CardinalityType, FS_EmptySet
  <2>. QED  BY <1>2, <1>6, <2>1, SequenceOfAll
<1>9. sorted \in Seq(Link(P))
  BY <1>1, <1>8
<1> DEFINE e == Chain(lis, a)
           n == Len(sorted)
<1>10. /\ Head(sorted) \in Link(P) /\ Tail(sorted) \in Seq(Link(P))
       /\ Head(sorted) = sorted[1] /\ Len(Tail(sorted)) = n - 1
       /\ \A c \in 1 .. n - 1 : Tail(sorted)[c] = sorted[c + 1]
  BY <1>8, <1>9
<1>11. /\ e \in Entry(P)
       /\ e.name = sorted[1].name /\ e.start = sorted[1].start /\ e.end = sorted[1].end
       /\ e.next = Tail(sorted)
       /\ e.reg = sorted[1].reg /\ e.is_fixed = sorted[1].is_fixed
       /\ e.is_spilled = sorted[1].is_spilled
  BY <1>7, <1>10 DEF Link, Entry, IntervalOf
<1>12. \A c \in 1 .. n : sorted[c] \in ivs
  BY <1>8
<1>13. \A d \in ivs : \E l \in lis : d.name = l.name /\ d.start = l.start /\ d.end = l.end
  BY IntervalTyped DEF ivs
<1>14. \A d \in ivs : d.name = x
  BY <1>13
<1>15. 1 \in 1 .. n
  BY <1>8
<1>16. ASSUME PartsApart(lis)
       PROVE  Ordered(e)
  <2>1. \A d \in ivs : d.start <= d.end
    BY <1>13, <1>16 DEF PartsApart
  <2>2. \A c, d \in ivs : c.start < d.start => c.end < d.start
    BY <1>13, <1>14, <1>16 DEF PartsApart
  <2>3. \A c, d \in 1 .. n : c < d => sorted[c].start < sorted[d].start
    BY <1>8 DEF SortedByStart
  <2>4. \A c, d \in 1 .. n : c < d => sorted[c].end < sorted[d].start
    BY <1>12, <2>2, <2>3
  <2>. HIDE DEF e, n
  <2>5. DOMAIN e.next = 1 .. n - 1
    BY <1>8, <1>10, <1>11 DEF n
  <2>6. \A c \in 1 .. n - 1 : /\ c + 1 \in 1 .. n /\ 1 < c + 1 /\ e.next[c] = sorted[c + 1]
    BY <1>8, <1>10, <1>11 DEF n
  <2>7. e.start <= e.end
    BY <1>11, <1>12, <1>15, <2>1
  <2>8. ASSUME NEW c \in 1 .. n - 1
        PROVE  /\ e.next[c].name = e.name /\ e.next[c].start <= e.next[c].end
               /\ e.end < e.next[c].start
    BY <1>11, <1>12, <1>14, <1>15, <2>1, <2>4, <2>6
  <2>9. ASSUME NEW c \in 1 .. n - 1, NEW d \in 1 .. n - 1, c < d
        PROVE  e.next[c].end < e.next[d].start
    <3>1. c + 1 < d + 1
      BY <2>9
    <3>. QED  BY <2>4, <2>6, <3>1
  <2>. QED  BY <2>5, <2>7, <2>8, <2>9 DEF Ordered
<1>17. e.name = x
  BY <1>11, <1>12, <1>14, <1>15
<1>18. Fresh(e, a)
  <2>1. ASSUME NEW l \in lis  PROVE Fresh(Interval(l, a), a)
    <3>1. CASE l.name \in a /\ l.start = 1
      BY <3>1 DEF Interval, Fresh, OfArgument
    <3>2. CASE ~(l.name \in a /\ l.start = 1)
      BY <3>2 DEF Interval, Fresh, OfArgument
    <3>. QED  BY <3>1, <3>2
  <2>2. Fresh(sorted[1], a)
    BY <1>12, <1>15, <2>1 DEF ivs
  <2>. HIDE DEF e
  <2>. QED  BY <1>11, <2>2 DEF Fresh, OfArgument
<1>19. ASSUME NEW l \in lis  PROVE Holds(e, l)
  <2>1. /\ Interval(l, a) \in ivs /\ l.name = x
        /\ Interval(l, a).start = l.start /\ Interval(l, a).end = l.end
    BY IntervalTyped DEF ivs
  <2>2. PICK j \in 1 .. n : sorted[j] = Interval(l, a)
    BY <1>8, <2>1 DEF Elements
  <2>. HIDE DEF e, n
  <2>3. CASE j = 1
    BY <1>11, <1>17, <2>1, <2>2, <2>3 DEF Holds
  <2>4. CASE j # 1
    <3>1. /\ j - 1 \in 1 .. n - 1 /\ (j - 1) + 1 = j /\ DOMAIN e.next = 1 .. n - 1
      BY <1>8, <1>10, <1>11, <2>4 DEF n
    <3>2. e.next[j - 1] = sorted[j]
      BY <1>10, <1>11, <3>1 DEF n
    <3>. QED  BY <1>17, <2>1, <2>2, <3>1, <3>2 DEF Holds
  <2>. QED  BY <2>3, <2>4
<1>. QED  BY <1>11, <1>16, <1>17, <1>18, <1>19

(* ByStart puts together, for more and more keys, an order of the heads    *)
(* before and one of those with the key.  That it is a function with this  *)
(* equation is an induction over the number of keys.                       *)
OrderStep(heads, g, n) ==
  IF n = 0 THEN {<<>>} ELSE FollowedBy(g[n - 1], Tied(heads, n))

(* The orders that ByStart builds of ties, step by step, are a function.   *)
LEMMA OrdersExist ==
  ASSUME NEW heads, NEW m \in Nat
  PROVE  \E g : g = [n \in 0 .. m |-> OrderStep(heads, g, n)]
<1> DEFINE Solves(g, k_) == g = [n \in 0 .. k_ |-> OrderStep(heads, g, n)]
           Unsolved == {k_ \in Nat : ~ \E g : Solves(g, k_)}
<1>1. \E g : Solves(g, 0)
  <2>1. Solves([n \in 0 .. 0 |-> {<<>>}], 0)
    BY DEF OrderStep
  <2>. QED  BY <2>1
<1>2. ASSUME NEW k_ \in Nat, NEW g, Solves(g, k_)
      PROVE  \E h : Solves(h, k_ + 1)
  <2>. DEFINE h == [n \in 0 .. k_ + 1 |-> IF n = k_ + 1 THEN OrderStep(heads, g, n) ELSE g[n]]
  <2>1. \A n \in 0 .. k_ : g[n] = OrderStep(heads, g, n)
    BY <1>2
  <2>2. \A n \in 1 .. k_ + 1 : h[n - 1] = g[n - 1]
    OBVIOUS
  <2>3. \A n \in 0 .. k_ + 1 : OrderStep(heads, h, n) = OrderStep(heads, g, n)
    <3>. HIDE DEF h
    <3>. SUFFICES ASSUME NEW n \in 0 .. k_ + 1
                  PROVE  OrderStep(heads, h, n) = OrderStep(heads, g, n)
      OBVIOUS
    <3>1. CASE n = 0
      BY <3>1 DEF OrderStep
    <3>2. CASE n # 0
      <4>1. h[n - 1] = g[n - 1]
        BY <2>2, <3>2
      <4>. QED  BY <3>2, <4>1 DEF OrderStep
    <3>. QED  BY <3>1, <3>2
  <2>4. h = [n \in 0 .. k_ + 1 |-> OrderStep(heads, h, n)]
    <3>1. \A n \in 0 .. k_ + 1 : h[n] = OrderStep(heads, h, n)
      BY <2>1, <2>3
    <3>2. h = [n \in 0 .. k_ + 1 |-> h[n]]
      OBVIOUS
    <3>. HIDE DEF h
    <3>. QED  BY <3>1, <3>2
  <2>. QED  BY <2>4
<1>3. Unsolved = {}
  <2>. SUFFICES ASSUME Unsolved # {}  PROVE FALSE
    OBVIOUS
  <2>1. PICK k_ \in Unsolved : \A j \in Unsolved : k_ <= j
    <3>1. Unsolved \subseteq Nat
      OBVIOUS
    <3>. HIDE DEF Unsolved
    <3>. QED  BY <3>1, LeastNatural
  <2>2. k_ \in Nat /\ k_ # 0 /\ ~ \E g : Solves(g, k_)
    BY <1>1
  <2>3. k_ - 1 \in Nat /\ k_ - 1 \notin Unsolved /\ (k_ - 1) + 1 = k_
    <3>. HIDE DEF Unsolved
    <3>. QED  BY <2>1, <2>2
  <2>4. PICK g : Solves(g, k_ - 1)
    <3>. HIDE DEF Solves
    <3>. QED  BY <2>3
  <2>5. \E h : Solves(h, (k_ - 1) + 1)
    <3>. HIDE DEF Solves, Unsolved
    <3>. QED  BY <1>2, <2>3, <2>4
  <2>. QED  BY <2>2, <2>3, <2>5
<1>4. m \notin Unsolved
  BY <1>3
<1>. QED  BY <1>4

(* The heads with one key, in an order, once each and all of them.         *)
Key(iv) == 3 * iv.start + Rank(iv)

LEMMA TiedTyped ==
  ASSUME NEW heads, IsFiniteSet(heads), NEW n, NEW t \in Tied(heads, n)
  PROVE  /\ t \in Seq(heads) /\ Distinct(t)
         /\ \A j \in DOMAIN t : Key(t[j]) = n
         /\ \A iv \in heads : Key(iv) = n => iv \in Elements(t)
<1> DEFINE T == {iv \in heads : 3 * iv.start + Rank(iv) = n}
<1>1. T \subseteq heads /\ \A iv \in heads : iv \in T <=> Key(iv) = n
  BY DEF Key
<1>2. Tied(heads, n) = SetToSeqs(T)
  BY DEF Tied
<1>. HIDE DEF T
<1>3. IsFiniteSet(T)
  BY <1>1, FS_Subset
<1>4. t \in Seq(T) /\ Distinct(t) /\ Elements(t) = T
  BY <1>2, <1>3, SequenceOfAll
<1>5. \A j \in DOMAIN t : t[j] \in T
  BY <1>4 DEF Elements
<1>. QED  BY <1>1, <1>4, <1>5

(* The heads with keys up to n, once each, in the order of their keys.     *)
InKeyOrder(heads, n, s) ==
  /\ s \in Seq(heads) /\ Distinct(s)
  /\ \A j \in DOMAIN s : Key(s[j]) <= n
  /\ \A i, j \in DOMAIN s : i < j => Key(s[i]) <= Key(s[j])
  /\ \A iv \in heads : Key(iv) <= n => iv \in Elements(s)

(* Heads with the next key put behind heads with the keys before.          *)
LEMMA FollowedByTyped ==
  ASSUME NEW heads, \A iv \in heads : Key(iv) \in Nat, NEW n \in Nat, NEW before, NEW after,
         \A o \in before : InKeyOrder(heads, n - 1, o),
         \A t \in after : /\ t \in Seq(heads) /\ Distinct(t)
                          /\ \A j \in DOMAIN t : Key(t[j]) = n
                          /\ \A iv \in heads : Key(iv) = n => iv \in Elements(t),
         NEW l \in FollowedBy(before, after)
  PROVE  InKeyOrder(heads, n, l)
<1>1. PICK o \in before : l \in {o \o t : t \in after}
  BY Zenon DEF FollowedBy
<1>2. PICK t \in after : l = o \o t
  BY <1>1
<1>3. /\ o \in Seq(heads) /\ Distinct(o)
      /\ \A j \in DOMAIN o : Key(o[j]) <= n - 1
      /\ \A i, j \in DOMAIN o : i < j => Key(o[i]) <= Key(o[j])
      /\ \A iv \in heads : Key(iv) <= n - 1 => iv \in Elements(o)
  BY DEF InKeyOrder
<1>4. /\ t \in Seq(heads) /\ Distinct(t)
      /\ \A j \in DOMAIN t : Key(t[j]) = n
      /\ \A iv \in heads : Key(iv) = n => iv \in Elements(t)
  OBVIOUS
<1> DEFINE a == Len(o)
           b == Len(t)
<1>5. /\ l \in Seq(heads) /\ Len(l) = a + b /\ a \in Nat /\ b \in Nat
      /\ DOMAIN o = 1 .. a /\ DOMAIN t = 1 .. b /\ DOMAIN l = 1 .. a + b
      /\ \A j \in 1 .. a + b : l[j] = IF j <= a THEN o[j] ELSE t[j - a]
  BY <1>2, <1>3, <1>4
<1>. HIDE DEF a, b
<1>6. ASSUME NEW j \in 1 .. a + b
      PROVE  \/ j \in 1 .. a /\ l[j] = o[j] /\ l[j] \in heads
             \/ j > a /\ j - a \in 1 .. b /\ l[j] = t[j - a] /\ l[j] \in heads
  <2>1. l[j] \in heads
    BY <1>5
  <2>2. CASE j <= a
    BY <1>5, <2>1, <2>2
  <2>3. CASE j > a
    BY <1>5, <2>1, <2>3
  <2>. QED  BY <1>5, <2>2, <2>3
<1>7. \A j \in 1 .. a : Key(o[j]) \in Nat /\ Key(o[j]) <= n - 1
  <2>1. \A j \in 1 .. a : o[j] \in heads
    BY <1>3, <1>5
  <2>. QED  BY <1>3, <1>5, <2>1
<1>8. \A j \in 1 .. b : Key(t[j]) = n
  BY <1>4, <1>5
<1>9. \A i \in 1 .. a, j \in 1 .. b : o[i] # t[j]
  <2> SUFFICES ASSUME NEW i \in 1 .. a, NEW j \in 1 .. b, o[i] = t[j]  PROVE FALSE
    OBVIOUS
  <2>1. Key(o[i]) = n /\ Key(o[i]) <= n - 1
    BY <1>7, <1>8
  <2>. QED  BY <2>1
<1>10. ASSUME NEW i \in 1 .. a + b, NEW j \in 1 .. a + b, l[i] = l[j]
       PROVE  i = j
  <2>0. /\ \A p, q \in 1 .. a : o[p] = o[q] => p = q
        /\ \A p, q \in 1 .. b : t[p] = t[q] => p = q
    BY <1>3, <1>4, <1>5 DEF Distinct
  <2>1. CASE i \in 1 .. a /\ j \in 1 .. a
    <3>1. i <= a /\ j <= a
      BY <1>5, <2>1
    <3>2. o[i] = o[j]
      BY <1>5, <1>10, <3>1
    <3>. QED  BY <2>0, <2>1, <3>2
  <2>2. CASE i > a /\ j > a
    <3>1. ~(i <= a) /\ ~(j <= a) /\ i - a \in 1 .. b /\ j - a \in 1 .. b
      BY <1>5, <2>2
    <3>2. t[i - a] = t[j - a]
      BY <1>5, <1>10, <3>1
    <3>3. i - a = j - a
      BY <2>0, <3>1, <3>2
    <3>. QED  BY <1>5, <3>3
  <2>3. CASE i \in 1 .. a /\ j > a
    <3>1. i <= a /\ ~(j <= a) /\ j - a \in 1 .. b
      BY <1>5, <2>3
    <3>2. o[i] = t[j - a]
      BY <1>5, <1>10, <3>1
    <3>. QED  BY <1>9, <2>3, <3>1, <3>2
  <2>4. CASE i > a /\ j \in 1 .. a
    <3>1. ~(i <= a) /\ j <= a /\ i - a \in 1 .. b
      BY <1>5, <2>4
    <3>2. t[i - a] = o[j]
      BY <1>5, <1>10, <3>1
    <3>. QED  BY <1>9, <2>4, <3>1, <3>2
  <2>5. (i \in 1 .. a \/ i > a) /\ (j \in 1 .. a \/ j > a)
    BY <1>5
  <2>. QED  BY <2>1, <2>2, <2>3, <2>4, <2>5
<1>11. \A j \in 1 .. a + b : Key(l[j]) <= n
  <2>1. ASSUME NEW j \in 1 .. a + b  PROVE Key(l[j]) <= n
    <3>1. CASE j \in 1 .. a /\ l[j] = o[j]
      BY <1>7, <3>1
    <3>2. CASE j - a \in 1 .. b /\ l[j] = t[j - a]
      BY <1>8, <3>2
    <3>. QED  BY <1>6, <3>1, <3>2
  <2>. QED  BY <2>1
<1>12. ASSUME NEW i \in 1 .. a + b, NEW j \in 1 .. a + b, i < j
       PROVE  Key(l[i]) <= Key(l[j])
  <2>1. CASE j \in 1 .. a
    <3>1. i \in 1 .. a /\ l[i] = o[i] /\ l[j] = o[j]
      BY <1>5, <1>6, <1>12, <2>1
    <3>. QED  BY <1>3, <1>5, <1>12, <2>1, <3>1
  <2>2. CASE j > a
    <3>1. Key(l[j]) = n
      BY <1>5, <1>6, <1>8, <2>2
    <3>. QED  BY <1>11, <3>1
  <2>. QED  BY <1>6, <2>1, <2>2
<1>13. ASSUME NEW iv \in heads, Key(iv) <= n  PROVE iv \in Elements(l)
  <2>1. CASE Key(iv) <= n - 1
    <3>1. PICK j \in 1 .. a : o[j] = iv
      BY <1>3, <1>5, <2>1 DEF Elements
    <3>2. j \in 1 .. a + b /\ l[j] = iv
      BY <1>5, <3>1
    <3>. QED  BY <1>5, <3>2 DEF Elements
  <2>2. CASE Key(iv) = n
    <3>1. PICK j \in 1 .. b : t[j] = iv
      BY <1>4, <1>5, <2>2 DEF Elements
    <3>2. a + j \in 1 .. a + b /\ ~(a + j <= a) /\ (a + j) - a = j
      BY <1>5
    <3>3. l[a + j] = iv
      BY <1>5, <3>1, <3>2
    <3>. QED  BY <1>5, <3>2, <3>3 DEF Elements
  <2>. QED  BY <1>13, <2>1, <2>2
<1>. QED  BY <1>5, <1>10, <1>11, <1>12, <1>13 DEF InKeyOrder, Distinct

(* Whatever the order of the tied heads, the result has every head once,   *)
(* in the order of their starts, and those that arrive in registers first. *)
LEMMA ByStartTyped ==
  ASSUME N \in Nat, NEW heads, IsFiniteSet(heads), \A iv \in heads : iv.start \in 1 .. N,
         NEW s \in ByStart(heads)
  PROVE  /\ s \in Seq(heads) /\ Distinct(s) /\ StartsSorted(s) /\ Elements(s) = heads
         /\ \A i, j \in DOMAIN s : i < j => Key(s[i]) <= Key(s[j])
<1> DEFINE max == 3 * N + 2
           Fits(g) == g = [n \in 0 .. max |->
                             IF n = 0 THEN {<<>>} ELSE FollowedBy(g[n - 1], Tied(heads, n))]
           orders == CHOOSE g : Fits(g)
           Wrong == {n \in 0 .. max : ~ \A l \in orders[n] : InKeyOrder(heads, n, l)}
<1>0. max \in Nat
  OBVIOUS
<1>1. ByStart(heads) = orders[max]
  BY DEF ByStart
<1>. HIDE DEF max
<1>2. \E g : Fits(g)
  <2>1. PICK g : g = [n \in 0 .. max |-> OrderStep(heads, g, n)]
    BY <1>0, OrdersExist
  <2>2. Fits(g)
    BY <2>1 DEF OrderStep
  <2>. QED  BY <2>2
<1>3. Fits(orders)
  <2>. HIDE DEF Fits
  <2>. QED  BY <1>2
<1>. HIDE DEF orders
<1>4. \A n \in 0 .. max :
        orders[n] = IF n = 0 THEN {<<>>} ELSE FollowedBy(orders[n - 1], Tied(heads, n))
  BY <1>3
<1>. HIDE DEF Fits
<1>5. \A iv \in heads : /\ iv.start \in Nat /\ Rank(iv) \in 0 .. 2
                       /\ Key(iv) = 3 * iv.start + Rank(iv)
                       /\ Key(iv) \in Nat /\ 0 < Key(iv) /\ Key(iv) <= max
  <2>. SUFFICES ASSUME NEW iv \in heads
                PROVE  /\ iv.start \in Nat /\ Rank(iv) \in 0 .. 2
                       /\ Key(iv) = 3 * iv.start + Rank(iv)
                       /\ Key(iv) \in Nat /\ 0 < Key(iv) /\ Key(iv) <= max
    OBVIOUS
  <2> DEFINE p == iv.start
             c == Rank(iv)
  <2>1. p \in 1 .. N /\ c \in 0 .. 2 /\ Key(iv) = 3 * p + c
    BY DEF Key, Rank
  <2>. HIDE DEF p, c
  <2>2. p \in Nat /\ 3 * p + c \in Nat /\ 0 < 3 * p + c /\ 3 * p + c <= max
    BY <2>1 DEF max
  <2>. QED  BY <2>1, <2>2 DEF p, c
<1>6. Wrong = {}
  <2>. SUFFICES ASSUME Wrong # {}  PROVE FALSE
    OBVIOUS
  <2>1. PICK n \in Wrong : \A j \in Wrong : n <= j
    <3>1. Wrong \subseteq Nat
      BY <1>0
    <3>. HIDE DEF Wrong
    <3>. QED  BY <3>1, LeastNatural
  <2>2. InKeyOrder(heads, 0, <<>>)
    BY <1>5 DEF InKeyOrder, Distinct
  <2>3. n \in 0 .. max /\ n # 0
    BY <1>4, <2>1, <2>2
  <2>4. n \in 1 .. max /\ n \in Nat /\ n - 1 \in 0 .. max /\ ~(n <= n - 1)
    BY <1>0, <2>3
  <2>5. \A o \in orders[n - 1] : InKeyOrder(heads, n - 1, o)
    BY <2>1, <2>4
  <2>6. \A t \in Tied(heads, n) : /\ t \in Seq(heads) /\ Distinct(t)
                                  /\ \A j \in DOMAIN t : Key(t[j]) = n
                                  /\ \A iv \in heads : Key(iv) = n => iv \in Elements(t)
    BY TiedTyped
  <2>7. \A l \in FollowedBy(orders[n - 1], Tied(heads, n)) : InKeyOrder(heads, n, l)
    BY <1>5, <2>4, <2>5, <2>6, FollowedByTyped
  <2>8. \A l \in orders[n] : InKeyOrder(heads, n, l)
    BY <1>4, <2>3, <2>7
  <2>. QED  BY <2>1, <2>8
<1>7. InKeyOrder(heads, max, s)
  BY <1>0, <1>1, <1>6
<1>8. StartsSorted(s)
  <2> SUFFICES ASSUME NEW m \in DOMAIN s, NEW n \in DOMAIN s, m < n
               PROVE  s[m].start <= s[n].start
    BY DEF StartsSorted
  <2>1. s[m] \in heads /\ s[n] \in heads /\ Key(s[m]) <= Key(s[n])
    BY <1>7 DEF InKeyOrder
  <2> DEFINE p == s[m].start
             q == s[n].start
             c == Rank(s[m])
             d == Rank(s[n])
  <2>2. p \in Nat /\ q \in Nat /\ c \in 0 .. 2 /\ d \in 0 .. 2 /\ 3 * p + c <= 3 * q + d
    BY <1>5, <2>1
  <2>. HIDE DEF p, q, c, d
  <2>3. p <= q
    BY <2>2
  <2>. QED  BY <2>3 DEF p, q
<1>9. Elements(s) = heads
  <2>1. s \in Seq(heads) /\ heads \subseteq Elements(s)
    BY <1>5, <1>7 DEF InKeyOrder
  <2>. QED  BY <2>1 DEF Elements
<1>. QED  BY <1>7, <1>8, <1>9 DEF InKeyOrder

(* The scan starts from one well formed chain for each name.               *)
LEMMA ChainsTyped ==
  ASSUME code \in Seq(Instruction), NEW lis, IsFiniteSet(lis), lis \subseteq LiveInterval(code),
         \A l, m \in lis : l.name = m.name /\ l.start = m.start => l = m
  PROVE  /\ IsFiniteSet(Chains(lis)) /\ Chains(lis) \subseteq Entry(code)
         /\ \A c, d \in Chains(lis) : c.name = d.name => c = d
         /\ PartsApart(lis) => Chains(lis) \subseteq Timely(code)
         /\ \A c \in Chains(lis) : Fresh(c, args)
         /\ \A l \in lis : \E c \in Chains(lis) : Holds(c, l)
<1> DEFINE names == {li.name : li \in lis}
           of(x) == {li \in lis : li.name = x}
           f == [x \in names |-> Chain(of(x), args)]
<1>1. Chains(lis) = {Chain(of(x), args) : x \in names}
  BY DEF Chains
<1>2. IsFiniteSet(names)
  <2>1. names \subseteq Name
    BY DEF LiveInterval
  <2>. HIDE DEF names
  <2>. QED  BY <2>1, RoutineAssumption, FS_Subset
<1>3. IsFiniteSet(Chains(lis))
  <2>1. f \in Surjection(names, Chains(lis))
    BY <1>1 DEF Surjection
  <2>. HIDE DEF f, names
  <2>. QED  BY <1>2, <2>1, FS_Surjection
<1>4. ASSUME NEW x \in names
      PROVE  /\ Chain(of(x), args) \in Entry(code) /\ Chain(of(x), args).name = x
             /\ PartsApart(lis) => Chain(of(x), args) \in Timely(code)
             /\ Fresh(Chain(of(x), args), args) /\ \A l \in of(x) : Holds(Chain(of(x), args), l)
  <2> DEFINE mine == of(x)
  <2>1. /\ mine # {} /\ mine \subseteq lis /\ \A l, m \in mine : l.start = m.start => l = m
        /\ \A l \in mine : l.name = x
    OBVIOUS
  <2>2. IsFiniteSet(mine) /\ mine \subseteq LiveInterval(code)
    BY <2>1, FS_Subset
  <2>3. PartsApart(lis) => PartsApart(mine)
    BY <2>1 DEF PartsApart
  <2>. HIDE DEF mine
  <2>4. /\ Chain(mine, args) \in Entry(code) /\ Chain(mine, args).name = x
        /\ PartsApart(mine) => Ordered(Chain(mine, args))
        /\ Fresh(Chain(mine, args), args) /\ \A l \in mine : Holds(Chain(mine, args), l)
    BY <2>1, <2>2, ChainTyped
  <2>. QED  BY <2>3, <2>4 DEF mine, Timely
<1>5. \A l \in lis : l.name \in names /\ l \in of(l.name)
  OBVIOUS
<1>. HIDE DEF of, names
<1>6. \A c, d \in Chains(lis) : c.name = d.name => c = d
  BY <1>1, <1>4
<1>7. \A l \in lis : \E c \in Chains(lis) : Holds(c, l)
  BY <1>1, <1>4, <1>5
<1>. QED  BY <1>1, <1>3, <1>4, <1>6, <1>7

-----------------------------------------------------------------------------
(* The invariant.  The intervals in the sets are well formed, and the one  *)
(* at work exists; the registers of the active intervals are those that    *)
(* the pool has handed out, and each has one holder.                       *)
SetsTyped ==
  /\ code \in Seq(Instruction)
  /\ unhandled \in Seq(Entry(code))
  /\ active \in Seq(Entry(code))
  /\ inactive \in Seq(Entry(code))
  /\ allocated \in Seq(Entry(code))
  /\ slots \subseteq Name
  /\ dirty_regs \subseteq Reg
  /\ k \in Nat \ {0}

AtWork ==
  /\ u \in 1 .. Len(unhandled) + 1
  /\ then \in {"place", "instr"}
  /\ pc \in {"sort", "take", "expire", "renew", "place", "scan", "instr",
            "operands", "done", "abort"}
  /\ pc = "sort" => u = 1
  /\ pc = "place" \/ (pc \in {"expire", "renew"} /\ then = "place") => u <= Len(unhandled)

ClassRegs == [c \in Class |-> Pool!RegsOf(c)]

PoolKept ==
  /\ free_regs \in [Class -> Seq(Reg)]
  /\ Held \subseteq Reg
  /\ Shared(Class, ClassRegs, free_regs, Held)

IInv == SetsTyped /\ AtWork /\ PoolKept /\ DistinctRegs(active)

-----------------------------------------------------------------------------
(* The pool that the scan uses: RegAlloc with Held for the registers held. *)

(* The array operators that the pool of the scan uses are those of Arrays. *)
LEMMA PoolOperators ==
  /\ \A s : Pool!Elements(s) = Elements(s)
  /\ \A s : Pool!Distinct(s) <=> Distinct(s)
  /\ \A s : Pool!Back(s) = Back(s) /\ Pool!Pop(s) = Pop(s)
  /\ \A s, i : Pool!EraseBySwap(s, i) = EraseBySwap(s, i)
BY DEF Pool!Elements, Elements, Pool!Distinct, Distinct, Pool!Back, Back, Pool!Pop, Pop,
       Pool!EraseBySwap, EraseBySwap

(* The registers of a class are its own.                                   *)
LEMMA ClassesApart ==
  /\ \A c, d \in Class : c # d => ClassRegs[c] \cap ClassRegs[d] = {}
  /\ \A c \in Class : ClassRegs[c] = Pool!RegsOf(c) /\ ClassRegs[c] \subseteq Reg
BY RegisterAssumption DEF ClassRegs, Pool!RegInfo, Reg, Pool!Reg

(* TryRemoveFromFreeRegs.                                                  *)
LEMMA RemoveTakesOne ==
  ASSUME NEW s \in Seq(Reg), Distinct(s), NEW r \in Elements(s)
  PROVE  /\ Pool!RemoveFromFreeRegs(s, r) \in Seq(Reg)
         /\ Distinct(Pool!RemoveFromFreeRegs(s, r))
         /\ Elements(Pool!RemoveFromFreeRegs(s, r)) = Elements(s) \ {r}
<1> DEFINE i == CHOOSE j \in DOMAIN s : s[j] = r
<1>1. i \in DOMAIN s /\ s[i] = r
  BY DEF Elements
<1>2. Pool!RemoveFromFreeRegs(s, r) = EraseBySwap(s, i)
  BY PoolOperators DEF Pool!RemoveFromFreeRegs
<1>. HIDE DEF i
<1>. QED  BY <1>1, <1>2, EraseBySwapRemoves

(* ResetRegAlloc.                                                          *)
LEMMA FreshIsWhole ==
  ASSUME NEW first \in BOOLEAN
  PROVE  /\ Pool!FreshFreeRegs(first) \in [Class -> Seq(Reg)]
         /\ Shared(Class, ClassRegs, Pool!FreshFreeRegs(first), {})
<1> DEFINE fresh == Pool!FreshFreeRegs(first)
<1>1. ASSUME NEW c \in Class
      PROVE  fresh[c] \in Seq(Reg) /\ Distinct(fresh[c]) /\ Elements(fresh[c]) = ClassRegs[c]
  <2>1. /\ CallerSaved[c] \in Seq(Reg) /\ CalleeSaved[c] \in Seq(Reg)
        /\ Distinct(CallerSaved[c]) /\ Distinct(CalleeSaved[c])
        /\ Elements(CallerSaved[c]) \cap Elements(CalleeSaved[c]) = {}
    BY RegisterAssumption, PoolOperators DEF Pool!RegInfo, Reg
  <2>2. ClassRegs[c] = Elements(CallerSaved[c]) \cup Elements(CalleeSaved[c])
    BY PoolOperators DEF ClassRegs, Pool!RegsOf
  <2>3. CASE first
    <3>1. fresh[c] = CallerSaved[c] \o CalleeSaved[c]
      BY <2>3 DEF Pool!FreshFreeRegs
    <3>. QED  BY <2>1, <2>2, <3>1, ConcatJoins
  <2>4. CASE ~ first
    <3>1. fresh[c] = CalleeSaved[c] \o CallerSaved[c]
      BY <2>4 DEF Pool!FreshFreeRegs
    <3>. QED  BY <2>1, <2>2, <3>1, ConcatJoins
  <2>. QED  BY <2>3, <2>4
<1>2. fresh \in [Class -> Seq(Reg)]
  BY <1>1 DEF Pool!FreshFreeRegs
<1>. QED  BY <1>1, <1>2 DEF Shared

(* Any new array of class c that lacks exactly x, when x is then held.     *)
LEMMA TakeKeepsPool ==
  ASSUME PoolKept, NEW c \in Class, NEW x \in Elements(free_regs[c]),
         NEW s \in Seq(Reg), Distinct(s), Elements(s) = Elements(free_regs[c]) \ {x},
         free_regs' = [free_regs EXCEPT ![c] = s], Held' = Held \cup {x}
  PROVE  PoolKept'
<1>1. x \in Reg
  <2>1. free_regs[c] \in Seq(Reg)
    BY DEF PoolKept
  <2>. QED  BY <2>1 DEF Elements
<1>2. free_regs \in [Class -> Seq(Reg)] /\ Shared(Class, ClassRegs, free_regs, Held)
  BY DEF PoolKept
<1>3. Shared(Class, ClassRegs, [free_regs EXCEPT ![c] = s], Held \cup {x})
  BY <1>2, ClassesApart, TakeConserves
<1>4. Shared(Class, ClassRegs, free_regs, Held)'
  BY <1>3 DEF ClassRegs
<1>5. free_regs' \in [Class -> Seq(Reg)]
  BY <1>2
<1>6. Held' \subseteq Reg
  BY <1>1 DEF PoolKept
<1>. QED  BY <1>4, <1>5, <1>6 DEF PoolKept

(* Every call of the pool keeps the registers shared out.                  *)
LEMMA CallKeepsPool ==
  ASSUME PoolKept, [Pool!PoolNext]_(Pool!pool_vars)
  PROVE  PoolKept'
<1>0. \A c \in Class : free_regs[c] \in Seq(Reg) /\ Distinct(free_regs[c])
  BY DEF PoolKept, Shared
<1>1. ASSUME NEW first \in BOOLEAN, Pool!ResetRegAlloc(first)  PROVE PoolKept'
  <2>1. free_regs' = Pool!FreshFreeRegs(first) /\ Held' = {}
    BY <1>1 DEF Pool!ResetRegAlloc
  <2>2. Shared(Class, ClassRegs, free_regs', Held')
    BY <2>1, FreshIsWhole
  <2>3. Shared(Class, ClassRegs, free_regs, Held)'
    BY <2>2 DEF ClassRegs
  <2>. QED  BY <2>1, <2>3, FreshIsWhole DEF PoolKept
<1>2. ASSUME NEW c \in Class, Pool!AllocateFreeRegister(c)  PROVE PoolKept'
  <2> DEFINE s == free_regs[c]
  <2>1. /\ s # <<>>
        /\ free_regs' = [free_regs EXCEPT ![c] = Pop(s)]
        /\ Held' = Held \cup {Back(s)}
    BY <1>2, PoolOperators DEF Pool!AllocateFreeRegister, Pool!HasFreeRegisters
  <2>2. s \in Seq(Reg) /\ Distinct(s)
    BY <1>0
  <2>3. /\ Back(s) \in Elements(s)
        /\ Pop(s) \in Seq(Reg)
        /\ Distinct(Pop(s))
        /\ Elements(Pop(s)) = Elements(s) \ {Back(s)}
    BY <2>1, <2>2, PopRemovesBack
  <2>. QED  BY <2>1, <2>3, TakeKeepsPool
<1>3. ASSUME NEW c \in Class, NEW r, Pool!TryAllocateRegister(c, r)  PROVE PoolKept'
  <2> DEFINE s == free_regs[c]
             t == Pool!RemoveFromFreeRegs(s, r)
  <2>1. /\ r \in Elements(s)
        /\ free_regs' = [free_regs EXCEPT ![c] = t]
        /\ Held' = Held \cup {r}
    BY <1>3, PoolOperators DEF Pool!TryAllocateRegister
  <2>2. s \in Seq(Reg) /\ Distinct(s)
    BY <1>0
  <2>3. t \in Seq(Reg) /\ Distinct(t) /\ Elements(t) = Elements(s) \ {r}
    BY <2>1, <2>2, RemoveTakesOne
  <2>. QED  BY <2>1, <2>3, TakeKeepsPool
<1>4. ASSUME NEW c \in Class, NEW r, Pool!ReleaseRegister(c, r)  PROVE PoolKept'
  <2>1. /\ r \in Held /\ r \in ClassRegs[c] /\ r \in Reg
        /\ free_regs' = [free_regs EXCEPT ![c] = Append(free_regs[c], r)]
        /\ Held' = Held \ {r}
    BY <1>4, ClassesApart DEF Pool!ReleaseRegister
  <2>2. free_regs \in [Class -> Seq(Reg)] /\ Shared(Class, ClassRegs, free_regs, Held)
    BY DEF PoolKept
  <2>3. Shared(Class, ClassRegs, [free_regs EXCEPT ![c] = Append(free_regs[c], r)], Held \ {r})
    BY <2>1, <2>2, ClassesApart, ReturnConserves
  <2>4. Shared(Class, ClassRegs, free_regs, Held)'
    BY <2>1, <2>3 DEF ClassRegs
  <2>5. free_regs' \in [Class -> Seq(Reg)]
    BY <2>1, <2>2
  <2>6. Held' \subseteq Reg
    BY <2>1 DEF PoolKept
  <2>. QED  BY <2>4, <2>5, <2>6 DEF PoolKept
<1>5. CASE UNCHANGED <<free_regs, Held>>
  <2>1. Shared(Class, ClassRegs, free_regs, Held)'
    BY <1>5 DEF PoolKept, ClassRegs
  <2>. QED  BY <1>5, <2>1 DEF PoolKept
<1>6. ASSUME NEW r, Pool!DirtyRegister(r)  PROVE PoolKept'
  BY <1>5, <1>6 DEF Pool!DirtyRegister
<1>. QED  BY <1>1, <1>2, <1>3, <1>4, <1>5, <1>6 DEF Pool!PoolNext, Pool!pool_vars

-----------------------------------------------------------------------------
(* The state that ComputeLiveness leaves satisfies the invariant.          *)
LEMMA InitKeeps == Init => IInv
<1> SUFFICES ASSUME Init  PROVE IInv
  OBVIOUS
<1>1. PICK r \in Routines :
        /\ code = r.code /\ args = r.args
        /\ unhandled = <<>> /\ active = <<>> /\ inactive = <<>> /\ allocated = <<>>
        /\ u = 1 /\ k = 1 /\ then = "place" /\ pc = "sort"
        /\ free_regs = Pool!FreshFreeRegs(~IsLeaf(r.code))
        /\ dirty_regs = {}
        /\ slots = {x \in r.args : ArgReg[x] = NoReg}
  BY DEF Init
<1>2. code \in Seq(Instruction) /\ slots \subseteq Name
  BY <1>1, RoutineAssumption DEF Formed
<1>3. SetsTyped
  BY <1>1, <1>2 DEF SetsTyped
<1>4. AtWork
  BY <1>1 DEF AtWork
<1>5. Held = {}
  BY <1>1 DEF Held
<1>6. PoolKept
  <2>1. (~IsLeaf(r.code)) \in BOOLEAN
    BY DEF IsLeaf
  <2>. QED  BY <1>1, <1>5, <2>1, FreshIsWhole DEF PoolKept
<1>7. DistinctRegs(active)
  BY <1>1 DEF DistinctRegs
<1>. QED  BY <1>3, <1>4, <1>6, <1>7 DEF IInv

-----------------------------------------------------------------------------
(* The operations on the interval sets.                                    *)

(* The registers held are those of the active intervals.                   *)
LEMMA HeldIsActive == Held = RegsIn(active)
BY DEF Held, RegsIn

(* AddToSetSortedByEnd.                                                    *)
LEMMA AddedToActive ==
  ASSUME NEW S, NEW set \in Seq(S), NEW iv \in S, DistinctRegs(set), iv.reg \notin RegsIn(set)
  PROVE  /\ AddToActive(set, iv) \in Seq(S)
         /\ RegsIn(AddToActive(set, iv)) = RegsIn(set) \cup {iv.reg}
         /\ DistinctRegs(AddToActive(set, iv))
<1> DEFINE i == EndPosition(set, iv)
           t == InsertAt(set, i, iv)
<1>1. i \in 1 .. Len(set) + 1
  BY EndPositionInSet
<1>2. AddToActive(set, iv) = t
  BY DEF AddToActive
<1>. HIDE DEF i
<1>3. /\ t \in Seq(S)
      /\ Len(t) = Len(set) + 1
      /\ \A j \in 1 .. Len(set) + 1 :
           t[j] = IF j < i THEN set[j] ELSE IF j = i THEN iv ELSE set[j - 1]
  BY <1>1, InsertAtElements
<1>. HIDE DEF t
<1>4. RegsIn(t) = RegsIn(set) \cup {iv.reg} /\ DistinctRegs(t)
  BY <1>1, <1>3, AddedRegs
<1>. QED  BY <1>2, <1>3, <1>4

(* Taking out the i-th interval, the first or the last one.                *)
LEMMA RemovedFromActive ==
  ASSUME NEW S, NEW set \in Seq(S), NEW i \in 1 .. Len(set), DistinctRegs(set)
  PROVE  /\ RemoveAt(set, i) \in Seq(S)
         /\ RegsIn(RemoveAt(set, i)) = RegsIn(set) \ {set[i].reg}
         /\ DistinctRegs(RemoveAt(set, i))
<1> DEFINE t == RemoveAt(set, i)
<1>1. /\ t \in Seq(S)
      /\ Len(t) = Len(set) - 1
      /\ \A j \in 1 .. Len(set) - 1 : t[j] = IF j < i THEN set[j] ELSE set[j + 1]
  BY RemoveAtElements
<1>. HIDE DEF t
<1>2. RegsIn(t) = RegsIn(set) \ {set[i].reg} /\ DistinctRegs(t)
  BY <1>1, RemovedRegs
<1>. QED  BY <1>1, <1>2 DEF t

(* Removing the first of the active intervals frees its register alone.    *)
LEMMA FirstRemoved ==
  ASSUME NEW S, NEW set \in Seq(S), set # <<>>, DistinctRegs(set)
  PROVE  /\ Tail(set) \in Seq(S)
         /\ RegsIn(Tail(set)) = RegsIn(set) \ {set[1].reg}
         /\ DistinctRegs(Tail(set))
<1> DEFINE t == Tail(set)
<1>1. Len(set) \in Nat /\ 1 \in 1 .. Len(set)
  OBVIOUS
<1>2. t \in Seq(S) /\ Len(t) = Len(set) - 1
  OBVIOUS
<1>3. \A j \in 1 .. Len(set) - 1 : t[j] = set[j + 1]
  OBVIOUS
<1>. HIDE DEF t
<1>4. \A j \in 1 .. Len(set) - 1 : t[j] = IF j < 1 THEN set[j] ELSE set[j + 1]
  BY <1>1, <1>3
<1>5. RegsIn(t) = RegsIn(set) \ {set[1].reg} /\ DistinctRegs(t)
  BY <1>1, <1>2, <1>4, RemovedRegs
<1>. QED  BY <1>2, <1>5 DEF t

(* Removing the last of the active intervals frees its register alone.     *)
LEMMA LastRemoved ==
  ASSUME NEW S, NEW set \in Seq(S), set # <<>>, DistinctRegs(set)
  PROVE  /\ Front(set) \in Seq(S)
         /\ Last(set) \in S /\ Last(set).reg \in RegsIn(set)
         /\ RegsIn(Front(set)) = RegsIn(set) \ {Last(set).reg}
         /\ DistinctRegs(Front(set))
<1> DEFINE t == Front(set)
<1>1. Len(set) \in Nat /\ Len(set) \in 1 .. Len(set) /\ DOMAIN set = 1 .. Len(set)
  OBVIOUS
<1>2. t = SubSeq(set, 1, Len(set) - 1) /\ Last(set) = set[Len(set)]
  BY DEF Front, Last
<1>3. /\ t \in Seq(S) /\ Len(t) = Len(set) - 1
      /\ \A j \in 1 .. Len(set) - 1 : t[j] = set[j]
  BY <1>1, <1>2
<1>. HIDE DEF t
<1>4. \A j \in 1 .. Len(set) - 1 : t[j] = IF j < Len(set) THEN set[j] ELSE set[j + 1]
  BY <1>1, <1>3
<1>5. RegsIn(t) = RegsIn(set) \ {set[Len(set)].reg} /\ DistinctRegs(t)
  BY <1>1, <1>3, <1>4, RemovedRegs
<1>6. Last(set).reg \in RegsIn(set)
  BY <1>1, <1>2 DEF RegsIn
<1>. QED  BY <1>1, <1>2, <1>3, <1>5, <1>6 DEF t

(* The next interval of a chain is an interval with the rest behind it.    *)
LEMMA NextTyped ==
  ASSUME NEW P, NEW iv, iv.next \in Seq(Link(P)), iv.next # <<>>
  PROVE  NextOf(iv) \in Entry(P)
<1>1. Head(iv.next) \in Link(P) /\ Tail(iv.next) \in Seq(Link(P))
  OBVIOUS
<1>. QED  BY <1>1 DEF NextOf, Link, Entry, IntervalOf

(* AddNextIntervalToInactive: what waits behind an interval joins the      *)
(* inactive.                                                               *)
LEMMA NextAdded ==
  ASSUME NEW P, NEW set \in Seq(Entry(P)), NEW iv, iv.next \in Seq(Link(P)),
         iv.reg \in Reg \cup {NoReg}
  PROVE  AddNextToInactive(set, iv) \in Seq(Entry(P))
<1>1. CASE iv.next = <<>>
  BY <1>1 DEF AddNextToInactive
<1>2. CASE iv.next # <<>>
  <2>1. NextOf(iv) \in Entry(P)
    BY <1>2, NextTyped
  <2>2. [NextOf(iv) EXCEPT !.reg = iv.reg] \in Entry(P)
    BY <2>1 DEF Entry, IntervalOf
  <2>. QED  BY <1>2, <2>2, AddedByStart DEF AddNextToInactive
<1>. QED  BY <1>1, <1>2

(* The fields of an interval of the sets.                                  *)
LEMMA EntryFields ==
  ASSUME NEW P, NEW iv \in Entry(P)
  PROVE  /\ iv.name \in Name /\ iv.start \in Positions(P) /\ iv.end \in Positions(P)
         /\ iv.reg \in Reg \cup {NoReg} /\ iv.next \in Seq(Link(P))
         /\ ClassOf[iv.name] \in Class
BY RegisterAssumption DEF Entry, IntervalOf

-----------------------------------------------------------------------------
(* What every step does, by the invariant: it leaves the sets well formed  *)
(* and the registers of the active intervals different, and it is a call   *)
(* of the pool or none.                                                    *)
StepKeeps ==
  /\ SetsTyped'
  /\ AtWork'
  /\ DistinctRegs(active)'
  /\ [Pool!PoolNext]_(Pool!pool_vars)

(* The control, and the sets and slots that other intervals are put in.    *)
LEMMA QuietStep ==
  ASSUME IInv, AtWork', UNCHANGED <<code, free_regs, dirty_regs, active>>,
         unhandled' \in Seq(Entry(code)), inactive' \in Seq(Entry(code)),
         allocated' \in Seq(Entry(code)), slots' \subseteq Name, k' \in Nat \ {0}
  PROVE  StepKeeps
<1>1. SetsTyped'
  BY DEF IInv, SetsTyped
<1>2. DistinctRegs(active)'
  BY DEF IInv, DistinctRegs
<1>3. UNCHANGED Pool!pool_vars
  BY DEF Pool!pool_vars, Held
<1>. QED  BY <1>1, <1>2, <1>3 DEF StepKeeps

(* An assertion that fails changes nothing but the control.                *)
LEMMA AbortKeeps ==
  ASSUME IInv, Abort
  PROVE  StepKeeps
<1>1. AtWork'
  BY DEF Abort, IInv, AtWork, sets, loops
<1>. QED  BY <1>1, QuietStep DEF Abort, IInv, SetsTyped, sets, loops, routine, pool, emitted

(* The sort before the scan makes only intervals of the code, of any order *)
(* of its ties, and touches no register.                                   *)
LEMMA SortKeeps ==
  ASSUME IInv, SortIntervals
  PROVE  StepKeeps
<1> DEFINE lis == LiveIntervals(code, live_in, live_out)
<1>1. code \in Seq(Instruction) /\ N \in Nat
  BY DEF IInv, SetsTyped, N
<1>2. IsFiniteSet(lis) /\ lis \subseteq LiveInterval(code)
      /\ \A l, m \in lis : l.name = m.name /\ l.start = m.start => l = m
  BY <1>1, LiveIntervalsTyped
<1>3. unhandled' \in ByStart(Chains(lis))
  BY DEF SortIntervals
<1>. HIDE DEF lis
<1>4. IsFiniteSet(Chains(lis)) /\ Chains(lis) \subseteq Entry(code)
  BY <1>1, <1>2, ChainsTyped
<1>5. unhandled' \in Seq(Chains(lis))
  <2>1. \A iv \in Chains(lis) : iv.start \in 1 .. N
    BY <1>1, <1>4, EntryFields, PositionsOf DEF N
  <2>. QED  BY <1>1, <1>3, <1>4, <2>1, ByStartTyped
<1>6. unhandled' \in Seq(Entry(code))
  BY <1>4, <1>5
<1>7. AtWork'
  BY <1>6 DEF SortIntervals, IInv, AtWork, loops
<1>. QED  BY <1>6, <1>7, QuietStep
     DEF SortIntervals, IInv, SetsTyped, sets, loops, routine, pool, emitted

(* The rounds that move only the control, and the operands of ScanCall and *)
(* ScanOther.                                                              *)
LEMMA ControlKeeps ==
  ASSUME IInv,
         \/ TakeInterval \/ TakeRest \/ ExpireDone \/ RenewDone \/ PlaceOwnEnding
         \/ Scan \/ ScanDone \/ ScanCall \/ ScanOther \/ OperandsSet
  PROVE  StepKeeps
<1>1. /\ UNCHANGED <<routine, pool, sets, slots>>
      /\ k' \in {k, 1}
  BY DEF TakeInterval, TakeRest, ExpireDone, RenewDone, PlaceOwnEnding, Scan, ScanDone,
         ScanCall, ScanOther, OperandsSet, emitted, loops
<1>2. UNCHANGED <<unhandled, code, free_regs, dirty_regs, active, inactive, allocated, slots>>
  BY <1>1 DEF routine, pool, sets
<1>3. Len(unhandled) \in Nat
  BY DEF IInv, SetsTyped
<1>4. AtWork'
  <2>1. CASE TakeInterval
    BY <1>2, <2>1 DEF TakeInterval, IInv, AtWork
  <2>2. CASE TakeRest
    BY <1>2, <2>2 DEF TakeRest, IInv, AtWork
  <2>3. CASE ExpireDone
    BY <1>2, <2>3 DEF ExpireDone, IInv, AtWork
  <2>4. CASE RenewDone
    BY <1>2, <2>4 DEF RenewDone, IInv, AtWork, loops
  <2>5. CASE PlaceOwnEnding
    BY <1>2, <2>5 DEF PlaceOwnEnding, IInv, AtWork, loops
  <2>6. CASE Scan
    BY <1>2, <2>6 DEF Scan, IInv, AtWork
  <2>7. CASE ScanDone
    BY <1>2, <1>3, <2>7 DEF ScanDone, IInv, AtWork
  <2>8. CASE ScanCall
    BY <1>2, <2>8 DEF ScanCall, IInv, AtWork, loops
  <2>9. CASE ScanOther
    BY <1>2, <2>9 DEF ScanOther, IInv, AtWork, loops
  <2>10. CASE OperandsSet
    BY <1>2, <2>10 DEF OperandsSet, IInv, AtWork
  <2>. QED  BY <2>1, <2>2, <2>3, <2>4, <2>5, <2>6, <2>7, <2>8, <2>9, <2>10
<1>5. k' \in Nat \ {0}
  BY <1>1 DEF IInv, SetsTyped
<1>. QED  BY <1>2, <1>4, <1>5, QuietStep DEF IInv, SetsTyped

(* An interval that expires goes to allocated, its register to the pool.   *)
LEMMA ExpireKeeps ==
  ASSUME IInv, Expire
  PROVE  StepKeeps
<1> DEFINE first == active[1]
           c == ClassOf[first.name]
<1>0. active # <<>>
  BY DEF Expire
<1>1. CASE ~IsOfClass(first)
  BY <1>1, AbortKeeps DEF Expire
<1>2. CASE IsOfClass(first)
  <2>1. /\ active' = Tail(active)
        /\ allocated' = Append(allocated, first)
        /\ inactive' = AddNextToInactive(inactive, first)
        /\ free_regs' = [free_regs EXCEPT ![c] = Append(@, first.reg)]
        /\ UNCHANGED <<code, dirty_regs, unhandled, loops, slots, pc>>
    BY <1>2 DEF Expire, Released, routine, emitted
  <2>2. /\ active \in Seq(Entry(code)) /\ DistinctRegs(active)
        /\ inactive \in Seq(Entry(code)) /\ allocated \in Seq(Entry(code))
    BY DEF IInv, SetsTyped
  <2>3. first \in Entry(code) /\ 1 \in DOMAIN active
    BY <1>0, <2>2
  <2>4. /\ Tail(active) \in Seq(Entry(code))
        /\ RegsIn(Tail(active)) = RegsIn(active) \ {first.reg}
        /\ DistinctRegs(Tail(active))
    BY <1>0, <2>2, FirstRemoved
  <2>5. c \in Class /\ first.reg \in Pool!RegsOf(c)
    BY <1>2, <2>3, EntryFields DEF IsOfClass
  <2>6. first.reg \in Held
    BY <2>3 DEF Held
  <2>. HIDE DEF first, c
  <2>7. inactive' \in Seq(Entry(code))
    BY <2>1, <2>2, <2>3, EntryFields, NextAdded
  <2>8. allocated' \in Seq(Entry(code))
    BY <2>1, <2>2, <2>3
  <2>9. SetsTyped'
    BY <2>1, <2>4, <2>7, <2>8 DEF IInv, SetsTyped, loops
  <2>10. AtWork'
    BY <2>1 DEF IInv, AtWork, loops
  <2>11. Held' = Held \ {first.reg}
    BY <2>1, <2>4, HeldIsActive DEF Held, RegsIn
  <2>12. Pool!ReleaseRegister(c, first.reg)
    BY <2>1, <2>5, <2>6, <2>11 DEF Pool!ReleaseRegister
  <2>13. Pool!PoolNext
    BY <2>5, <2>12 DEF Pool!PoolNext
  <2>. QED  BY <2>1, <2>4, <2>9, <2>10, <2>13 DEF StepKeeps, DistinctRegs
<1>. QED  BY <1>1, <1>2

(* An inactive interval that is not yet live is looked at and left.        *)
LEMMA RenewLaterKeeps ==
  ASSUME IInv, RenewLater
  PROVE  StepKeeps
<1>1. CASE inactive[k].end < idx
  BY <1>1, AbortKeeps DEF RenewLater
<1>2. CASE ~(inactive[k].end < idx)
  <2>1. k' = k + 1 /\ UNCHANGED <<routine, pool, sets, slots, u, then, pc>>
    BY <1>2 DEF RenewLater, emitted
  <2>2. AtWork'
    BY <2>1 DEF IInv, AtWork, sets
  <2>3. k' \in Nat \ {0}
    BY <2>1 DEF IInv, SetsTyped
  <2>. QED  BY <2>1, <2>2, <2>3, QuietStep DEF IInv, SetsTyped, sets, routine, pool
<1>. QED  BY <1>1, <1>2

(* An inactive interval that is renewed in its slot holds no register.     *)
LEMMA RenewToSlotKeeps ==
  ASSUME IInv, RenewToSlot
  PROVE  StepKeeps
<1>1. /\ inactive \in Seq(Entry(code)) /\ k \in Nat \ {0} /\ k <= Len(inactive)
  BY DEF RenewToSlot, IInv, SetsTyped
<1>2. k \in 1 .. Len(inactive) /\ inactive[k] \in Entry(code)
  BY <1>1
<1>3. RemoveAt(inactive, k) \in Seq(Entry(code))
  BY <1>1, <1>2, RemoveAtElements
<1>4. inactive[k].name \in Name
  BY <1>2, EntryFields
<1>5. /\ inactive' = RemoveAt(inactive, k)
      /\ slots' = slots \cup {inactive[k].name}
      /\ UNCHANGED <<code, free_regs, dirty_regs, unhandled, active, allocated, loops, pc>>
  BY DEF RenewToSlot, routine, pool
<1>6. AtWork'
  BY <1>5 DEF IInv, AtWork, loops
<1>7. slots' \subseteq Name
  BY <1>4, <1>5 DEF IInv, SetsTyped
<1>. QED  BY <1>3, <1>5, <1>6, <1>7, QuietStep DEF IInv, SetsTyped, loops

(* A step that takes the free register r of class c for an interval that   *)
(* it adds to the active ones.                                             *)
LEMMA TakingKeeps ==
  ASSUME IInv, NEW c \in Class, NEW new \in Entry(code),
         new.reg \in Elements(free_regs[c]),
         \/ Pool!HasFreeRegisters(c) /\ new.reg = Back(free_regs[c])
            /\ free_regs' = [free_regs EXCEPT ![c] = Pop(@)]
         \/ free_regs' = [free_regs EXCEPT ![c] = Pool!RemoveFromFreeRegs(@, new.reg)],
         active' = AddToActive(active, new),
         AtWork', UNCHANGED <<code, dirty_regs, unhandled, allocated, slots, k>>,
         inactive' \in Seq(Entry(code))
  PROVE  StepKeeps
<1>1. active \in Seq(Entry(code)) /\ DistinctRegs(active)
  BY DEF IInv, SetsTyped
<1>2. /\ Elements(free_regs[c]) \cap Held = {}
      /\ Elements(free_regs[c]) \subseteq Pool!RegsOf(c)
  <2>1. Elements(free_regs[c]) \subseteq ClassRegs[c] /\ Elements(free_regs[c]) \cap Held = {}
    BY DEF IInv, PoolKept, Shared
  <2>. QED  BY <2>1, ClassesApart
<1>3. new.reg \notin RegsIn(active)
  BY <1>2, HeldIsActive
<1>4. /\ active' \in Seq(Entry(code))
      /\ RegsIn(active') = RegsIn(active) \cup {new.reg}
      /\ DistinctRegs(active')
  BY <1>1, <1>3, AddedToActive
<1>5. SetsTyped'
  BY <1>4 DEF IInv, SetsTyped
<1>6. Held' = Held \cup {new.reg}
  BY <1>4, HeldIsActive DEF Held, RegsIn
<1>7. CASE /\ Pool!HasFreeRegisters(c) /\ new.reg = Back(free_regs[c])
           /\ free_regs' = [free_regs EXCEPT ![c] = Pop(@)]
  <2>1. Pool!AllocateFreeRegister(c)
    BY <1>6, <1>7, PoolOperators DEF Pool!AllocateFreeRegister
  <2>2. Pool!PoolNext
    BY <2>1 DEF Pool!PoolNext
  <2>. QED  BY <1>4, <1>5, <2>2 DEF StepKeeps, DistinctRegs
<1>8. CASE free_regs' = [free_regs EXCEPT ![c] = Pool!RemoveFromFreeRegs(@, new.reg)]
  <2>1. new.reg \in Pool!RegsOf(c)
    BY <1>2
  <2>2. Pool!TryAllocateRegister(c, new.reg)
    BY <1>6, <1>8, <2>1, PoolOperators DEF Pool!TryAllocateRegister
  <2>3. Pool!PoolNext
    BY <2>1, <2>2 DEF Pool!PoolNext
  <2>. QED  BY <1>4, <1>5, <2>3 DEF StepKeeps, DistinctRegs
<1>. QED  BY <1>7, <1>8

(* The register at the back is free.                                       *)
LEMMA BackIsFree ==
  ASSUME IInv, NEW c \in Class, Pool!HasFreeRegisters(c)
  PROVE  Back(free_regs[c]) \in Elements(free_regs[c]) /\ Back(free_regs[c]) \in Reg
<1>1. /\ free_regs[c] \in Seq(Reg) /\ Distinct(free_regs[c])
      /\ free_regs[c] # <<>>
  BY DEF IInv, PoolKept, Shared, Pool!HasFreeRegisters
<1>2. Back(free_regs[c]) \in Elements(free_regs[c])
  BY <1>1, PopRemovesBack
<1>. QED  BY <1>1, <1>2 DEF Elements

(* An inactive interval that is renewed in a register takes its own when   *)
(* that is free, and otherwise a free one: in both cases one nobody holds. *)
LEMMA RenewToRegisterKeeps ==
  ASSUME IInv, RenewToRegister
  PROVE  StepKeeps
<1> DEFINE old  == inactive[k]
           c    == ClassOf[old.name]
           free == free_regs[c]
           same == old.reg \in Elements(free)
           new  == IF same THEN old ELSE [old EXCEPT !.reg = Back(free)]
<1>1. CASE ~IsOfClass(old) \/ ~MayAddToActive(active, new)
  BY <1>1, AbortKeeps DEF RenewToRegister
<1>2. CASE ~(~IsOfClass(old) \/ ~MayAddToActive(active, new))
  <2>1. /\ Pool!HasFreeRegisters(c)
        /\ inactive' = RemoveAt(inactive, k)
        /\ active' = AddToActive(active, new)
        /\ free_regs' = [free_regs EXCEPT ![c] = IF same THEN Pool!RemoveFromFreeRegs(@, old.reg)
                                                 ELSE Pop(@)]
        /\ UNCHANGED <<code, dirty_regs, unhandled, allocated, loops, slots, pc>>
    BY <1>2 DEF RenewToRegister, routine, emitted
  <2>2. inactive \in Seq(Entry(code)) /\ k \in 1 .. Len(inactive)
    BY DEF RenewToRegister, IInv, SetsTyped
  <2>3. old \in Entry(code) /\ c \in Class
    BY <2>2, EntryFields
  <2>4. Back(free) \in Elements(free) /\ Back(free) \in Reg
    BY <2>1, <2>3, BackIsFree
  <2>5. inactive' \in Seq(Entry(code))
    BY <2>1, <2>2, RemoveAtElements
  <2>. HIDE DEF old, c
  <2>6. new \in Entry(code) /\ new.reg \in Elements(free)
    BY <2>3, <2>4 DEF Entry, IntervalOf
  <2>7. \/ Pool!HasFreeRegisters(c) /\ new.reg = Back(free)
           /\ free_regs' = [free_regs EXCEPT ![c] = Pop(@)]
        \/ free_regs' = [free_regs EXCEPT ![c] = Pool!RemoveFromFreeRegs(@, new.reg)]
    <3>1. CASE same
      BY <2>1, <3>1
    <3>2. CASE ~same
      <4>1. new.reg = Back(free)
        BY <2>3, <3>2 DEF Entry, IntervalOf
      <4>. QED  BY <2>1, <3>2, <4>1
    <3>. QED  BY <3>1, <3>2
  <2>8. AtWork'
    BY <2>1 DEF IInv, AtWork, loops
  <2>. HIDE DEF new, same
  <2>. QED  BY <2>1, <2>3, <2>5, <2>6, <2>7, <2>8, TakingKeeps DEF loops
<1>. QED  BY <1>1, <1>2

-----------------------------------------------------------------------------
(* The place of the current interval.                                      *)

(* The interval to place is one of the unhandled.                          *)
LEMMA CurrentTyped ==
  ASSUME IInv, Placing
  PROVE  Current \in Entry(code) /\ u <= Len(unhandled) /\ ClassOf[Current.name] \in Class
<1>1. /\ unhandled \in Seq(Entry(code)) /\ u \in 1 .. Len(unhandled) + 1
      /\ u <= Len(unhandled)
  BY DEF IInv, SetsTyped, AtWork, Placing
<1>2. Current \in Entry(code)
  BY <1>1 DEF Current
<1>. QED  BY <1>1, <1>2, EntryFields

(* The sets of unhandled intervals only grow.                              *)
LEMMA PlacedAtWork ==
  ASSUME IInv, Placing, pc' = "scan", u' = u, then' = then,
         \/ unhandled' = unhandled
         \/ unhandled' \in Seq(Entry(code)) /\ Len(unhandled') = Len(unhandled) + 1
  PROVE  AtWork'
<1>1. Len(unhandled) \in Nat
  BY DEF IInv, SetsTyped
<1>. QED  BY <1>1 DEF IInv, AtWork

(* An interval of a fixed register that is free takes it from the pool.    *)
LEMMA PlaceOwnFreeKeeps ==
  ASSUME IInv, PlaceOwnFree
  PROVE  StepKeeps
<1> DEFINE c == ClassOf[Current.name]
<1>0. Placing
  BY DEF PlaceOwnFree
<1>1. Current \in Entry(code) /\ c \in Class
  BY <1>0, CurrentTyped
<1>2. CASE ~IsOfClass(Current) \/ Current.reg \notin Elements(free_regs[c])
  BY <1>2, AbortKeeps DEF PlaceOwnFree
<1>3. CASE ~(~IsOfClass(Current) \/ Current.reg \notin Elements(free_regs[c]))
  <2>1. /\ free_regs' = [free_regs EXCEPT ![c] = Pool!RemoveFromFreeRegs(@, Current.reg)]
        /\ active' = AddToActive(active, Current)
        /\ pc' = "scan"
        /\ UNCHANGED <<code, dirty_regs, unhandled, inactive, allocated, loops, slots>>
    BY <1>3 DEF PlaceOwnFree, routine, emitted
  <2>. HIDE DEF c
  <2>2. AtWork'
    BY <1>0, <2>1, PlacedAtWork DEF loops
  <2>3. inactive' \in Seq(Entry(code))
    BY <2>1 DEF IInv, SetsTyped
  <2>. QED  BY <1>1, <1>3, <2>1, <2>2, <2>3, TakingKeeps DEF loops
<1>. QED  BY <1>2, <1>3

(* An interval without a register takes a free one from the pool.          *)
LEMMA PlaceInFreeKeeps ==
  ASSUME IInv, PlaceInFree
  PROVE  StepKeeps
<1> DEFINE c   == ClassOf[Current.name]
           new == [Current EXCEPT !.reg = Back(free_regs[c])]
<1>0. Placing /\ Pool!HasFreeRegisters(c)
  BY DEF PlaceInFree
<1>1. Current \in Entry(code) /\ c \in Class
  BY <1>0, CurrentTyped
<1>2. CASE ~MayAddToActive(active, new)
  BY <1>2, AbortKeeps DEF PlaceInFree
<1>3. CASE MayAddToActive(active, new)
  <2>1. /\ free_regs' = [free_regs EXCEPT ![c] = Pop(@)]
        /\ active' = AddToActive(active, new)
        /\ pc' = "scan"
        /\ UNCHANGED <<code, dirty_regs, unhandled, inactive, allocated, loops, slots>>
    BY <1>3 DEF PlaceInFree, routine
  <2>. HIDE DEF c
  <2>2. AtWork'
    BY <1>0, <2>1, PlacedAtWork DEF loops
  <2>3. inactive' \in Seq(Entry(code))
    BY <2>1 DEF IInv, SetsTyped
  <2>4. Back(free_regs[c]) \in Elements(free_regs[c]) /\ Back(free_regs[c]) \in Reg
    BY <1>0, <1>1, BackIsFree
  <2>5. new \in Entry(code) /\ new.reg = Back(free_regs[c])
    BY <1>1, <2>4 DEF Entry, IntervalOf
  <2>. HIDE DEF new
  <2>. QED  BY <1>0, <1>1, <2>1, <2>2, <2>3, <2>4, <2>5, TakingKeeps DEF loops
<1>. QED  BY <1>2, <1>3

(* A step that gives the register of an active interval to another one.    *)
LEMMA PassingKeeps ==
  ASSUME IInv, Placing, NEW others \in Seq(Entry(code)), NEW new \in Entry(code),
         DistinctRegs(others), new.reg \in Held, RegsIn(others) = Held \ {new.reg},
         active' = AddToActive(others, new), pc' = "scan",
         \/ unhandled' = unhandled
         \/ unhandled' \in Seq(Entry(code)) /\ Len(unhandled') = Len(unhandled) + 1,
         inactive' \in Seq(Entry(code)), allocated' \in Seq(Entry(code)),
         slots' \subseteq Name,
         UNCHANGED <<code, free_regs, dirty_regs, u, then, k>>
  PROVE  StepKeeps
<1>1. /\ active' \in Seq(Entry(code))
      /\ RegsIn(active') = RegsIn(others) \cup {new.reg}
      /\ DistinctRegs(active')
  BY AddedToActive
<1>2. unhandled' \in Seq(Entry(code))
  BY DEF IInv, SetsTyped
<1>3. SetsTyped'
  BY <1>1, <1>2 DEF IInv, SetsTyped
<1>4. AtWork'
  BY PlacedAtWork
<1>5. Held' = Held
  BY <1>1 DEF Held, RegsIn
<1>. QED  BY <1>1, <1>3, <1>4, <1>5 DEF StepKeeps, DistinctRegs, Pool!pool_vars

(* SpillFixedRegAtInterval: the holder's life is cut in two, and the rest  *)
(* of it waits among the unhandled.                                        *)
LEMMA PlaceOwnSplitKeeps ==
  ASSUME IInv, PlaceOwnSplit
  PROVE  StepKeeps
<1> DEFINE spill  == active[Holder]
           front  == [spill EXCEPT !.end = Current.start, !.next = <<>>]
           rest   == [spill EXCEPT !.start = Current.end + 1]
           others == RemoveAt(active, Holder)
<1>0. Placing /\ Current.reg \in Held
  BY DEF PlaceOwnSplit
<1>1. Current \in Entry(code)
  BY <1>0, CurrentTyped
<1>2. /\ active \in Seq(Entry(code)) /\ DistinctRegs(active)
      /\ unhandled \in Seq(Entry(code)) /\ inactive \in Seq(Entry(code))
      /\ allocated \in Seq(Entry(code)) /\ slots \subseteq Name
      /\ code \in Seq(Instruction)
  BY DEF IInv, SetsTyped
<1>3. Holder \in 1 .. Len(active) /\ spill.reg = Current.reg
  BY <1>0, <1>2, HolderHasRegister
<1>4. spill \in Entry(code)
  BY <1>2, <1>3
<1>5. CASE ~MayAddToActive(others, Current)
  BY <1>5, AbortKeeps DEF PlaceOwnSplit
<1>6. CASE MayAddToActive(others, Current)
  <2>1. /\ slots' = slots \cup {spill.name}
        /\ active' = AddToActive(others, Current)
        /\ allocated' = Append(allocated, front)
        /\ IF rest.end > rest.start
           THEN unhandled' = AddByStart(unhandled, rest) /\ inactive' = inactive
           ELSE unhandled' = unhandled /\ inactive' = AddNextToInactive(inactive, rest)
        /\ pc' = "scan"
        /\ UNCHANGED <<code, free_regs, dirty_regs, loops>>
    BY <1>6 DEF PlaceOwnSplit, routine, pool
  <2>2. /\ others \in Seq(Entry(code))
        /\ RegsIn(others) = RegsIn(active) \ {spill.reg}
        /\ DistinctRegs(others)
    BY <1>2, <1>3, RemovedFromActive
  <2>. HIDE DEF spill, others
  <2>3. front \in Entry(code)
    <3>1. Current.start \in Positions(code)
      BY <1>1, EntryFields
    <3>2. <<>> \in Seq(Link(code))
      OBVIOUS
    <3>. QED  BY <1>4, <3>1, <3>2 DEF Entry, IntervalOf
  <2>4. /\ rest.next \in Seq(Link(code)) /\ rest.reg \in Reg \cup {NoReg}
        /\ rest.end = spill.end /\ rest.start = Current.end + 1
    BY <1>4 DEF Entry, IntervalOf
  <2>5. ASSUME rest.end > rest.start  PROVE rest \in Entry(code)
    <3>1. Current.end \in Positions(code) /\ spill.end \in Positions(code)
      BY <1>1, <1>4, EntryFields
    <3>2. Len(code) \in Nat /\ Positions(code) = 1 .. Len(code)
      BY <1>2 DEF Positions
    <3>3. Current.end + 1 \in Positions(code)
      BY <2>4, <2>5, <3>1, <3>2
    <3>. QED  BY <1>4, <3>3 DEF Entry, IntervalOf
  <2>. HIDE DEF front, rest
  <2>6. /\ unhandled' = unhandled \/ (unhandled' \in Seq(Entry(code))
                                      /\ Len(unhandled') = Len(unhandled) + 1)
        /\ inactive' \in Seq(Entry(code))
    <3>1. CASE rest.end > rest.start
      BY <1>2, <2>1, <2>5, <3>1, AddedByStart
    <3>2. CASE ~(rest.end > rest.start)
      BY <1>2, <2>1, <2>4, <3>2, NextAdded
    <3>. QED  BY <3>1, <3>2
  <2>7. allocated' \in Seq(Entry(code)) /\ slots' \subseteq Name
    BY <1>2, <1>4, <2>1, <2>3, EntryFields
  <2>8. RegsIn(others) = Held \ {Current.reg}
    BY <1>3, <2>2, HeldIsActive DEF spill
  <2>. QED  BY <1>0, <1>1, <2>1, <2>2, <2>6, <2>7, <2>8, PassingKeeps DEF loops
<1>. QED  BY <1>5, <1>6

(* SpillAtInterval: the interval that ends last gives its register away.   *)
LEMMA PlaceBySpillingKeeps ==
  ASSUME IInv, PlaceBySpilling
  PROVE  StepKeeps
<1> DEFINE spill == Last(active)
           new   == [Current EXCEPT !.reg = spill.reg]
           cut   == [spill EXCEPT !.end = Current.start]
<1>0. Placing /\ active # <<>>
  BY DEF PlaceBySpilling
<1>1. Current \in Entry(code)
  BY <1>0, CurrentTyped
<1>2. /\ active \in Seq(Entry(code)) /\ DistinctRegs(active)
      /\ inactive \in Seq(Entry(code)) /\ allocated \in Seq(Entry(code)) /\ slots \subseteq Name
  BY DEF IInv, SetsTyped
<1>3. /\ Front(active) \in Seq(Entry(code))
      /\ spill \in Entry(code) /\ spill.reg \in RegsIn(active)
      /\ RegsIn(Front(active)) = RegsIn(active) \ {spill.reg}
      /\ DistinctRegs(Front(active))
  BY <1>0, <1>2, LastRemoved
<1>4. CASE ~MayAddToActive(Front(active), new)
  BY <1>4, AbortKeeps DEF PlaceBySpilling
<1>5. CASE MayAddToActive(Front(active), new)
  <2>1. /\ slots' = slots \cup {spill.name}
        /\ active' = AddToActive(Front(active), new)
        /\ allocated' = Append(allocated, cut)
        /\ inactive' = AddNextToInactive(inactive, spill)
        /\ pc' = "scan"
        /\ UNCHANGED <<code, free_regs, dirty_regs, unhandled, loops>>
    BY <1>5 DEF PlaceBySpilling, routine, pool
  <2>. HIDE DEF spill
  <2>2. spill.reg \in Reg \cup {NoReg} /\ Current.start \in Positions(code)
    BY <1>1, <1>3, EntryFields
  <2>3. new \in Entry(code) /\ new.reg = spill.reg
    BY <1>1, <2>2 DEF Entry, IntervalOf
  <2>4. cut \in Entry(code)
    BY <1>3, <2>2 DEF Entry, IntervalOf
  <2>5. inactive' \in Seq(Entry(code)) /\ slots' \subseteq Name
    BY <1>2, <1>3, <2>1, EntryFields, NextAdded
  <2>. HIDE DEF new, cut
  <2>6. allocated' \in Seq(Entry(code))
    BY <1>2, <2>1, <2>4
  <2>7. new.reg \in Held /\ RegsIn(Front(active)) = Held \ {new.reg}
    BY <1>3, <2>3, HeldIsActive
  <2>. QED  BY <1>0, <1>3, <2>1, <2>3, <2>5, <2>6, <2>7, PassingKeeps DEF loops
<1>. QED  BY <1>4, <1>5

(* An interval that ends last is spilled itself and holds no register.     *)
LEMMA PlaceInSlotKeeps ==
  ASSUME IInv, PlaceInSlot
  PROVE  StepKeeps
<1>0. Placing
  BY DEF PlaceInSlot
<1>1. Current \in Entry(code) /\ unhandled \in Seq(Entry(code))
  BY <1>0, CurrentTyped DEF IInv, SetsTyped
<1>2. CASE active = <<>>
  BY <1>2, AbortKeeps DEF PlaceInSlot
<1>3. CASE active # <<>>
  <2>1. /\ slots' = slots \cup {Current.name}
        /\ unhandled' = IF Current.next = <<>> THEN unhandled
                        ELSE AddByStart(unhandled, NextOf(Current))
        /\ pc' = "scan"
        /\ UNCHANGED <<code, free_regs, dirty_regs, active, inactive, allocated, loops>>
    BY <1>3 DEF PlaceInSlot, routine, pool
  <2>2. \/ unhandled' = unhandled
        \/ unhandled' \in Seq(Entry(code)) /\ Len(unhandled') = Len(unhandled) + 1
    <3>1. CASE Current.next = <<>>
      BY <2>1, <3>1
    <3>2. CASE Current.next # <<>>
      <4>1. NextOf(Current) \in Entry(code)
        BY <1>1, <3>2, EntryFields, NextTyped
      <4>. QED  BY <1>1, <2>1, <3>2, <4>1, AddedByStart
    <3>. QED  BY <3>1, <3>2
  <2>3. AtWork'
    BY <1>0, <2>1, <2>2, PlacedAtWork DEF loops
  <2>4. slots' \subseteq Name
    BY <1>1, <2>1, EntryFields DEF IInv, SetsTyped
  <2>5. unhandled' \in Seq(Entry(code))
    BY <1>1, <2>2
  <2>. QED  BY <2>1, <2>3, <2>4, <2>5, QuietStep DEF IInv, SetsTyped, loops
<1>. QED  BY <1>2, <1>3

-----------------------------------------------------------------------------
(* The scan of the instructions.                                           *)

(* The spilled interval's register goes back to the pool.                  *)
LEMMA ScanSpillKeeps ==
  ASSUME IInv, ScanSpill
  PROVE  StepKeeps
<1> DEFINE h     == SpillHolder
           spill == active[h]
           c     == ClassOf[spill.name]
<1>1. /\ active \in Seq(Entry(code)) /\ DistinctRegs(active)
      /\ slots \subseteq Name
  BY DEF IInv, SetsTyped
<1>2. h \in 1 .. Len(active) /\ spill.name = Spillee
  BY <1>1, SpillHolderHasName DEF ScanSpill
<1>3. CASE ~IsOfClass(spill)
  BY <1>3, AbortKeeps DEF ScanSpill
<1>4. CASE IsOfClass(spill)
  <2>1. /\ active' = RemoveAt(active, h)
        /\ slots' = slots \cup {Spillee}
        /\ free_regs' = [free_regs EXCEPT ![c] = Append(@, spill.reg)]
        /\ pc' = "scan"
        /\ UNCHANGED <<code, dirty_regs, unhandled, inactive, allocated, u, then, k>>
    BY <1>4 DEF ScanSpill, SpillDone, Released, routine
  <2>2. spill \in Entry(code) /\ spill.reg \in Held
    BY <1>1, <1>2 DEF Held
  <2>. HIDE DEF h
  <2>3. /\ RemoveAt(active, h) \in Seq(Entry(code))
        /\ RegsIn(RemoveAt(active, h)) = RegsIn(active) \ {spill.reg}
        /\ DistinctRegs(RemoveAt(active, h))
    BY <1>1, <1>2, RemovedFromActive
  <2>4. c \in Class /\ spill.reg \in Pool!RegsOf(c) /\ Spillee \in Name
    BY <1>2, <1>4, <2>2, EntryFields DEF IsOfClass
  <2>. HIDE DEF spill, c
  <2>5. SetsTyped'
    BY <2>1, <2>3, <2>4 DEF IInv, SetsTyped
  <2>6. AtWork'
    BY <2>1 DEF IInv, AtWork
  <2>7. Held' = Held \ {spill.reg}
    BY <2>1, <2>3, HeldIsActive DEF Held, RegsIn
  <2>8. Pool!ReleaseRegister(c, spill.reg)
    BY <2>1, <2>2, <2>4, <2>7 DEF Pool!ReleaseRegister
  <2>9. Pool!PoolNext
    BY <2>4, <2>8 DEF Pool!PoolNext
  <2>. QED  BY <2>1, <2>3, <2>5, <2>6, <2>9 DEF StepKeeps, DistinctRegs
<1>. QED  BY <1>3, <1>4

(* A spill of a name that has no register changes no interval.             *)
LEMMA ScanSpillNopKeeps ==
  ASSUME IInv, ScanSpillNop
  PROVE  StepKeeps
<1>1. /\ pc' = "scan"
      /\ UNCHANGED <<code, free_regs, dirty_regs, active, unhandled, inactive, allocated, slots,
                     u, then, k>>
  BY DEF ScanSpillNop, SpillDone, routine
<1>2. AtWork'
  BY <1>1 DEF IInv, AtWork
<1>. QED  BY <1>1, <1>2, QuietStep DEF IInv, SetsTyped

(* An operand that gets a register makes it dirty.                         *)
LEMMA SetOperandKeeps ==
  ASSUME IInv, NEW x \in Name, SetOperand(x)
  PROVE  StepKeeps
<1> DEFINE r == ActiveRegister(x)
<1>1. active \in Seq(Entry(code)) /\ Held \subseteq Reg
  BY DEF IInv, SetsTyped, PoolKept
<1>2. CASE r # NoReg
  <2>1. /\ dirty_regs' = dirty_regs \cup {r}
        /\ UNCHANGED <<code, free_regs, sets, loops, slots, pc>>
    BY <1>2 DEF SetOperand, routine
  <2>2. r \in Reg
    BY <1>1, <1>2, ActiveRegisterHeld
  <2>. HIDE DEF r
  <2>3. SetsTyped'
    BY <2>1, <2>2 DEF IInv, SetsTyped, sets, loops
  <2>4. AtWork'
    BY <2>1 DEF IInv, AtWork, sets, loops
  <2>5. DistinctRegs(active)' /\ Held' = Held
    BY <2>1 DEF IInv, DistinctRegs, Held, sets
  <2>6. Pool!DirtyRegister(r)
    BY <2>1, <2>5 DEF Pool!DirtyRegister
  <2>7. Pool!PoolNext
    BY <2>2, <2>6 DEF Pool!PoolNext, Reg
  <2>. QED  BY <2>3, <2>4, <2>5, <2>7 DEF StepKeeps
<1>3. CASE r = NoReg /\ x \in slots
  <2>1. UNCHANGED <<code, free_regs, dirty_regs, sets, loops, slots, pc>>
    BY <1>3 DEF SetOperand, routine, pool
  <2>2. AtWork'
    BY <2>1 DEF IInv, AtWork, sets, loops
  <2>. QED  BY <2>1, <2>2, QuietStep DEF IInv, SetsTyped, sets, loops
<1>4. CASE r = NoReg /\ x \notin slots
  BY <1>4, AbortKeeps DEF SetOperand
<1>. QED  BY <1>2, <1>3, <1>4

(* Every step of the allocator.                                            *)
LEMMA NextKeeps ==
  ASSUME IInv, [Next]_vars
  PROVE  StepKeeps
<1>1. CASE UNCHANGED vars
  <2>1. UNCHANGED <<code, unhandled, active, inactive, allocated, free_regs, dirty_regs,
                    u, k, then, slots, pc>>
    BY <1>1 DEF vars, routine, pool, sets, loops, emitted
  <2>2. AtWork'
    BY <2>1 DEF IInv, AtWork
  <2>. QED  BY <2>1, <2>2, QuietStep DEF IInv, SetsTyped
<1>2. ASSUME NEW x \in Name, SetOperand(x)  PROVE StepKeeps
  BY <1>2, SetOperandKeeps
<1>. QED
  BY <1>1, <1>2, SortKeeps, ControlKeeps, ExpireKeeps, RenewLaterKeeps, RenewToSlotKeeps,
     RenewToRegisterKeeps, PlaceOwnFreeKeeps, PlaceOwnSplitKeeps, PlaceBySpillingKeeps,
     PlaceInSlotKeeps, PlaceInFreeKeeps, ScanSpillKeeps, ScanSpillNopKeeps DEF Next

(* A step that is a call of the pool, or none, keeps the invariant.        *)
LEMMA StepIsInvariant ==
  ASSUME IInv, StepKeeps
  PROVE  IInv'
<1>1. PoolKept'
  BY CallKeepsPool DEF IInv, StepKeeps
<1>. QED  BY <1>1 DEF IInv, StepKeeps

-----------------------------------------------------------------------------
(* The results.                                                            *)

(* IInv is an inductive invariant of the scan.                             *)
THEOREM Invariance == Spec => []IInv
<1>1. Init => IInv
  BY InitKeeps
<1>2. IInv /\ [Next]_vars => IInv'
  BY NextKeeps, StepIsInvariant
<1>. QED  BY <1>1, <1>2, PTL DEF Spec

(* The sets hold well formed intervals, and the loop over the unhandled    *)
(* ones reads one of them, although others are added while it runs.        *)
LEMMA InvariantTyped == IInv => TypeOK
<1> SUFFICES ASSUME IInv  PROVE TypeOK
  OBVIOUS
<1>1. u \in 1 .. Len(unhandled) + 1 /\ dirty_regs \subseteq Reg /\ slots \subseteq Name
  BY DEF IInv, SetsTyped, AtWork
<1>2. ASSUME NEW set \in {unhandled, active, inactive, allocated}, NEW j \in DOMAIN set
      PROVE  IntervalType(set[j])
  <2>1. set \in Seq(Entry(code))
    BY DEF IInv, SetsTyped
  <2>2. set[j] \in Entry(code)
    BY <2>1
  <2>. QED  BY <2>2, EntryFields DEF IntervalType
<1>3. \A c \in Class : free_regs[c] \in Seq(Reg)
  BY DEF IInv, PoolKept
<1>4. pc \in {"sort", "take", "expire", "renew", "place", "scan", "instr",
              "operands", "done", "abort"}
  BY DEF IInv, AtWork
<1>. QED  BY <1>1, <1>2, <1>3, <1>4 DEF TypeOK

(* Every set of intervals, the pool and the positions of the scan keep     *)
(* their types, for every routine and every register file.                 *)
THEOREM TypeCorrect == Spec => []TypeOK
BY Invariance, InvariantTyped, PTL

(* What one of two active intervals writes cannot overwrite the value of   *)
(* the other: whatever expires, is renewed, split or spilled, in whatever  *)
(* order, no two of them have a register in common.                        *)
THEOREM RegistersDiffer == Spec => []ActiveDistinct
<1>1. IInv => ActiveDistinct
  BY DEF IInv, DistinctRegs, ActiveDistinct
<1>. QED  BY <1>1, Invariance, PTL

(* The scan implements the pool's specification: with the registers of the *)
(* active intervals as those held, every step is a call that the pool      *)
(* allows, or none.  It is the client that RegAlloc assumes.               *)
THEOREM ScanUsesPool == Spec => UsesPool
<1>1. Init => Pool!PoolInit
  <2> SUFFICES ASSUME Init  PROVE Pool!PoolInit
    OBVIOUS
  <2>1. PICK r \in Routines : free_regs = Pool!FreshFreeRegs(~IsLeaf(r.code))
                              /\ dirty_regs = {} /\ active = <<>>
    BY DEF Init
  <2>2. Held = {} /\ (~IsLeaf(r.code)) \in BOOLEAN
    BY <2>1 DEF Held, IsLeaf
  <2>. QED  BY <2>1, <2>2 DEF Pool!PoolInit
<1>2. IInv /\ [Next]_vars => [Pool!PoolNext]_(Pool!pool_vars)
  BY NextKeeps DEF StepKeeps
<1>. QED  BY <1>1, <1>2, Invariance, PTL DEF Spec, UsesPool, Pool!PoolSpec

-----------------------------------------------------------------------------
(* The lives of the names.  A name is in one place at a time: it is active, *)
(* or waits among the inactive or the unhandled, and the later parts of    *)
(* its life hang behind that interval in the order of their starts.        *)

(* The names of the intervals behind the first h.                          *)
NamesFrom(s, h) == [j \in 1 .. Len(s) - h |-> s[j + h].name]

NamesIn(s, h) == Elements(NamesFrom(s, h))

OneEach(s, h) == Distinct(NamesFrom(s, h))

(* b is a without the i-th interval.                                       *)
Without(b, a, i) ==
  /\ Len(b) = Len(a) - 1
  /\ \A j \in 1 .. Len(a) - 1 : b[j] = IF j < i THEN a[j] ELSE a[j + 1]

(* Adding an interval of a name that is in none behind the first h.        *)
LEMMA AddedName ==
  ASSUME NEW S, NEW s \in Seq(S), NEW h \in Nat, NEW i \in 1 .. Len(s) + 1, h < i, NEW e \in S,
         OneEach(s, h), e.name \notin NamesIn(s, h)
  PROVE  /\ NamesIn(InsertAt(s, i, e), h) = NamesIn(s, h) \cup {e.name}
         /\ OneEach(InsertAt(s, i, e), h)
<1> DEFINE t == InsertAt(s, i, e)
           n == Len(s) - h
           a == NamesFrom(s, h)
           b == NamesFrom(t, h)
<1>0. Len(s) \in Nat /\ i \in Nat /\ i <= Len(s) + 1
  OBVIOUS
<1>1. /\ t \in Seq(S)
      /\ Len(t) = Len(s) + 1
      /\ \A j \in 1 .. Len(s) + 1 :
           t[j] = IF j < i THEN s[j] ELSE IF j = i THEN e ELSE s[j - 1]
  <2>1. t \in Seq(S) /\ With(t, s, i, e)
    BY Inserted
  <2>. QED  BY <2>1 DEF With
<1>. HIDE DEF t
<1>2. n \in Nat /\ Len(t) - h = n + 1 /\ i - h \in 1 .. n + 1
  BY <1>0, <1>1
<1>3. /\ DOMAIN a = 1 .. n /\ DOMAIN b = 1 .. n + 1
      /\ \A j \in 1 .. n : a[j] = s[j + h].name
      /\ \A j \in 1 .. n + 1 : b[j] = t[j + h].name
  BY <1>2 DEF NamesFrom
<1>. HIDE DEF a, b
<1>4. ASSUME NEW j \in 1 .. n + 1, j # i - h
      PROVE  b[j] = IF j < i - h THEN a[j] ELSE a[j - 1]
  <2>1. j + h \in 1 .. Len(s) + 1 /\ j + h # i
    BY <1>0, <1>2, <1>4
  <2>2. CASE j < i - h
    <3>1. j \in 1 .. n /\ j + h < i
      BY <1>0, <1>2, <2>2
    <3>. QED  BY <1>1, <1>3, <2>1, <2>2, <3>1
  <2>3. CASE ~(j < i - h)
    <3>1. j - 1 \in 1 .. n /\ ~(j + h < i) /\ (j + h) - 1 = (j - 1) + h
      BY <1>0, <1>2, <1>4, <2>3
    <3>. QED  BY <1>1, <1>3, <2>1, <2>3, <3>1
  <2>. QED  BY <2>2, <2>3
<1>5. b[i - h] = e.name
  <2>1. (i - h) + h = i /\ i \in 1 .. Len(s) + 1 /\ ~(i < i)
    BY <1>0
  <2>. QED  BY <1>1, <1>2, <1>3, <2>1
<1>6. Distinct(a) /\ b[i - h] \notin Elements(a)
  BY <1>5 DEF OneEach, NamesIn, a
<1>. HIDE DEF n
<1>7. Elements(b) = Elements(a) \cup {b[i - h]} /\ Distinct(b)
  BY ONLY <1>2, <1>3, <1>4, <1>6, AddedKey
<1>. QED  BY <1>5, <1>7 DEF OneEach, NamesIn, a, b, t

(* Taking one out.                                                         *)
LEMMA RemovedName ==
  ASSUME NEW S, NEW s \in Seq(S), NEW b, NEW i \in 1 .. Len(s), Without(b, s, i), OneEach(s, 0)
  PROVE  /\ NamesIn(b, 0) = NamesIn(s, 0) \ {s[i].name} /\ OneEach(b, 0)
         /\ s[i].name \in NamesIn(s, 0)
<1> DEFINE n == Len(s)
           x == NamesFrom(s, 0)
           y == NamesFrom(b, 0)
<1>1. /\ n \in Nat /\ i \in 1 .. n /\ Len(b) - 0 = n - 1 /\ n - 0 = n
  BY DEF Without
<1>2. /\ DOMAIN x = 1 .. n /\ DOMAIN y = 1 .. n - 1
      /\ \A j \in 1 .. n : x[j] = s[j].name
      /\ \A j \in 1 .. n - 1 : y[j] = b[j].name
  BY <1>1 DEF NamesFrom
<1>3. ASSUME NEW j \in 1 .. n - 1
      PROVE  y[j] = IF j < i THEN x[j] ELSE x[j + 1]
  <2>1. j \in 1 .. n /\ j + 1 \in 1 .. n
    BY <1>1
  <2>. QED  BY <1>2, <2>1 DEF Without
<1>4. Distinct(x) /\ x[i] = s[i].name
  BY <1>1, <1>2 DEF OneEach
<1>. HIDE DEF x, y, n
<1>5. Elements(y) = Elements(x) \ {x[i]} /\ Distinct(y)
  BY ONLY <1>1, <1>2, <1>3, <1>4, RemovedKey
<1>6. x[i] \in Elements(x)
  BY <1>1, <1>2 DEF Elements
<1>. QED  BY <1>4, <1>5, <1>6 DEF OneEach, NamesIn, x, y

(* Leaving out one more at the front.                                      *)
LEMMA LaterNames ==
  ASSUME NEW S, NEW s \in Seq(S), NEW h \in Nat, OneEach(s, h)
  PROVE  /\ NamesIn(s, h + 1) \subseteq NamesIn(s, h) /\ OneEach(s, h + 1)
         /\ h + 1 <= Len(s) => /\ s[h + 1].name \in NamesIn(s, h)
                               /\ s[h + 1].name \notin NamesIn(s, h + 1)
<1> DEFINE n == Len(s) - h
           a == NamesFrom(s, h)
           b == NamesFrom(s, h + 1)
<1>1. n \in Int /\ Len(s) - (h + 1) = n - 1 /\ Len(s) \in Nat
  OBVIOUS
<1>2. /\ DOMAIN a = 1 .. n /\ DOMAIN b = 1 .. n - 1
      /\ \A j \in 1 .. n : a[j] = s[j + h].name
      /\ \A j \in 1 .. n - 1 : b[j] = s[j + (h + 1)].name
  BY <1>1 DEF NamesFrom
<1>3. Distinct(a)
  BY DEF OneEach
<1>. HIDE DEF a, b
<1>4. ASSUME NEW j \in 1 .. n - 1  PROVE j + 1 \in 1 .. n /\ j + 1 # 1 /\ b[j] = a[j + 1]
  <2>1. j + 1 \in 1 .. n /\ j + (h + 1) = (j + 1) + h /\ j + 1 # 1
    BY <1>1
  <2>. QED  BY <1>2, <2>1
<1>. HIDE DEF n
<1>5. Elements(b) \subseteq Elements(a)
  BY <1>2, <1>4 DEF Elements
<1>6. Distinct(b)
  <2> SUFFICES ASSUME NEW i \in 1 .. n - 1, NEW j \in 1 .. n - 1, b[i] = b[j]  PROVE i = j
    BY <1>2 DEF Distinct
  <2>1. i + 1 = j + 1
    BY <1>2, <1>3, <1>4 DEF Distinct
  <2>. QED  BY <2>1
<1>7. ASSUME h + 1 <= Len(s)
      PROVE  s[h + 1].name \in Elements(a) /\ s[h + 1].name \notin Elements(b)
  <2>1. 1 \in 1 .. n /\ 1 + h = h + 1
    BY <1>1, <1>7 DEF n
  <2>2. a[1] = s[h + 1].name
    BY <1>2, <2>1
  <2>3. a[1] \in Elements(a)
    BY <1>2, <2>1 DEF Elements
  <2>4. ASSUME NEW j \in 1 .. n - 1, b[j] = a[1]  PROVE FALSE
    BY <1>2, <1>3, <1>4, <2>1, <2>4 DEF Distinct
  <2>5. a[1] \notin Elements(b)
    BY <1>2, <2>4 DEF Elements
  <2>. QED  BY <2>2, <2>3, <2>5
<1>. QED  BY <1>5, <1>6, <1>7 DEF NamesIn, OneEach, a, b

-----------------------------------------------------------------------------
(* An interval is ordered in another register, and when it starts later.   *)
LEMMA TimelyChanged ==
  ASSUME NEW P, NEW iv \in Timely(P)
  PROVE  /\ \A r \in Reg \cup {NoReg} : [iv EXCEPT !.reg = r] \in Timely(P)
         /\ \A s \in Positions(P) : s <= iv.end => [iv EXCEPT !.start = s] \in Timely(P)
<1>1. iv \in Entry(P) /\ Ordered(iv)
  BY DEF Timely
<1>2. ASSUME NEW r \in Reg \cup {NoReg}
      PROVE  [iv EXCEPT !.reg = r] \in Timely(P)
  <2> DEFINE e == [iv EXCEPT !.reg = r]
  <2>1. e \in Entry(P)
    BY <1>1 DEF Entry, IntervalOf
  <2>2. e.start = iv.start /\ e.end = iv.end /\ e.next = iv.next /\ e.name = iv.name
    BY <1>1 DEF Entry, IntervalOf
  <2>. HIDE DEF e
  <2>3. Ordered(e)
    BY <1>1, <2>2 DEF Ordered
  <2>4. e \in Timely(P)
    BY <2>1, <2>3 DEF Timely
  <2>. QED  BY <2>4 DEF e
<1>3. ASSUME NEW s \in Positions(P), s <= iv.end
      PROVE  [iv EXCEPT !.start = s] \in Timely(P)
  <2> DEFINE e == [iv EXCEPT !.start = s]
  <2>1. e \in Entry(P)
    BY <1>1 DEF Entry, IntervalOf
  <2>2. e.start = s /\ e.end = iv.end /\ e.next = iv.next /\ e.name = iv.name
    BY <1>1 DEF Entry, IntervalOf
  <2>. HIDE DEF e
  <2>3. Ordered(e)
    BY <1>1, <1>3, <2>2 DEF Ordered
  <2>4. e \in Timely(P)
    BY <2>1, <2>3 DEF Timely
  <2>. QED  BY <2>4 DEF e
<1>. QED  BY <1>2, <1>3

(* What hangs behind an interval is ordered, and starts after it ends.     *)
LEMMA TimelyNext ==
  ASSUME NEW P, NEW iv \in Timely(P), iv.next # <<>>
  PROVE  /\ NextOf(iv) \in Timely(P)
         /\ NextOf(iv).name = iv.name
         /\ iv.end < NextOf(iv).start
<1> DEFINE s == iv.next
           e == NextOf(iv)
<1>1. iv \in Entry(P) /\ Ordered(iv)
  BY DEF Timely
<1>2. s \in Seq(Link(P)) /\ s # <<>>
  BY <1>1, EntryFields
<1>3. e \in Entry(P)
  BY <1>1, EntryFields, NextTyped
<1>4. /\ Len(s) \in Nat /\ 1 \in DOMAIN s /\ DOMAIN s = 1 .. Len(s)
      /\ s[1] \in Link(P) /\ Head(s) = s[1]
      /\ Tail(s) \in Seq(Link(P)) /\ Len(Tail(s)) = Len(s) - 1
      /\ \A c \in 1 .. Len(s) - 1 : Tail(s)[c] = s[c + 1]
  BY <1>2
<1>5. /\ e.name = s[1].name /\ e.start = s[1].start /\ e.end = s[1].end
      /\ e.next = Tail(s)
  BY <1>4 DEF NextOf, Link, IntervalOf
<1>6. /\ \A c \in 1 .. Len(s) : /\ s[c].name = iv.name /\ s[c].start <= s[c].end
                               /\ iv.end < s[c].start
      /\ \A c, d \in 1 .. Len(s) : c < d => s[c].end < s[d].start
  BY <1>1, <1>4 DEF Ordered
<1>. HIDE DEF s, e
<1>7. DOMAIN e.next = 1 .. Len(s) - 1
  BY <1>4, <1>5
<1>8. \A c \in 1 .. Len(s) - 1 : c + 1 \in 1 .. Len(s) /\ 1 < c + 1 /\ e.next[c] = s[c + 1]
  BY <1>4, <1>5
<1>9. Ordered(e)
  <2>1. e.start <= e.end
    BY <1>4, <1>5, <1>6
  <2>2. ASSUME NEW c \in 1 .. Len(s) - 1
        PROVE  /\ e.next[c].name = e.name /\ e.next[c].start <= e.next[c].end
               /\ e.end < e.next[c].start
    BY <1>4, <1>5, <1>6, <1>8
  <2>3. ASSUME NEW c \in 1 .. Len(s) - 1, NEW d \in 1 .. Len(s) - 1, c < d
        PROVE  e.next[c].end < e.next[d].start
    <3>1. c + 1 < d + 1
      BY <2>3
    <3>. QED  BY <1>6, <1>8, <3>1
  <2>. QED  BY <1>7, <2>1, <2>2, <2>3 DEF Ordered
<1>10. e.name = iv.name /\ iv.end < e.start
  BY <1>4, <1>5, <1>6
<1>. QED  BY <1>3, <1>9, <1>10 DEF Timely, e

-----------------------------------------------------------------------------
(* The active, the inactive and the unhandled intervals behind the first   *)
(* h: each name is in one of them, once.                                   *)
Lives(a, i, w, h) ==
  /\ a \in Seq(Timely(code)) /\ i \in Seq(Timely(code)) /\ w \in Seq(Timely(code))
  /\ StartsSorted(w)
  /\ OneEach(a, 0) /\ OneEach(i, 0) /\ OneEach(w, h)
  /\ NamesIn(a, 0) \cap NamesIn(i, 0) = {}
  /\ NamesIn(a, 0) \cap NamesIn(w, h) = {}
  /\ NamesIn(i, 0) \cap NamesIn(w, h) = {}

Absent(x, a, i, w, h) == x \notin NamesIn(a, 0) \cup NamesIn(i, 0) \cup NamesIn(w, h)

(* An active interval that is taken out leaves its name without a place.   *)
LEMMA ActiveTaken ==
  ASSUME NEW a, NEW i, NEW w, NEW h, Lives(a, i, w, h), NEW m \in 1 .. Len(a),
         NEW b \in Seq(Timely(code)), Without(b, a, m)
  PROVE  /\ Lives(b, i, w, h)
         /\ Absent(a[m].name, b, i, w, h) /\ ~Absent(a[m].name, a, i, w, h)
         /\ \A x : Absent(x, a, i, w, h) => Absent(x, b, i, w, h)
<1>1. /\ NamesIn(b, 0) = NamesIn(a, 0) \ {a[m].name} /\ OneEach(b, 0)
      /\ a[m].name \in NamesIn(a, 0)
  BY RemovedName DEF Lives
<1>. QED  BY <1>1 DEF Lives, Absent

(* So does an inactive one.                                                *)
LEMMA InactiveTaken ==
  ASSUME NEW a, NEW i, NEW w, NEW h, Lives(a, i, w, h), NEW m \in 1 .. Len(i),
         NEW b \in Seq(Timely(code)), Without(b, i, m)
  PROVE  Lives(a, b, w, h) /\ Absent(i[m].name, a, b, w, h)
<1>1. /\ NamesIn(b, 0) = NamesIn(i, 0) \ {i[m].name} /\ OneEach(b, 0)
      /\ i[m].name \in NamesIn(i, 0)
  BY RemovedName DEF Lives
<1>. QED  BY <1>1 DEF Lives, Absent

(* And the first of the unhandled ones, when the loop passes it.           *)
LEMMA UnhandledPassed ==
  ASSUME NEW a, NEW i, NEW w, NEW h \in Nat, Lives(a, i, w, h)
  PROVE  /\ Lives(a, i, w, h + 1)
         /\ h + 1 <= Len(w) => Absent(w[h + 1].name, a, i, w, h + 1)
<1>1. /\ NamesIn(w, h + 1) \subseteq NamesIn(w, h) /\ OneEach(w, h + 1)
      /\ h + 1 <= Len(w) => /\ w[h + 1].name \in NamesIn(w, h)
                            /\ w[h + 1].name \notin NamesIn(w, h + 1)
  BY LaterNames DEF Lives
<1>. QED  BY <1>1 DEF Lives, Absent

(* A name without a place may become active, and the others stay absent.   *)
LEMMA MadeActive ==
  ASSUME NEW a, NEW i, NEW w, NEW h, Lives(a, i, w, h), NEW e \in Timely(code),
         Absent(e.name, a, i, w, h)
  PROVE  /\ Lives(AddToActive(a, e), i, w, h)
         /\ \A x : x # e.name /\ Absent(x, a, i, w, h) => Absent(x, AddToActive(a, e), i, w, h)
<1> DEFINE m == EndPosition(a, e)
           b == InsertAt(a, m, e)
<1>1. a \in Seq(Timely(code)) /\ OneEach(a, 0) /\ e.name \notin NamesIn(a, 0)
  BY DEF Lives, Absent
<1>2. m \in 1 .. Len(a) + 1
  BY <1>1, EndPositionInSet
<1>3. AddToActive(a, e) = b
  BY DEF AddToActive
<1>. HIDE DEF m
<1>4. 0 < m
  BY <1>2
<1>5. b \in Seq(Timely(code))
  BY <1>1, <1>2, InsertAtElements
<1>6. NamesIn(b, 0) = NamesIn(a, 0) \cup {e.name} /\ OneEach(b, 0)
  BY <1>1, <1>2, <1>4, AddedName
<1>. HIDE DEF b
<1>. QED  BY <1>3, <1>5, <1>6 DEF Lives, Absent

(* Or inactive.                                                            *)
LEMMA MadeInactive ==
  ASSUME NEW a, NEW i, NEW w, NEW h, Lives(a, i, w, h), NEW e \in Timely(code),
         Absent(e.name, a, i, w, h)
  PROVE  Lives(a, AddByStart(i, e), w, h)
<1>1. i \in Seq(Timely(code)) /\ OneEach(i, 0) /\ e.name \notin NamesIn(i, 0)
  BY DEF Lives, Absent
<1>2. AddByStart(i, e) \in Seq(Timely(code))
  BY <1>1, AddedByStart
<1>3. PICK m \in 1 .. Len(i) + 1 : AddByStart(i, e) = InsertAt(i, m, e)
  BY <1>1, AddedByStart
<1>4. 0 < m
  BY <1>3
<1>5. NamesIn(InsertAt(i, m, e), 0) = NamesIn(i, 0) \cup {e.name}
      /\ OneEach(InsertAt(i, m, e), 0)
  BY <1>1, <1>3, <1>4, AddedName
<1>. QED  BY <1>2, <1>3, <1>5 DEF Lives, Absent

(* Or unhandled, among those that the loop has not reached, if it starts   *)
(* after the interval that the loop is at.                                 *)
LEMMA MadeUnhandled ==
  ASSUME code \in Seq(Instruction), NEW a, NEW i, NEW w, NEW h \in 1 .. Len(w),
         Lives(a, i, w, h), NEW e \in Timely(code),
         Absent(e.name, a, i, w, h), w[h].start < e.start
  PROVE  Lives(a, i, AddByStart(w, e), h)
<1> DEFINE t == AddByStart(w, e)
<1>1. w \in Seq(Timely(code)) /\ OneEach(w, h) /\ e.name \notin NamesIn(w, h) /\ StartsSorted(w)
  BY DEF Lives, Absent
<1>2. /\ t \in Seq(Timely(code)) /\ Len(t) = Len(w) + 1
      /\ Len(w) \in Nat /\ DOMAIN w = 1 .. Len(w)
  BY <1>1, AddedByStart
<1>3. PICK m \in 1 .. Len(w) + 1 :
        /\ t = InsertAt(w, m, e)
        /\ \A j \in 1 .. Len(w) : j < m => ~(e.start <= w[j].start)
        /\ m <= Len(w) => e.start <= w[m].start
        /\ With(t, w, m, e)
  BY <1>1, AddedByStart
<1>. HIDE DEF t
<1>4. e.start \in Nat /\ \A j \in 1 .. Len(w) : w[j].start \in Nat
  <2>1. Positions(code) \subseteq Nat
    BY PositionsOf
  <2>2. \A d \in Timely(code) : d.start \in Nat
    BY <2>1, EntryFields DEF Timely
  <2>3. \A j \in 1 .. Len(w) : w[j] \in Timely(code)
    BY <1>1, <1>2
  <2>. QED  BY <2>2, <2>3
<1>. DEFINE v(j) == w[j].start
<1>5. \A p, q \in 1 .. Len(w) : p <= q => v(p) <= v(q)
  <2>1. \A p, q \in 1 .. Len(w) : p < q => v(p) <= v(q)
    BY <1>1, <1>2 DEF StartsSorted
  <2>2. \A p \in 1 .. Len(w) : v(p) <= v(p)
    BY <1>4
  <2>. HIDE DEF v
  <2>. QED  BY <1>2, <2>1, <2>2
<1>6. h < m
  <2> SUFFICES ASSUME m <= h  PROVE FALSE
    BY <1>2, <1>3
  <2>1. m \in 1 .. Len(w) /\ e.start <= w[m].start
    BY <1>2, <1>3
  <2>2. w[m].start <= w[h].start
    BY <1>5, <2>1
  <2>. QED  BY <1>4, <2>1, <2>2
<1>7. NamesIn(t, h) = NamesIn(w, h) \cup {e.name} /\ OneEach(t, h)
  BY <1>1, <1>3, <1>6, AddedName
<1>8. \A j \in 1 .. Len(w) + 1 : t[j] = IF j < m THEN w[j] ELSE IF j = m THEN e ELSE w[j - 1]
  BY <1>3 DEF With
<1>9. StartsSorted(t)
  <2> SUFFICES ASSUME NEW p \in 1 .. Len(w) + 1, NEW q \in 1 .. Len(w) + 1, p < q
               PROVE  t[p].start <= t[q].start
    BY <1>2 DEF StartsSorted
  <2>1. CASE q < m
    <3>1. p \in 1 .. Len(w) /\ q \in 1 .. Len(w) /\ p < m
      BY <1>2, <1>3, <2>1
    <3>2. t[p] = w[p] /\ t[q] = w[q] /\ p <= q
      BY <1>8, <2>1, <3>1
    <3>. QED  BY <1>5, <3>1, <3>2
  <2>2. CASE q = m
    <3>1. p \in 1 .. Len(w) /\ p < m /\ ~(m < m)
      BY <1>2, <1>3, <2>2
    <3>2. t[p] = w[p] /\ t[q] = e
      BY <1>8, <2>2, <3>1
    <3>. QED  BY <1>3, <1>4, <3>1, <3>2
  <2>3. CASE m < q /\ p < m
    <3>1. p \in 1 .. Len(w) /\ q - 1 \in 1 .. Len(w) /\ ~(q < m) /\ q # m /\ p <= q - 1
      BY <1>2, <1>3, <2>3
    <3>2. t[p] = w[p] /\ t[q] = w[q - 1]
      BY <1>8, <2>3, <3>1
    <3>. QED  BY <1>5, <3>1, <3>2
  <2>4. CASE p = m
    <3>1. q - 1 \in 1 .. Len(w) /\ ~(q < m) /\ q # m /\ m <= q - 1 /\ m \in 1 .. Len(w) /\ ~(m < m)
      BY <1>2, <1>3, <2>4
    <3>2. t[p] = e /\ t[q] = w[q - 1] /\ e.start <= w[m].start
      BY <1>3, <1>8, <2>4, <3>1
    <3>3. w[m].start <= w[q - 1].start
      BY <1>5, <3>1
    <3>. QED  BY <1>4, <3>1, <3>2, <3>3
  <2>5. CASE m < p
    <3>1. /\ p - 1 \in 1 .. Len(w) /\ q - 1 \in 1 .. Len(w) /\ p - 1 <= q - 1
          /\ ~(q < m) /\ q # m /\ ~(p < m) /\ p # m
      BY <1>2, <1>3, <2>5
    <3>2. t[p] = w[p - 1] /\ t[q] = w[q - 1]
      BY <1>8, <3>1
    <3>. QED  BY <1>5, <3>1, <3>2
  <2>. QED  BY <1>3, <2>1, <2>2, <2>3, <2>4, <2>5
<1>. QED  BY <1>2, <1>7, <1>9 DEF Lives, Absent, t

(* What hangs behind an interval that has lost its place waits in it.      *)
LEMMA NextWaits ==
  ASSUME NEW a, NEW i, NEW w, NEW h, Lives(a, i, w, h), NEW e \in Timely(code),
         Absent(e.name, a, i, w, h)
  PROVE  Lives(a, AddNextToInactive(i, e), w, h)
<1>1. CASE e.next = <<>>
  BY <1>1 DEF AddNextToInactive
<1>2. CASE e.next # <<>>
  <2> DEFINE n == NextOf(e)
             d == [n EXCEPT !.reg = e.reg]
  <2>1. n \in Timely(code) /\ n.name = e.name
    BY <1>2, TimelyNext
  <2>2. e.reg \in Reg \cup {NoReg} /\ n \in Entry(code)
    BY <2>1, EntryFields DEF Timely
  <2>. HIDE DEF n
  <2>3. d \in Timely(code)
    BY <2>1, <2>2, TimelyChanged
  <2>4. d.name = e.name
    BY <2>1, <2>2 DEF Entry, IntervalOf
  <2>5. AddNextToInactive(i, e) = AddByStart(i, d)
    BY <1>2 DEF AddNextToInactive, n
  <2>. HIDE DEF d
  <2>. QED  BY <2>3, <2>4, <2>5, MadeInactive
<1>. QED  BY <1>1, <1>2

(* The ways in which the scan takes an interval out of a set.              *)
LEMMA TakenOut ==
  ASSUME NEW S, NEW s \in Seq(S)
  PROVE  /\ \A i \in 1 .. Len(s) : RemoveAt(s, i) \in Seq(S) /\ Without(RemoveAt(s, i), s, i)
         /\ s # <<>> => /\ 1 \in 1 .. Len(s) /\ Tail(s) \in Seq(S) /\ Without(Tail(s), s, 1)
                        /\ Len(s) \in 1 .. Len(s) /\ Last(s) = s[Len(s)]
                        /\ Front(s) \in Seq(S) /\ Without(Front(s), s, Len(s))
<1>1. ASSUME NEW i \in 1 .. Len(s)
      PROVE  RemoveAt(s, i) \in Seq(S) /\ Without(RemoveAt(s, i), s, i)
  BY RemoveAtElements DEF Without
<1>2. ASSUME s # <<>>
      PROVE  /\ 1 \in 1 .. Len(s) /\ Tail(s) \in Seq(S) /\ Without(Tail(s), s, 1)
             /\ Len(s) \in 1 .. Len(s) /\ Last(s) = s[Len(s)]
             /\ Front(s) \in Seq(S) /\ Without(Front(s), s, Len(s))
  <2>1. Len(s) \in Nat /\ 1 \in 1 .. Len(s) /\ Len(s) \in 1 .. Len(s) /\ DOMAIN s = 1 .. Len(s)
    BY <1>2
  <2> DEFINE t == Tail(s)
             f == Front(s)
  <2>2. /\ t \in Seq(S) /\ Len(t) = Len(s) - 1
        /\ \A j \in 1 .. Len(s) - 1 : t[j] = s[j + 1]
    BY <1>2
  <2>3. f = SubSeq(s, 1, Len(s) - 1) /\ Last(s) = s[Len(s)]
    BY DEF Front, Last
  <2>4. /\ f \in Seq(S) /\ Len(f) = Len(s) - 1
        /\ \A j \in 1 .. Len(s) - 1 : f[j] = s[j]
    BY <2>1, <2>3
  <2>. HIDE DEF t, f
  <2>5. Without(t, s, 1)
    BY <2>1, <2>2 DEF Without
  <2>6. Without(f, s, Len(s))
    BY <2>1, <2>4 DEF Without
  <2>. QED  BY <2>1, <2>2, <2>3, <2>4, <2>5, <2>6 DEF t, f
<1>. QED  BY <1>1, <1>2

-----------------------------------------------------------------------------
(* The invariant: how many of the unhandled intervals have been handled,   *)
(* and what the sort starts from.                                          *)
Handled ==
  IF \/ pc \in {"scan", "instr", "operands", "done"}
     \/ pc \in {"expire", "renew"} /\ then = "instr"
  THEN u ELSE u - 1

SortedFrom ==
  /\ active = <<>> /\ inactive = <<>>
  /\ Formed(code) /\ args \subseteq Name
  /\ live_in = LiveIn(code, args) /\ live_out = LiveOut(code, args)

LifeInv ==
  /\ pc # "abort" => Lives(active, inactive, unhandled, Handled)
  /\ pc = "sort" => SortedFrom

(* The scan has handled none or more.                                      *)
LEMMA HandledIs ==
  ASSUME IInv
  PROVE  /\ u \in Nat \ {0} /\ u - 1 \in Nat /\ (u - 1) + 1 = u /\ Handled \in Nat
         /\ Len(unhandled) \in Nat
<1>1. u \in 1 .. Len(unhandled) + 1 /\ Len(unhandled) \in Nat
  BY DEF IInv, AtWork, SetsTyped
<1>. QED  BY <1>1 DEF Handled

(* A step keeps the invariant if it keeps the names in one place each.     *)
LEMMA LifeKept ==
  ASSUME UNCHANGED code, pc' # "sort", NEW h, h = Handled',
         Lives(active', inactive', unhandled', h)
  PROVE  LifeInv'
<1>1. Lives(active, inactive, unhandled, Handled)'
  BY DEF Lives
<1>. QED  BY <1>1 DEF LifeInv

(* A step that only goes on, and may pass an unhandled interval.           *)
LEMMA QuietLife ==
  ASSUME IInv, LifeInv, pc # "abort", pc' # "sort",
         UNCHANGED <<code, active, inactive, unhandled>>, Handled' \in {Handled, Handled + 1}
  PROVE  LifeInv'
<1>1. Lives(active, inactive, unhandled, Handled) /\ Handled \in Nat
  BY HandledIs DEF LifeInv
<1>2. Lives(active, inactive, unhandled, Handled + 1)
  BY <1>1, UnhandledPassed
<1>3. Lives(active', inactive', unhandled', Handled')
  BY <1>1, <1>2
<1>. QED  BY <1>3, LifeKept

(* After an assertion that fails nothing is promised.                      *)
LEMMA AbortLife ==
  ASSUME Abort
  PROVE  LifeInv'
BY DEF Abort, LifeInv

(* The rounds that move only the control.                                  *)
LEMMA ControlLife ==
  ASSUME IInv, LifeInv,
         \/ TakeInterval \/ TakeRest \/ ExpireDone \/ RenewDone \/ PlaceOwnEnding
         \/ Scan \/ ScanDone \/ ScanCall \/ ScanOther \/ OperandsSet \/ ScanSpillNop
  PROVE  LifeInv'
<1>1. /\ UNCHANGED <<code, active, inactive, unhandled>>
  BY DEF TakeInterval, TakeRest, ExpireDone, RenewDone, PlaceOwnEnding, Scan, ScanDone,
         ScanCall, ScanOther, OperandsSet, ScanSpillNop, SpillDone, AtSpill, routine, sets
<1>2. u \in Nat /\ then \in {"place", "instr"} /\ (u + 1) - 1 = u /\ (u - 1) + 1 = u
  BY HandledIs DEF IInv, AtWork
<1>3. pc # "abort" /\ pc' # "sort" /\ Handled' \in {Handled, Handled + 1}
  <2>1. CASE TakeInterval
    BY <1>2, <2>1 DEF TakeInterval, Handled
  <2>2. CASE TakeRest
    BY <1>2, <2>2 DEF TakeRest, Handled
  <2>3. CASE ExpireDone
    BY <1>2, <2>3 DEF ExpireDone, Handled
  <2>4. CASE RenewDone
    BY <1>2, <2>4 DEF RenewDone, Handled, loops
  <2>5. CASE PlaceOwnEnding
    BY <1>2, <2>5 DEF PlaceOwnEnding, Placing, Handled, loops
  <2>6. CASE Scan
    BY <1>2, <2>6 DEF Scan, Handled
  <2>7. CASE ScanDone
    BY <1>2, <2>7 DEF ScanDone, Handled
  <2>8. CASE ScanCall
    BY <1>2, <2>8 DEF ScanCall, Handled, loops
  <2>9. CASE ScanOther
    BY <1>2, <2>9 DEF ScanOther, Handled, loops
  <2>10. CASE OperandsSet
    BY <1>2, <2>10 DEF OperandsSet, Handled
  <2>11. CASE ScanSpillNop
    BY <1>2, <2>11 DEF ScanSpillNop, SpillDone, AtSpill, Handled
  <2>. QED  BY <2>1, <2>2, <2>3, <2>4, <2>5, <2>6, <2>7, <2>8, <2>9, <2>10, <2>11
<1>. QED  BY <1>1, <1>3, QuietLife

(* What the scan finds in the sets.                                        *)
LEMMA LifeFacts ==
  ASSUME IInv, LifeInv, pc # "abort"
  PROVE  /\ active \in Seq(Timely(code)) /\ inactive \in Seq(Timely(code))
         /\ unhandled \in Seq(Timely(code))
         /\ Lives(active, inactive, unhandled, Handled)
         /\ u \in Nat /\ then \in {"place", "instr"} /\ k \in Nat \ {0}
BY HandledIs DEF LifeInv, Lives, IInv, AtWork, SetsTyped

(* The interval that is about to be placed has left the unhandled ones.    *)
LEMMA CurrentLeaves ==
  ASSUME IInv, LifeInv, Placing
  PROVE  /\ Current \in Timely(code) /\ u \in 1 .. Len(unhandled)
         /\ Lives(active, inactive, unhandled, u)
         /\ Absent(Current.name, active, inactive, unhandled, u)
<1>1. /\ unhandled \in Seq(Timely(code)) /\ u \in 1 .. Len(unhandled)
      /\ u - 1 \in Nat /\ (u - 1) + 1 = u /\ u <= Len(unhandled)
  BY LifeFacts, CurrentTyped, HandledIs DEF Placing
<1>2. Lives(active, inactive, unhandled, u - 1)
  BY DEF LifeInv, Handled, Placing
<1>3. /\ Lives(active, inactive, unhandled, u)
      /\ Absent(unhandled[u].name, active, inactive, unhandled, u)
  BY <1>1, <1>2, UnhandledPassed
<1>4. unhandled[u] \in Timely(code)
  BY <1>1
<1>. QED  BY <1>1, <1>3, <1>4 DEF Current

(* An interval that expires: the next of its chain waits in its place.     *)
LEMMA ExpireLife ==
  ASSUME IInv, LifeInv, Expire
  PROVE  LifeInv'
<1> DEFINE first == active[1]
<1>0. pc = "expire" /\ active # <<>>
  BY DEF Expire
<1>1. CASE ~IsOfClass(first)
  BY <1>1, AbortLife DEF Expire
<1>2. CASE IsOfClass(first)
  <2>1. /\ active' = Tail(active) /\ inactive' = AddNextToInactive(inactive, first)
        /\ UNCHANGED <<code, unhandled, u, then, pc>>
    BY <1>2 DEF Expire, loops, routine
  <2>2. /\ active \in Seq(Timely(code))
        /\ Lives(active, inactive, unhandled, Handled)
    BY <1>0, LifeFacts
  <2>3. /\ 1 \in 1 .. Len(active) /\ Tail(active) \in Seq(Timely(code))
        /\ Without(Tail(active), active, 1)
    BY <1>0, <2>2, TakenOut
  <2>4. first \in Timely(code)
    BY <2>2, <2>3
  <2>5. /\ Lives(Tail(active), inactive, unhandled, Handled)
        /\ Absent(first.name, Tail(active), inactive, unhandled, Handled)
    BY <2>2, <2>3, ActiveTaken
  <2>. HIDE DEF first
  <2>6. Lives(Tail(active), AddNextToInactive(inactive, first), unhandled, Handled)
    BY <2>4, <2>5, NextWaits
  <2>7. Handled' = Handled /\ pc' # "sort"
    BY <1>0, <2>1 DEF Handled
  <2>. QED  BY <2>1, <2>6, <2>7, LifeKept
<1>. QED  BY <1>1, <1>2

(* A renewed interval in its slot is looked after no more.                 *)
LEMMA RenewToSlotLife ==
  ASSUME IInv, LifeInv, RenewToSlot
  PROVE  LifeInv'
<1>1. /\ pc = "renew" /\ k <= Len(inactive)
      /\ inactive' = RemoveAt(inactive, k)
      /\ UNCHANGED <<code, unhandled, active, u, then, pc>>
  BY DEF RenewToSlot, loops, routine
<1>2. /\ inactive \in Seq(Timely(code)) /\ k \in 1 .. Len(inactive)
      /\ Lives(active, inactive, unhandled, Handled)
  BY <1>1, LifeFacts
<1>3. RemoveAt(inactive, k) \in Seq(Timely(code)) /\ Without(RemoveAt(inactive, k), inactive, k)
  BY <1>2, TakenOut
<1>4. Lives(active, RemoveAt(inactive, k), unhandled, Handled)
  BY <1>2, <1>3, InactiveTaken
<1>5. Handled' = Handled /\ pc' # "sort"
  BY <1>1 DEF Handled
<1>. QED  BY <1>1, <1>4, <1>5, LifeKept

(* In a register it becomes active.                                        *)
LEMMA RenewToRegisterLife ==
  ASSUME IInv, LifeInv, RenewToRegister
  PROVE  LifeInv'
<1> DEFINE old  == inactive[k]
           c    == ClassOf[old.name]
           same == old.reg \in Elements(free_regs[c])
           new  == IF same THEN old ELSE [old EXCEPT !.reg = Back(free_regs[c])]
           rest == RemoveAt(inactive, k)
<1>1. CASE ~IsOfClass(old) \/ ~MayAddToActive(active, new)
  BY <1>1, AbortLife DEF RenewToRegister
<1>2. CASE ~(~IsOfClass(old) \/ ~MayAddToActive(active, new))
  <2>1. /\ pc = "renew" /\ k <= Len(inactive)
        /\ Pool!HasFreeRegisters(c)
        /\ inactive' = rest
        /\ active' = AddToActive(active, new)
        /\ UNCHANGED <<code, unhandled, u, then, pc>>
    BY <1>2 DEF RenewToRegister, loops, routine
  <2>2. /\ inactive \in Seq(Timely(code)) /\ k \in 1 .. Len(inactive)
        /\ Lives(active, inactive, unhandled, Handled)
    BY <2>1, LifeFacts
  <2>3. rest \in Seq(Timely(code)) /\ Without(rest, inactive, k)
    BY <2>2, TakenOut
  <2>4. /\ Lives(active, rest, unhandled, Handled)
        /\ Absent(old.name, active, rest, unhandled, Handled)
    BY <2>2, <2>3, InactiveTaken
  <2>5. old \in Timely(code) /\ old \in Entry(code) /\ c \in Class
    BY <2>2, EntryFields DEF Timely
  <2>. HIDE DEF old, c, rest
  <2>6. Back(free_regs[c]) \in Reg
    BY <2>1, <2>5, BackIsFree
  <2>7. new \in Timely(code) /\ new.name = old.name
    BY <2>5, <2>6, TimelyChanged DEF Entry, IntervalOf
  <2>. HIDE DEF new
  <2>8. Lives(AddToActive(active, new), rest, unhandled, Handled)
    BY <2>4, <2>7, MadeActive
  <2>9. Handled' = Handled /\ pc' # "sort"
    BY <2>1 DEF Handled
  <2>. QED  BY <2>1, <2>8, <2>9, LifeKept
<1>. QED  BY <1>1, <1>2

(* An interval that is placed in a free register, of its own or any.       *)
LEMMA PlacedLife ==
  ASSUME IInv, LifeInv, Placing, NEW new \in Timely(code), new.name = Current.name,
         active' = AddToActive(active, new), pc' = "scan",
         UNCHANGED <<code, unhandled, inactive, u>>
  PROVE  LifeInv'
<1>1. /\ Lives(active, inactive, unhandled, u)
      /\ Absent(new.name, active, inactive, unhandled, u)
  BY CurrentLeaves
<1>2. Lives(AddToActive(active, new), inactive, unhandled, u)
  BY <1>1, MadeActive
<1>3. u = Handled' /\ pc' # "sort"
  BY DEF Handled
<1>. QED  BY <1>2, <1>3, LifeKept

(* Both cases of it.                                                       *)
LEMMA PlaceFreeLife ==
  ASSUME IInv, LifeInv, PlaceOwnFree \/ PlaceInFree
  PROVE  LifeInv'
<1> DEFINE c   == ClassOf[Current.name]
           new == [Current EXCEPT !.reg = Back(free_regs[c])]
<1>0. Placing
  BY DEF PlaceOwnFree, PlaceInFree
<1>1. Current \in Timely(code) /\ Current \in Entry(code) /\ c \in Class
  BY <1>0, CurrentLeaves, CurrentTyped
<1>2. CASE Abort
  BY <1>2, AbortLife
<1>3. CASE PlaceOwnFree /\ ~Abort
  <2>1. /\ active' = AddToActive(active, Current) /\ pc' = "scan"
        /\ UNCHANGED <<code, unhandled, inactive, u>>
    BY <1>3 DEF PlaceOwnFree, loops, routine
  <2>. QED  BY <1>0, <1>1, <2>1, PlacedLife
<1>4. CASE PlaceInFree /\ ~Abort
  <2>1. /\ active' = AddToActive(active, new) /\ pc' = "scan"
        /\ Pool!HasFreeRegisters(c)
        /\ UNCHANGED <<code, unhandled, inactive, u>>
    BY <1>4 DEF PlaceInFree, loops, routine
  <2>. HIDE DEF c
  <2>2. Back(free_regs[c]) \in Reg
    BY <1>1, <2>1, BackIsFree
  <2>3. new \in Timely(code) /\ new.name = Current.name
    BY <1>1, <2>2, TimelyChanged DEF Entry, IntervalOf
  <2>. HIDE DEF new
  <2>. QED  BY <1>0, <2>1, <2>3, PlacedLife
<1>. QED  BY <1>2, <1>3, <1>4

(* The holder of a fixed register is cut in two: the rest of its life is   *)
(* handled again, or what hangs behind it waits, never both.               *)
LEMMA PlaceOwnSplitLife ==
  ASSUME IInv, LifeInv, PlaceOwnSplit
  PROVE  LifeInv'
<1> DEFINE spill  == active[Holder]
           rest   == [spill EXCEPT !.start = Current.end + 1]
           others == RemoveAt(active, Holder)
           b      == AddToActive(others, Current)
<1>0. Placing /\ Current.reg \in Held
  BY DEF PlaceOwnSplit
<1>1. /\ Current \in Timely(code) /\ u \in 1 .. Len(unhandled)
      /\ Lives(active, inactive, unhandled, u)
      /\ Absent(Current.name, active, inactive, unhandled, u)
  BY <1>0, CurrentLeaves
<1>2. active \in Seq(Timely(code))
  BY <1>1 DEF Lives
<1>3. Holder \in 1 .. Len(active)
  <2>1. active \in Seq(Entry(code))
    BY DEF IInv, SetsTyped
  <2>. QED  BY <1>0, <2>1, HolderHasRegister
<1>4. others \in Seq(Timely(code)) /\ Without(others, active, Holder) /\ spill \in Timely(code)
  <2>1. others \in Seq(Timely(code)) /\ Without(others, active, Holder)
    BY ONLY <1>2, <1>3, TakenOut
  <2>2. spill \in Timely(code)
    BY ONLY <1>2, <1>3
  <2>. QED  BY ONLY <2>1, <2>2
<1>5. code \in Seq(Instruction)
  BY DEF IInv, SetsTyped
<1>6. CASE ~MayAddToActive(others, Current)
  BY <1>6, AbortLife DEF PlaceOwnSplit
<1>7. CASE MayAddToActive(others, Current)
  <2>1. /\ active' = b
        /\ IF rest.end > rest.start
           THEN unhandled' = AddByStart(unhandled, rest) /\ inactive' = inactive
           ELSE unhandled' = unhandled /\ inactive' = AddNextToInactive(inactive, rest)
        /\ pc' = "scan"
        /\ UNCHANGED <<code, u>>
    BY <1>7 DEF PlaceOwnSplit, routine, loops
  <2>2. /\ Lives(others, inactive, unhandled, u)
        /\ Absent(spill.name, others, inactive, unhandled, u)
        /\ Absent(Current.name, others, inactive, unhandled, u)
        /\ spill.name # Current.name
    BY <1>1, <1>3, <1>4, ActiveTaken
  <2>. HIDE DEF spill, others
  <2>3. Lives(b, inactive, unhandled, u) /\ Absent(spill.name, b, inactive, unhandled, u)
    BY <1>1, <2>2, MadeActive
  <2>. HIDE DEF b
  <2>4. spill \in Entry(code) /\ Current \in Entry(code) /\ Ordered(Current)
    BY <1>1, <1>4 DEF Timely
  <2>5. /\ rest.start = Current.end + 1 /\ rest.end = spill.end
        /\ rest.name = spill.name /\ rest.next = spill.next /\ rest.reg = spill.reg
    BY <2>4 DEF Entry, IntervalOf
  <2>6. /\ Current.end \in Positions(code) /\ spill.end \in Positions(code)
        /\ Current.start \in Positions(code) /\ Positions(code) = 1 .. Len(code)
        /\ Len(code) \in Nat
    BY <1>5, <2>4, EntryFields, PositionsOf
  <2>7. u = Handled' /\ pc' # "sort"
    BY <2>1 DEF Handled
  <2>8. CASE rest.end > rest.start
    <3>1. Current.end + 1 \in Positions(code) /\ Current.end + 1 <= spill.end
      BY <2>5, <2>6, <2>8
    <3>2. rest \in Timely(code)
      BY <1>4, <3>1, TimelyChanged
    <3>3. unhandled[u].start < rest.start
      BY <2>4, <2>5, <2>6 DEF Ordered, Current
    <3>. HIDE DEF rest
    <3>4. Lives(b, inactive, AddByStart(unhandled, rest), u)
      BY <1>1, <1>5, <2>3, <2>5, <3>2, <3>3, MadeUnhandled
    <3>. QED  BY <2>1, <2>7, <2>8, <3>4, LifeKept
  <2>9. CASE ~(rest.end > rest.start)
    <3>1. AddNextToInactive(inactive, rest) = AddNextToInactive(inactive, spill)
      <4>. HIDE DEF rest
      <4>. QED  BY <2>5 DEF AddNextToInactive, NextOf
    <3>2. Lives(b, AddNextToInactive(inactive, spill), unhandled, u)
      BY <1>4, <2>3, NextWaits
    <3>. QED  BY <2>1, <2>7, <2>9, <3>1, <3>2, LifeKept
  <2>. QED  BY <2>8, <2>9
<1>. QED  BY <1>6, <1>7

(* The interval that ends last gives its register and its place away, and  *)
(* what hangs behind it waits.                                             *)
LEMMA PlaceBySpillingLife ==
  ASSUME IInv, LifeInv, PlaceBySpilling
  PROVE  LifeInv'
<1> DEFINE spill  == Last(active)
           new    == [Current EXCEPT !.reg = spill.reg]
           others == Front(active)
           b      == AddToActive(others, new)
<1>0. Placing /\ active # <<>>
  BY DEF PlaceBySpilling
<1>1. /\ Current \in Timely(code)
      /\ Lives(active, inactive, unhandled, u)
      /\ Absent(Current.name, active, inactive, unhandled, u)
  BY <1>0, CurrentLeaves
<1>2. active \in Seq(Timely(code))
  BY <1>1 DEF Lives
<1>3. /\ Len(active) \in 1 .. Len(active) /\ spill = active[Len(active)]
      /\ others \in Seq(Timely(code)) /\ Without(others, active, Len(active))
  BY <1>0, <1>2, TakenOut
<1>4. spill \in Timely(code)
  BY <1>2, <1>3
<1>5. CASE ~MayAddToActive(others, new)
  BY <1>5, AbortLife DEF PlaceBySpilling
<1>6. CASE MayAddToActive(others, new)
  <2>1. /\ active' = b
        /\ inactive' = AddNextToInactive(inactive, spill)
        /\ pc' = "scan"
        /\ UNCHANGED <<code, unhandled, u>>
    BY <1>6 DEF PlaceBySpilling, routine, loops
  <2>. HIDE DEF spill, others
  <2>2. /\ Lives(others, inactive, unhandled, u)
        /\ Absent(spill.name, others, inactive, unhandled, u)
        /\ Absent(Current.name, others, inactive, unhandled, u)
        /\ spill.name # Current.name
    BY <1>1, <1>3, ActiveTaken
  <2>3. spill.reg \in Reg \cup {NoReg} /\ Current \in Entry(code)
    BY <1>1, <1>4, EntryFields DEF Timely
  <2>4. new \in Timely(code) /\ new.name = Current.name
    BY <1>1, <2>3, TimelyChanged DEF Entry, IntervalOf
  <2>. HIDE DEF new
  <2>5. Lives(b, inactive, unhandled, u) /\ Absent(spill.name, b, inactive, unhandled, u)
    BY <2>2, <2>4, MadeActive
  <2>. HIDE DEF b
  <2>6. Lives(b, AddNextToInactive(inactive, spill), unhandled, u)
    BY <1>4, <2>5, NextWaits
  <2>7. u = Handled' /\ pc' # "sort"
    BY <2>1 DEF Handled
  <2>. QED  BY <2>1, <2>6, <2>7, LifeKept
<1>. QED  BY <1>5, <1>6

(* An interval that is spilled itself: what hangs behind it is handled in  *)
(* its turn.                                                               *)
LEMMA PlaceInSlotLife ==
  ASSUME IInv, LifeInv, PlaceInSlot
  PROVE  LifeInv'
<1> DEFINE n == NextOf(Current)
<1>0. Placing
  BY DEF PlaceInSlot
<1>1. /\ Current \in Timely(code) /\ u \in 1 .. Len(unhandled)
      /\ Lives(active, inactive, unhandled, u)
      /\ Absent(Current.name, active, inactive, unhandled, u)
  BY <1>0, CurrentLeaves
<1>2. CASE active = <<>>
  BY <1>2, AbortLife DEF PlaceInSlot
<1>3. CASE active # <<>>
  <2>1. /\ unhandled' = IF Current.next = <<>> THEN unhandled ELSE AddByStart(unhandled, n)
        /\ pc' = "scan"
        /\ UNCHANGED <<code, active, inactive, u>>
    BY <1>3 DEF PlaceInSlot, routine, loops
  <2>2. u = Handled' /\ pc' # "sort"
    BY <2>1 DEF Handled
  <2>3. CASE Current.next = <<>>
    BY <1>1, <2>1, <2>2, <2>3, LifeKept
  <2>4. CASE Current.next # <<>>
    <3>1. n \in Timely(code) /\ n.name = Current.name /\ Current.end < n.start
      BY <1>1, <2>4, TimelyNext
    <3>2. Current \in Entry(code) /\ n \in Entry(code) /\ Current.start <= Current.end
      BY <1>1, <3>1 DEF Timely, Ordered
    <3>. HIDE DEF n
    <3>3. code \in Seq(Instruction)
      BY DEF IInv, SetsTyped
    <3>4. Current.start \in Nat /\ Current.end \in Nat /\ n.start \in Nat
      BY <3>2, <3>3, EntryFields, PositionsOf
    <3>5. unhandled[u].start < n.start
      BY <3>1, <3>2, <3>4 DEF Current
    <3>6. Lives(active, inactive, AddByStart(unhandled, n), u)
      BY <1>1, <3>1, <3>3, <3>5, MadeUnhandled
    <3>. QED  BY <2>1, <2>2, <2>4, <3>6, LifeKept
  <2>. QED  BY <2>3, <2>4
<1>. QED  BY <1>2, <1>3

(* A name whose address is taken loses its register, and what hangs behind *)
(* it is looked after no more.                                             *)
LEMMA ScanSpillLife ==
  ASSUME IInv, LifeInv, ScanSpill
  PROVE  LifeInv'
<1> DEFINE h == SpillHolder
<1>1. pc = "instr"
  BY DEF ScanSpill, AtSpill
<1>2. /\ active \in Seq(Timely(code)) /\ active \in Seq(Entry(code))
      /\ Lives(active, inactive, unhandled, Handled)
  BY <1>1, LifeFacts DEF IInv, SetsTyped
<1>3. h \in 1 .. Len(active)
  BY <1>2, SpillHolderHasName DEF ScanSpill
<1>4. CASE ~IsOfClass(active[h])
  BY <1>4, AbortLife DEF ScanSpill
<1>5. CASE IsOfClass(active[h])
  <2>1. /\ active' = RemoveAt(active, h) /\ pc' = "scan"
        /\ UNCHANGED <<code, unhandled, inactive, u, then>>
    BY <1>5 DEF ScanSpill, SpillDone, routine
  <2>. HIDE DEF h
  <2>2. RemoveAt(active, h) \in Seq(Timely(code)) /\ Without(RemoveAt(active, h), active, h)
    BY <1>2, <1>3, TakenOut
  <2>3. Lives(RemoveAt(active, h), inactive, unhandled, Handled)
    BY <1>2, <1>3, <2>2, ActiveTaken
  <2>4. Handled' = Handled /\ pc' # "sort"
    BY <1>1, <2>1 DEF Handled
  <2>. QED  BY <2>1, <2>3, <2>4, LifeKept
<1>. QED  BY <1>4, <1>5

(* The rounds that may fail and otherwise move only the control.           *)
LEMMA RoundLife ==
  ASSUME IInv, LifeInv, RenewLater \/ \E x \in Name : SetOperand(x)
  PROVE  LifeInv'
<1>1. CASE Abort
  BY <1>1, AbortLife
<1>2. CASE ~Abort
  <2>1. /\ UNCHANGED <<code, active, inactive, unhandled, u, then, pc>>
        /\ pc \in {"renew", "operands"}
    <3>1. CASE RenewLater
      BY <1>2, <3>1 DEF RenewLater, routine, sets
    <3>2. ASSUME NEW x \in Name, SetOperand(x)
          PROVE  /\ UNCHANGED <<code, active, inactive, unhandled, u, then, pc>>
                 /\ pc \in {"renew", "operands"}
      BY <1>2, <3>2 DEF SetOperand, routine, sets, loops
    <3>. QED  BY <3>1, <3>2
  <2>2. Handled' = Handled /\ pc # "abort" /\ pc' # "sort"
    BY <2>1 DEF Handled
  <2>. QED  BY <2>1, <2>2, QuietLife
<1>. QED  BY <1>1, <1>2

-----------------------------------------------------------------------------
(* The sort gives each name its place among the unhandled intervals.       *)

(* No name is in the empty set.                                            *)
LEMMA NoNames ==
  ASSUME NEW S
  PROVE  <<>> \in Seq(S) /\ OneEach(<<>>, 0) /\ NamesIn(<<>>, 0) = {}
BY DEF OneEach, NamesIn, NamesFrom, Distinct, Elements

(* AllocateRegisters has sorted the heads.                                 *)
LEMMA SortLife ==
  ASSUME IInv, LifeInv, SortIntervals
  PROVE  LifeInv'
<1> DEFINE lis == LiveIntervals(code, live_in, live_out)
           heads == Chains(lis)
<1>1. code \in Seq(Instruction) /\ N \in Nat
  BY DEF IInv, SetsTyped, N
<1>2. pc = "sort" /\ u = 1 /\ active = <<>> /\ inactive = <<>>
  BY DEF SortIntervals, IInv, AtWork, LifeInv, SortedFrom
<1>3. PartsApart(lis)
  BY <1>2, LivePartsApart DEF LifeInv, SortedFrom
<1>4. IsFiniteSet(lis) /\ lis \subseteq LiveInterval(code)
      /\ \A l, m \in lis : l.name = m.name /\ l.start = m.start => l = m
  BY <1>1, LiveIntervalsTyped
<1>5. unhandled' \in ByStart(heads)
  BY DEF SortIntervals
<1>. HIDE DEF lis
<1>6. /\ IsFiniteSet(heads) /\ heads \subseteq Timely(code) /\ heads \subseteq Entry(code)
      /\ \A c, d \in heads : c.name = d.name => c = d
  BY <1>1, <1>3, <1>4, ChainsTyped
<1>. HIDE DEF heads
<1>7. unhandled' \in Seq(heads) /\ Distinct(unhandled') /\ StartsSorted(unhandled')
  <2>1. \A iv \in heads : iv.start \in 1 .. N
    BY <1>1, <1>6, EntryFields, PositionsOf DEF N
  <2>. QED  BY <1>1, <1>5, <1>6, <2>1, ByStartTyped
<1> DEFINE w == unhandled'
<1>8. w \in Seq(Timely(code)) /\ Len(w) \in Nat /\ DOMAIN w = 1 .. Len(w)
      /\ \A j \in 1 .. Len(w) : w[j] \in heads
  BY <1>6, <1>7
<1>. HIDE DEF w
<1>9. OneEach(w, 0)
  <2>1. \A i, j \in 1 .. Len(w) : w[i].name = w[j].name => i = j
    BY <1>6, <1>7, <1>8 DEF Distinct, w
  <2>2. DOMAIN NamesFrom(w, 0) = 1 .. Len(w)
        /\ \A j \in 1 .. Len(w) : NamesFrom(w, 0)[j] = w[j].name
    BY <1>8 DEF NamesFrom
  <2>. QED  BY <2>1, <2>2 DEF OneEach, Distinct
<1>10. Lives(<<>>, <<>>, w, 0)
  BY <1>7, <1>8, <1>9, NoNames DEF Lives, w
<1>11. /\ active' = <<>> /\ inactive' = <<>> /\ code' = code
       /\ Handled' = 0 /\ pc' # "sort"
  BY <1>2 DEF SortIntervals, routine, loops, Handled
<1>. QED  BY <1>10, <1>11, LifeKept DEF w

(* The state that ComputeLiveness leaves.                                  *)
LEMMA InitLife == Init => LifeInv
<1> SUFFICES ASSUME Init  PROVE LifeInv
  OBVIOUS
<1>1. PICK r \in Routines :
        /\ code = r.code /\ args = r.args
        /\ live_in = LiveIn(r.code, r.args) /\ live_out = LiveOut(r.code, r.args)
        /\ unhandled = <<>> /\ active = <<>> /\ inactive = <<>>
        /\ u = 1 /\ pc = "sort"
  BY DEF Init
<1>2. SortedFrom
  BY <1>1, RoutineAssumption DEF SortedFrom
<1>3. Handled = 0
  BY <1>1 DEF Handled
<1>4. Lives(<<>>, <<>>, <<>>, 0)
  BY NoNames DEF Lives, StartsSorted
<1>. QED  BY <1>1, <1>2, <1>3, <1>4 DEF LifeInv

(* Every step keeps the names in one place each.                           *)
LEMMA NextLife == IInv /\ LifeInv /\ [Next]_vars => LifeInv'
<1> SUFFICES ASSUME IInv, LifeInv, [Next]_vars  PROVE LifeInv'
  OBVIOUS
<1>1. CASE SortIntervals
  BY <1>1, SortLife
<1>2. CASE \/ TakeInterval \/ TakeRest \/ ExpireDone \/ RenewDone \/ PlaceOwnEnding
           \/ Scan \/ ScanDone \/ ScanCall \/ ScanOther \/ OperandsSet \/ ScanSpillNop
  BY <1>2, ControlLife
<1>3. CASE Expire
  BY <1>3, ExpireLife
<1>4. CASE RenewLater \/ \E x \in Name : SetOperand(x)
  BY <1>4, RoundLife
<1>5. CASE RenewToSlot
  BY <1>5, RenewToSlotLife
<1>6. CASE RenewToRegister
  BY <1>6, RenewToRegisterLife
<1>7. CASE PlaceOwnFree \/ PlaceInFree
  BY <1>7, PlaceFreeLife
<1>8. CASE PlaceOwnSplit
  BY <1>8, PlaceOwnSplitLife
<1>9. CASE PlaceBySpilling
  BY <1>9, PlaceBySpillingLife
<1>10. CASE PlaceInSlot
  BY <1>10, PlaceInSlotLife
<1>11. CASE ScanSpill
  BY <1>11, ScanSpillLife
<1>12. CASE UNCHANGED vars
  BY <1>12 DEF vars, routine, sets, loops, LifeInv, Lives, Handled, SortedFrom
<1>. QED  BY <1>1, <1>2, <1>3, <1>4, <1>5, <1>6, <1>7, <1>8, <1>9, <1>10, <1>11, <1>12
          DEF Next

-----------------------------------------------------------------------------
(* No part of a life is handled twice.                                     *)

(* The parts of one interval have its name, and one ends before the next   *)
(* starts.                                                                 *)
LEMMA PartsOf ==
  ASSUME NEW P, NEW iv \in Timely(P), NEW d \in 0 .. Len(iv.next)
  PROVE  /\ Part(iv, d).name = iv.name
         /\ \A e \in 0 .. Len(iv.next) : d < e => Part(iv, d).end < Part(iv, e).start
<1>1. iv \in Entry(P) /\ Ordered(iv)
  BY DEF Timely
<1>2. iv.next \in Seq(Link(P))
  BY <1>1, EntryFields
<1>3. DOMAIN iv.next = 1 .. Len(iv.next) /\ Len(iv.next) \in Nat
  BY <1>2
<1> DEFINE n == Len(iv.next)
<1>4. /\ \A c \in 1 .. n : iv.next[c].name = iv.name /\ iv.end < iv.next[c].start
      /\ \A b, c \in 1 .. n : b < c => iv.next[b].end < iv.next[c].start
  BY <1>1, <1>3 DEF Ordered
<1>. HIDE DEF n
<1>5. ASSUME NEW c \in 0 .. n, c # 0  PROVE c \in 1 .. n
  BY <1>3, <1>5 DEF n
<1>6. ASSUME NEW e \in 0 .. n, d < e
      PROVE  Part(iv, d).end < Part(iv, e).start
  <2>1. e \in 1 .. n /\ e # 0
    BY <1>5, <1>6 DEF n
  <2>2. CASE d = 0
    BY <1>4, <2>1, <2>2 DEF Part
  <2>3. CASE d # 0
    BY <1>4, <1>5, <1>6, <2>1, <2>3 DEF Part, n
  <2>. QED  BY <2>2, <2>3
<1>7. Part(iv, d).name = iv.name
  BY <1>4, <1>5 DEF Part, n
<1>. QED  BY <1>6, <1>7 DEF n

(* The intervals behind the first h have different names.                  *)
LEMMA NamesDiffer ==
  ASSUME NEW s, NEW h, OneEach(s, h)
  PROVE  /\ \A i \in 1 .. Len(s) - h : s[i + h].name \in NamesIn(s, h)
         /\ \A i, j \in 1 .. Len(s) - h : s[i + h].name = s[j + h].name => i = j
BY DEF OneEach, NamesIn, NamesFrom, Distinct, Elements

(* Where the intervals of Waiting come from.                               *)
LEMMA WaitingIs ==
  ASSUME NEW S, active \in Seq(S), inactive \in Seq(S), unhandled \in Seq(S),
         u \in 1 .. Len(unhandled) + 1
  PROVE  /\ DOMAIN Waiting = 1 .. Len(active) + Len(inactive) + (Len(unhandled) - (u - 1))
         /\ \A m \in DOMAIN Waiting :
              \/ m \in 1 .. Len(active) /\ Waiting[m] = active[m]
              \/ m - Len(active) \in 1 .. Len(inactive)
                 /\ Waiting[m] = inactive[m - Len(active)]
              \/ m - Len(active) - Len(inactive) \in 1 .. Len(unhandled) - (u - 1)
                 /\ Waiting[m] = unhandled[(m - Len(active) - Len(inactive)) + (u - 1)]
<1> DEFINE la == Len(active)
           li == Len(inactive)
           lw == Len(unhandled) - (u - 1)
           rest == SubSeq(unhandled, u, Len(unhandled))
           both == active \o inactive
<1>1. la \in Nat /\ li \in Nat /\ lw \in Nat /\ u \in Nat /\ Len(unhandled) \in Nat
  OBVIOUS
<1>2. /\ rest \in Seq(S) /\ Len(rest) = lw
      /\ \A j \in 1 .. lw : rest[j] = unhandled[j + (u - 1)]
  <2>1. /\ rest \in Seq(S) /\ Len(rest) = Len(unhandled) - u + 1
        /\ \A j \in 1 .. Len(unhandled) - u + 1 : rest[j] = unhandled[u + j - 1]
    BY <1>1, SubSeqProperties
  <2>2. Len(unhandled) - u + 1 = lw /\ \A j \in 1 .. lw : u + j - 1 = j + (u - 1)
    BY <1>1
  <2>. QED  BY <2>1, <2>2
<1>3. /\ both \in Seq(S) /\ Len(both) = la + li
      /\ \A j \in 1 .. la + li : both[j] = IF j <= la THEN active[j] ELSE inactive[j - la]
  OBVIOUS
<1>4. Waiting = both \o rest
  BY DEF Waiting
<1>. HIDE DEF la, li, lw, rest, both
<1>5. /\ Waiting \in Seq(S) /\ Len(Waiting) = (la + li) + lw
      /\ \A j \in 1 .. (la + li) + lw :
           Waiting[j] = IF j <= la + li THEN both[j] ELSE rest[j - (la + li)]
  <2>1. both \in Seq(S) /\ rest \in Seq(S) /\ Len(both) = la + li /\ Len(rest) = lw
    BY <1>2, <1>3
  <2>2. /\ both \o rest \in Seq(S) /\ Len(both \o rest) = Len(both) + Len(rest)
        /\ \A j \in 1 .. Len(both) + Len(rest) :
             (both \o rest)[j] = IF j <= Len(both) THEN both[j] ELSE rest[j - Len(both)]
    BY ONLY <2>1, ConcatProperties, Zenon
  <2>3. Len(both) + Len(rest) = (la + li) + lw
    BY ONLY <2>1
  <2>. QED  BY ONLY <1>4, <2>1, <2>2, <2>3, Zenon
<1>6. DOMAIN Waiting = 1 .. la + li + lw
  BY <1>1, <1>5
<1>7. ASSUME NEW m \in 1 .. la + li + lw
      PROVE  \/ m \in 1 .. la /\ Waiting[m] = active[m]
             \/ m - la \in 1 .. li /\ Waiting[m] = inactive[m - la]
             \/ m - la - li \in 1 .. lw /\ Waiting[m] = unhandled[(m - la - li) + (u - 1)]
  <2>1. CASE m <= la
    <3>1. m \in 1 .. la /\ m \in 1 .. la + li /\ m <= la + li
      BY <1>1, <2>1
    <3>. QED  BY <1>3, <1>5, <2>1, <3>1
  <2>2. CASE ~(m <= la) /\ m <= la + li
    <3>1. m - la \in 1 .. li /\ m \in 1 .. la + li
      BY <1>1, <2>2
    <3>. QED  BY <1>3, <1>5, <2>2, <3>1
  <2>3. CASE ~(m <= la + li)
    <3>1. m - la - li \in 1 .. lw /\ m - (la + li) = m - la - li
      BY <1>1, <2>3
    <3>. QED  BY <1>2, <1>5, <2>3, <3>1
  <2>. QED  BY <1>1, <2>1, <2>2, <2>3
<1>. QED  BY <1>6, <1>7 DEF la, li, lw

(* Each name waits in one interval.                                        *)
LEMMA WaitsOnce ==
  ASSUME IInv, LifeInv, pc = "take"
  PROVE  /\ \A m \in DOMAIN Waiting : Waiting[m] \in Timely(code)
         /\ \A m, n \in DOMAIN Waiting : Waiting[m].name = Waiting[n].name => m = n
<1> DEFINE a == Len(active)
           b == Len(inactive)
           c == Len(unhandled) - (u - 1)
<1>1. /\ active \in Seq(Timely(code)) /\ inactive \in Seq(Timely(code))
      /\ unhandled \in Seq(Timely(code)) /\ u \in 1 .. Len(unhandled) + 1
      /\ OneEach(active, 0) /\ OneEach(inactive, 0) /\ OneEach(unhandled, u - 1)
      /\ NamesIn(active, 0) \cap NamesIn(inactive, 0) = {}
      /\ NamesIn(active, 0) \cap NamesIn(unhandled, u - 1) = {}
      /\ NamesIn(inactive, 0) \cap NamesIn(unhandled, u - 1) = {}
  BY DEF LifeInv, Lives, Handled, IInv, AtWork
<1>2. a \in Nat /\ b \in Nat /\ c \in Nat /\ u \in Nat
  BY <1>1
<1>3. /\ DOMAIN Waiting = 1 .. a + b + c
      /\ \A m \in 1 .. a + b + c :
           \/ m \in 1 .. a /\ Waiting[m] = active[m]
           \/ m - a \in 1 .. b /\ Waiting[m] = inactive[m - a]
           \/ m - a - b \in 1 .. c /\ Waiting[m] = unhandled[(m - a - b) + (u - 1)]
  BY <1>1, WaitingIs
<1>4. /\ \A i \in 1 .. a : active[i] \in Timely(code) /\ active[i].name \in NamesIn(active, 0)
      /\ \A i, j \in 1 .. a : active[i].name = active[j].name => i = j
  <2>1. a - 0 = a /\ \A i \in 1 .. a : i + 0 = i
    BY <1>2
  <2>2. /\ \A i \in 1 .. a : active[i].name \in NamesIn(active, 0)
        /\ \A i, j \in 1 .. a : active[i].name = active[j].name => i = j
    BY <1>1, <2>1, NamesDiffer
  <2>. QED  BY <1>1, <2>2
<1>5. /\ \A i \in 1 .. b : inactive[i] \in Timely(code) /\ inactive[i].name \in NamesIn(inactive, 0)
      /\ \A i, j \in 1 .. b : inactive[i].name = inactive[j].name => i = j
  <2>1. b - 0 = b /\ \A i \in 1 .. b : i + 0 = i
    BY <1>2
  <2>2. /\ \A i \in 1 .. b : inactive[i].name \in NamesIn(inactive, 0)
        /\ \A i, j \in 1 .. b : inactive[i].name = inactive[j].name => i = j
    BY <1>1, <2>1, NamesDiffer
  <2>. QED  BY <1>1, <2>2
<1>6. /\ \A i \in 1 .. c : /\ unhandled[i + (u - 1)] \in Timely(code)
                           /\ unhandled[i + (u - 1)].name \in NamesIn(unhandled, u - 1)
      /\ \A i, j \in 1 .. c : unhandled[i + (u - 1)].name = unhandled[j + (u - 1)].name => i = j
  <2>1. \A i \in 1 .. c : i + (u - 1) \in 1 .. Len(unhandled)
    BY <1>1
  <2>2. \A i \in 1 .. c : unhandled[i + (u - 1)] \in Timely(code)
    BY <1>1, <2>1
  <2>. QED  BY <1>1, <2>2, NamesDiffer
<1>. HIDE DEF a, b, c
<1>7. ASSUME NEW m \in 1 .. a + b + c  PROVE Waiting[m] \in Timely(code)
  BY <1>3, <1>4, <1>5, <1>6
<1>8. ASSUME NEW m \in 1 .. a + b + c, NEW n \in 1 .. a + b + c, Waiting[m].name = Waiting[n].name
      PROVE  m = n
  <2> DEFINE x == Waiting[m].name
  <2>1. x = Waiting[n].name
    BY <1>8
  <2>2. \/ m \in 1 .. a /\ x = active[m].name /\ x \in NamesIn(active, 0)
        \/ m - a \in 1 .. b /\ x = inactive[m - a].name /\ x \in NamesIn(inactive, 0)
        \/ /\ m - a - b \in 1 .. c /\ x = unhandled[(m - a - b) + (u - 1)].name
           /\ x \in NamesIn(unhandled, u - 1)
    BY <1>3, <1>4, <1>5, <1>6
  <2>3. \/ n \in 1 .. a /\ x = active[n].name /\ x \in NamesIn(active, 0)
        \/ n - a \in 1 .. b /\ x = inactive[n - a].name /\ x \in NamesIn(inactive, 0)
        \/ /\ n - a - b \in 1 .. c /\ x = unhandled[(n - a - b) + (u - 1)].name
           /\ x \in NamesIn(unhandled, u - 1)
    BY <1>3, <1>4, <1>5, <1>6, <2>1
  <2>. HIDE DEF x
  <2>4. m = n \/ m - a = n - a \/ m - a - b = n - a - b
    BY <1>1, <1>4, <1>5, <1>6, <2>2, <2>3
  <2>. QED  BY <1>2, <2>4
<1>. QED  BY <1>3, <1>7, <1>8

(* Different parts of an interval are apart, and those of different        *)
(* intervals have different names.                                         *)
LEMMA LivesApart == IInv /\ LifeInv => HandledOnce
<1> SUFFICES ASSUME IInv, LifeInv, pc = "take", NEW m \in DOMAIN Waiting, NEW n \in DOMAIN Waiting,
                    NEW d \in 0 .. Len(Waiting[m].next), NEW e \in 0 .. Len(Waiting[n].next),
                    Part(Waiting[m], d).name = Part(Waiting[n], e).name, m = n => d # e
             PROVE  Apart(Part(Waiting[m], d), Part(Waiting[n], e))
  BY DEF HandledOnce
<1>1. Waiting[m] \in Timely(code) /\ Waiting[n] \in Timely(code)
  BY WaitsOnce
<1>2. m = n
  <2>1. Part(Waiting[m], d).name = Waiting[m].name /\ Part(Waiting[n], e).name = Waiting[n].name
    BY <1>1, PartsOf
  <2>. QED  BY <2>1, WaitsOnce
<1>3. d < e \/ e < d
  BY <1>2
<1>4. CASE d < e
  BY <1>1, <1>2, <1>4, PartsOf DEF Apart
<1>5. CASE e < d
  BY <1>1, <1>2, <1>5, PartsOf DEF Apart
<1>. QED  BY <1>3, <1>4, <1>5

(* Each name is in one place, in each set its lives in order, on every run. *)
THEOREM LifeInvariance == Spec => []LifeInv
<1>1. Init => LifeInv
  BY InitLife
<1>2. IInv /\ LifeInv /\ [Next]_vars => LifeInv'
  BY NextLife
<1>. QED  BY <1>1, <1>2, Invariance, PTL DEF Spec

(* "This way we do not add it twice", for every routine: whatever splits,  *)
(* expiries, renewals and spills move between the sets, no part of a       *)
(* name's life is waiting, or handled, twice.                              *)
THEOREM NoPartTwice == Spec => []HandledOnce
BY Invariance, LifeInvariance, LivesApart, PTL

-----------------------------------------------------------------------------
(* No assertion of the scan fails as long as it passes over nothing.       *)

(* The intervals behind the first h.                                       *)
Later(s, h) == {s[j] : j \in h + 1 .. Len(s)}

(* The order that AddToSetSortedByEnd keeps.                               *)
EndsSorted(s) == \A m, n \in DOMAIN s : m < n => s[m].end <= s[n].end

(* Putting an interval into a set adds it and no other.                    *)
LEMMA WithElements ==
  ASSUME NEW S, NEW s \in Seq(S), NEW t \in Seq(S), NEW i \in 1 .. Len(s) + 1, NEW e,
         With(t, s, i, e)
  PROVE  Elements(t) = Elements(s) \cup {e}
<1>1. /\ Len(s) \in Nat /\ DOMAIN s = 1 .. Len(s) /\ DOMAIN t = 1 .. Len(s) + 1
      /\ \A j \in 1 .. Len(s) + 1 :
           t[j] = IF j < i THEN s[j] ELSE IF j = i THEN e ELSE s[j - 1]
  BY DEF With
<1> DEFINE n == Len(s)
<1>2. n \in Nat
  BY <1>1
<1>. HIDE DEF n
<1>3. ASSUME NEW j \in 1 .. n + 1  PROVE t[j] \in Elements(s) \cup {e}
  <2>1. CASE j < i
    <3>1. j \in 1 .. n
      BY <1>2, <2>1 DEF n
    <3>. QED  BY <1>1, <2>1, <3>1 DEF Elements, n
  <2>2. CASE j > i
    <3>1. j - 1 \in 1 .. n /\ ~(j < i) /\ j # i
      BY <1>2, <2>2 DEF n
    <3>. QED  BY <1>1, <3>1 DEF Elements, n
  <2>3. CASE j = i
    BY <1>1, <2>3 DEF n
  <2>. QED  BY <1>2, <2>1, <2>2, <2>3 DEF n
<1>4. ASSUME NEW j \in 1 .. n  PROVE s[j] \in Elements(t)
  <2>1. CASE j < i
    <3>1. j \in 1 .. n + 1 /\ t[j] = s[j]
      BY <1>1, <1>2, <2>1 DEF n
    <3>. QED  BY <1>1, <3>1 DEF Elements, n
  <2>2. CASE ~(j < i)
    <3>1. j + 1 \in 1 .. n + 1 /\ ~(j + 1 < i) /\ j + 1 # i /\ (j + 1) - 1 = j
      BY <1>2, <2>2 DEF n
    <3>2. t[j + 1] = s[j]
      BY <1>1, <3>1 DEF n
    <3>. QED  BY <1>1, <3>1, <3>2 DEF Elements, n
  <2>. QED  BY <2>1, <2>2
<1>5. e \in Elements(t)
  <2>1. t[i] = e /\ i \in DOMAIN t
    BY <1>1
  <2>. QED  BY <2>1 DEF Elements
<1>. QED  BY <1>1, <1>3, <1>4, <1>5 DEF Elements, n

(* Taking one out takes no other out.                                      *)
LEMMA WithoutElements ==
  ASSUME NEW S, NEW s \in Seq(S), NEW t \in Seq(S), NEW i \in 1 .. Len(s), Without(t, s, i)
  PROVE  Elements(t) \subseteq Elements(s) /\ Elements(s) \subseteq Elements(t) \cup {s[i]}
<1>1. /\ Len(s) \in Nat /\ DOMAIN s = 1 .. Len(s) /\ DOMAIN t = 1 .. Len(s) - 1
      /\ \A j \in 1 .. Len(s) - 1 : t[j] = IF j < i THEN s[j] ELSE s[j + 1]
  BY DEF Without
<1> DEFINE n == Len(s)
<1>2. n \in Nat /\ i \in 1 .. n
  BY <1>1
<1>. HIDE DEF n
<1>3. ASSUME NEW j \in 1 .. n - 1  PROVE t[j] \in Elements(s)
  <2>1. j \in 1 .. n /\ j + 1 \in 1 .. n
    BY <1>2
  <2>. QED  BY <1>1, <2>1 DEF Elements, n
<1>4. ASSUME NEW j \in 1 .. n, j # i  PROVE s[j] \in Elements(t)
  <2>1. CASE j < i
    <3>1. j \in 1 .. n - 1 /\ t[j] = s[j]
      BY <1>1, <1>2, <2>1 DEF n
    <3>. QED  BY <1>1, <3>1 DEF Elements, n
  <2>2. CASE ~(j < i)
    <3>1. j - 1 \in 1 .. n - 1 /\ ~(j - 1 < i) /\ (j - 1) + 1 = j
      BY <1>2, <1>4, <2>2
    <3>2. t[j - 1] = s[j]
      BY <1>1, <3>1 DEF n
    <3>. QED  BY <1>1, <3>1, <3>2 DEF Elements, n
  <2>. QED  BY <2>1, <2>2
<1>. QED  BY <1>1, <1>3, <1>4 DEF Elements, n

(* AddToSetSortedByEnd puts the interval in front of the first that does   *)
(* not end before it.                                                      *)
LEMMA EndPositionIs ==
  ASSUME NEW S, NEW set \in Seq(S), NEW iv
  PROVE  /\ EndPosition(set, iv) \in 1 .. Len(set) + 1
         /\ \A j \in 1 .. Len(set) : j < EndPosition(set, iv) => ~(iv.end <= set[j].end)
         /\ EndPosition(set, iv) <= Len(set) => iv.end <= set[EndPosition(set, iv)].end
<1> DEFINE I == {i \in 1 .. Len(set) : iv.end <= set[i].end}
           e == EndPosition(set, iv)
<1>1. Len(set) \in Nat /\ I \subseteq 1 .. Len(set)
  OBVIOUS
<1>2. e = LET p == IF I # {} THEN Min(I) ELSE 0 IN IF p = 0 THEN Len(set) + 1 ELSE p
  BY DEF EndPosition, SelectInSeq
<1>3. I # {} => Min(I) \in I /\ Min(I) \in 1 .. Len(set) /\ \A j \in I : Min(I) <= j
  <2>. HIDE DEF I
  <2>. QED  BY <1>1, FirstIndex
<1>4. /\ e \in 1 .. Len(set) + 1
      /\ e <= Len(set) => e \in I
      /\ \A j \in 1 .. Len(set) : j < e => j \notin I
  <2>. HIDE DEF I, e
  <2>. QED  BY <1>1, <1>2, <1>3
<1>. QED  BY <1>4

(* The active intervals with one more, still in the order of their ends.   *)
LEMMA ActiveAdded ==
  ASSUME NEW S, \A e \in S : e.end \in Nat, NEW set \in Seq(S), NEW iv \in S
  PROVE  /\ Elements(AddToActive(set, iv)) = Elements(set) \cup {iv}
         /\ EndsSorted(set) => EndsSorted(AddToActive(set, iv))
<1> DEFINE i == EndPosition(set, iv)
           t == AddToActive(set, iv)
           n == Len(set)
<1>1. /\ i \in 1 .. n + 1 /\ n \in Nat
      /\ \A j \in 1 .. n : j < i => ~(iv.end <= set[j].end)
      /\ i <= n => iv.end <= set[i].end
  BY EndPositionIs
<1>2. t \in Seq(S) /\ With(t, set, i, iv)
  BY <1>1, Inserted DEF AddToActive
<1>. HIDE DEF i, t
<1>3. Elements(t) = Elements(set) \cup {iv}
  BY <1>1, <1>2, WithElements
<1>4. ASSUME EndsSorted(set)  PROVE EndsSorted(t)
  <2>1. /\ DOMAIN t = 1 .. n + 1 /\ DOMAIN set = 1 .. n
        /\ \A j \in 1 .. n + 1 : t[j] = IF j < i THEN set[j] ELSE IF j = i THEN iv ELSE set[j - 1]
    BY <1>2 DEF With
  <2>2. \A j \in 1 .. n : set[j].end \in Nat
    OBVIOUS
  <2>3. iv.end \in Nat
    OBVIOUS
  <2>4. \A m, o \in 1 .. n : m < o => set[m].end <= set[o].end
    BY <1>4, <2>1 DEF EndsSorted
  <2>. HIDE DEF n
  <2>5. \A j \in 1 .. n : j >= i => iv.end <= set[j].end
    <3> SUFFICES ASSUME NEW j \in 1 .. n, j >= i  PROVE iv.end <= set[j].end
      OBVIOUS
    <3>1. i \in 1 .. n /\ iv.end <= set[i].end /\ (i = j \/ i < j)
      BY <1>1
    <3>2. set[i].end <= set[j].end
      BY <2>2, <2>4, <3>1
    <3>. QED  BY <2>2, <2>3, <3>1, <3>2
  <2>6. ASSUME NEW m \in 1 .. n + 1, NEW o \in 1 .. n + 1, m < o
        PROVE  t[m].end <= t[o].end
    <3>1. CASE m < i /\ o < i
      <4>1. m \in 1 .. n /\ o \in 1 .. n /\ t[m] = set[m] /\ t[o] = set[o]
        BY <1>1, <2>1, <3>1
      <4>. QED  BY <2>4, <2>6, <4>1
    <3>2. CASE m < i /\ o = i
      <4>1. m \in 1 .. n /\ t[m] = set[m] /\ t[o] = iv
        BY <1>1, <2>1, <3>2
      <4>. QED  BY <1>1, <2>2, <2>3, <3>2, <4>1
    <3>3. CASE m < i /\ o > i
      <4>1. /\ m \in 1 .. n /\ o - 1 \in 1 .. n /\ m < o - 1
            /\ t[m] = set[m] /\ t[o] = set[o - 1]
        BY <1>1, <2>1, <3>3
      <4>. QED  BY <2>4, <4>1
    <3>4. CASE m = i /\ o > i
      <4>1. o - 1 \in 1 .. n /\ o - 1 >= i /\ t[m] = iv /\ t[o] = set[o - 1]
        BY <1>1, <2>1, <3>4
      <4>. QED  BY <2>5, <4>1
    <3>5. CASE m > i
      <4>1. /\ m - 1 \in 1 .. n /\ o - 1 \in 1 .. n /\ m - 1 < o - 1
            /\ t[m] = set[m - 1] /\ t[o] = set[o - 1]
        BY <1>1, <2>1, <2>6, <3>5
      <4>. QED  BY <2>4, <4>1
    <3>. QED  BY <1>1, <2>6, <3>1, <3>2, <3>3, <3>4, <3>5
  <2>. QED  BY <2>1, <2>6 DEF EndsSorted
<1>. QED  BY <1>3, <1>4 DEF t

(* The active intervals with one less.                                     *)
LEMMA ActiveLess ==
  ASSUME NEW S, NEW s \in Seq(S), NEW t \in Seq(S), NEW i \in 1 .. Len(s), Without(t, s, i),
         EndsSorted(s)
  PROVE  EndsSorted(t)
<1>1. /\ Len(s) \in Nat /\ DOMAIN s = 1 .. Len(s) /\ DOMAIN t = 1 .. Len(s) - 1
      /\ \A j \in 1 .. Len(s) - 1 : t[j] = IF j < i THEN s[j] ELSE s[j + 1]
  BY DEF Without
<1> DEFINE n == Len(s)
           new(j) == IF j < i THEN j ELSE j + 1
<1>2. n \in Nat /\ i \in 1 .. n
  BY <1>1
<1>3. \A m, o \in 1 .. n : m < o => s[m].end <= s[o].end
  BY <1>1 DEF EndsSorted
<1>. HIDE DEF n
<1>4. \A j \in 1 .. n - 1 : new(j) \in 1 .. n /\ t[j] = s[new(j)]
  BY <1>1, <1>2 DEF n
<1>5. \A m, o \in 1 .. n - 1 : m < o => new(m) < new(o)
  BY <1>2
<1>. HIDE DEF new
<1>6. \A m, o \in 1 .. n - 1 : m < o => t[m].end <= t[o].end
  BY <1>3, <1>4, <1>5
<1>. QED  BY <1>1, <1>6 DEF EndsSorted, n

(* AddToSetSortedByEnd asserts nothing of an interval whose register none  *)
(* of the set has.                                                         *)
LEMMA MayAdd ==
  ASSUME NEW set, NEW iv, iv.reg \notin RegsIn(set)
  PROVE  MayAddToActive(set, iv)
BY DEF MayAddToActive, RegsIn

(* AddToSetSortedByStart adds the interval and no other, to what is behind *)
(* the first h too when these start before it.                             *)
LEMMA StartAdded ==
  ASSUME NEW S, NEW set \in Seq(S), NEW iv \in S
  PROVE  Elements(AddByStart(set, iv)) = Elements(set) \cup {iv}
BY AddedByStart, WithElements

(* An interval that starts after the h-th joins those behind it.           *)
LEMMA LaterAdded ==
  ASSUME NEW S, \A e \in S : e.start \in Nat, NEW w \in Seq(S), StartsSorted(w),
         NEW h \in 1 .. Len(w), NEW iv \in S, w[h].start < iv.start
  PROVE  /\ Later(AddByStart(w, iv), h) = Later(w, h) \cup {iv}
         /\ AddByStart(w, iv)[h] = w[h] /\ Len(AddByStart(w, iv)) = Len(w) + 1
<1> DEFINE t == AddByStart(w, iv)
           n == Len(w)
<1>1. t \in Seq(S) /\ Len(t) = n + 1 /\ n \in Nat /\ DOMAIN w = 1 .. n /\ h \in 1 .. n
  BY AddedByStart
<1>2. PICK i \in 1 .. n + 1 :
        /\ \A j \in 1 .. n : j < i => ~(iv.start <= w[j].start)
        /\ i <= n => iv.start <= w[i].start
        /\ With(t, w, i, iv)
  BY AddedByStart
<1>3. \A j \in 1 .. n + 1 : t[j] = IF j < i THEN w[j] ELSE IF j = i THEN iv ELSE w[j - 1]
  BY <1>2 DEF With
<1>4. \A j \in 1 .. n : w[j].start \in Nat
  OBVIOUS
<1>5. iv.start \in Nat
  OBVIOUS
<1>6. h < i
  <2>. SUFFICES ASSUME ~(h < i)  PROVE FALSE
    OBVIOUS
  <2>. HIDE DEF n, t
  <2>1. i \in 1 .. n /\ iv.start <= w[i].start /\ (i = h \/ i < h)
    BY <1>1, <1>2
  <2>2. CASE i = h
    BY <1>1, <1>2, <1>4, <1>5, <2>1, <2>2
  <2>3. CASE i < h
    <3>1. w[i].start <= w[h].start
      BY <1>1, <2>1, <2>3 DEF StartsSorted
    <3>. QED  BY <1>1, <1>4, <1>5, <2>1, <3>1
  <2>. QED  BY <2>1, <2>2, <2>3
<1>. HIDE DEF n, t
<1>7. ASSUME NEW j \in h + 1 .. n + 1  PROVE t[j] \in Later(w, h) \cup {iv}
  <2>1. CASE j < i
    <3>1. j \in h + 1 .. n /\ t[j] = w[j]
      BY <1>1, <1>2, <1>3, <2>1
    <3>. QED  BY <3>1 DEF Later, n
  <2>2. CASE j = i
    BY <1>1, <1>3, <2>2
  <2>3. CASE j > i
    <3>1. j - 1 \in h + 1 .. n /\ t[j] = w[j - 1]
      BY <1>1, <1>2, <1>3, <1>6, <2>3
    <3>. QED  BY <3>1 DEF Later, n
  <2>. QED  BY <1>1, <1>2, <2>1, <2>2, <2>3
<1>8. ASSUME NEW j \in h + 1 .. n  PROVE w[j] \in Later(t, h)
  <2>1. CASE j < i
    <3>1. j \in h + 1 .. n + 1 /\ t[j] = w[j]
      BY <1>1, <1>2, <1>3, <2>1
    <3>. QED  BY <1>1, <3>1 DEF Later
  <2>2. CASE ~(j < i)
    <3>1. j + 1 \in h + 1 .. n + 1 /\ j + 1 \in 1 .. n + 1 /\ ~(j + 1 < i) /\ j + 1 # i
          /\ (j + 1) - 1 = j
      BY <1>1, <1>2, <2>2
    <3>2. t[j + 1] = w[j]
      BY <1>3, <3>1
    <3>. QED  BY <1>1, <3>1, <3>2 DEF Later
  <2>. QED  BY <2>1, <2>2
<1>9. iv \in Later(t, h)
  <2>1. i \in h + 1 .. n + 1 /\ t[i] = iv
    BY <1>1, <1>2, <1>3, <1>6
  <2>. QED  BY <1>1, <2>1 DEF Later
<1>10. t[h] = w[h]
  BY <1>1, <1>3, <1>6
<1>. QED  BY <1>1, <1>7, <1>8, <1>9, <1>10 DEF Later, n, t

(* What the scan leaves of an instruction and of an interval of liveness:  *)
(* an operand replaced; a name that has a place for good.                  *)
ScannedIn(P, pl, p) == Operands(P[p]) \subseteq DOMAIN pl[p]

HasPlace(x, s) == FixedReg[x] # NoReg \/ x \in s

Settled(li, P, pl, s) ==
  HasPlace(li.name, s) \/ \A p \in li.start .. li.end : ScannedIn(P, pl, p)

(* The interval of an argument that has come in a register.                *)
Arrived(iv, a) ==
  iv.start = 1 /\ iv.name \in a /\ iv.reg = ArgReg[iv.name] /\ iv.reg # NoReg

(* The intervals of liveness.                                              *)
Lis == LiveIntervals(code, live_in, live_out)

(* The intervals that are active, inactive or behind the first h.          *)
Kept(a, i, w, h) == Elements(a) \cup Elements(i) \cup Later(w, h)

(* What expiring and renewing go on with: placing, or scanning.            *)
ToPlace == pc = "place" \/ (pc \in {"expire", "renew"} /\ then = "place")
ToScan  == pc \in {"instr", "operands"} \/ (pc \in {"expire", "renew"} /\ then = "instr")

(* The routine is the one that ComputeLiveness has analysed.               *)
GivenInv ==
  /\ Formed(code) /\ args \subseteq Name
  /\ live_in = LiveIn(code, args) /\ live_out = LiveOut(code, args)
  /\ Readable(code, args)
  /\ DOMAIN place = Positions(code)

(* The instruction at work and the starts of the intervals: the scan stops *)
(* where the next one starts, and what waits behind it has a slot or       *)
(* starts later still.                                                     *)
ClockInv ==
  /\ idx \in Nat \ {0} /\ limit \in 1 .. N + 1 /\ last_start \in Nat \ {0}
  /\ pc = "sort" => idx = 1
  /\ pc \in {"sort", "take"} => last_start <= idx
  /\ u <= Len(unhandled) /\ pc \notin {"sort", "take"} => unhandled[u].start <= idx
  /\ ToPlace => /\ idx = unhandled[u].start
                /\ u < Len(unhandled) => limit = unhandled[u + 1].start
  /\ ToScan => idx < limit
  /\ pc = "scan" \/ ToScan =>
       \A iv \in Later(unhandled, u) : iv.name \in slots \/ limit <= iv.start

(* The active intervals end no sooner than just before the instruction at  *)
(* work, and no sooner than at it once the old ones have expired.          *)
EndsInv ==
  /\ EndsSorted(active)
  /\ \A iv \in Elements(active) : idx <= iv.end + 1
  /\ pc \in {"renew", "place", "instr", "operands"} =>
       \A iv \in Elements(active) : idx <= iv.end

(* The inactive ones have registers and start no sooner than at the        *)
(* instruction at work, and later once those that start at it are renewed. *)
StartsInv ==
  /\ \A iv \in Elements(inactive) : idx <= iv.start /\ iv.reg \in Reg
  /\ pc = "renew" => \A m \in 1 .. Len(inactive) : m < k => idx < inactive[m].start
  /\ pc \in {"place", "instr", "operands"} =>
       \A iv \in Elements(inactive) : idx < iv.start

(* While the arguments in registers are entered, at the first instruction, *)
(* only arguments are active.                                              *)
Entering ==
  /\ inactive = <<>> /\ idx = 1
  /\ Handled = u => limit = 1
  /\ \A iv \in Elements(active) : iv.name \in args /\ iv.reg = ArgReg[iv.name]

(* An interval that waits has no register, one that is its name's own, or  *)
(* the one that its argument comes in; the last come before all the        *)
(* others.                                                                 *)
EntryInv ==
  /\ \A iv \in Later(unhandled, Handled) :
       HasPlace(iv.name, slots) \/ iv.reg = NoReg \/ Arrived(iv, args)
  /\ \A j \in Handled + 1 .. Len(unhandled) :
       Arrived(unhandled[j], args) =>
         Entering /\ \A m \in Handled + 1 .. j : Arrived(unhandled[m], args)

(* Every instruction in front of the one at work has been scanned, and     *)
(* every interval of liveness is settled or held by one that is kept.      *)
CoverInv ==
  /\ \A p \in Positions(code) : p < idx => ScannedIn(code, place, p)
  /\ pc # "sort" =>
       \A li \in Lis : \/ Settled(li, code, place, slots)
                       \/ \E iv \in Kept(active, inactive, unhandled, Handled) : Holds(iv, li)
  /\ pc = "take" /\ u = 1 =>
       /\ active = <<>> /\ inactive = <<>>
       /\ \A li \in Lis : \E iv \in Elements(unhandled) : Holds(iv, li)

(* What holds as long as no instruction has been passed over.              *)
Safe == pc # "abort" /\ GivenInv /\ ClockInv /\ EndsInv /\ StartsInv /\ EntryInv /\ CoverInv

(* The intervals in the sets lie within the code and end no sooner than    *)
(* they start.                                                             *)
LEMMA Facts ==
  ASSUME IInv, LifeInv, pc # "abort"
  PROVE  /\ code \in Seq(Instruction) /\ N \in Nat /\ Positions(code) = 1 .. N /\ N = Len(code)
         /\ u \in 1 .. Len(unhandled) + 1 /\ k \in Nat \ {0} /\ then \in {"place", "instr"}
         /\ Len(unhandled) \in Nat /\ Len(active) \in Nat /\ Len(inactive) \in Nat
         /\ active \in Seq(Timely(code)) /\ inactive \in Seq(Timely(code))
         /\ unhandled \in Seq(Timely(code))
         /\ StartsSorted(unhandled)
         /\ slots \subseteq Name
BY LifeFacts, PositionsOf DEF IInv, SetsTyped, AtWork, N, Lives

(* The fields of such an interval.                                         *)
LEMMA TimelyFields ==
  ASSUME code \in Seq(Instruction), NEW iv \in Timely(code)
  PROVE  /\ iv \in Entry(code) /\ iv.name \in Name
         /\ iv.start \in 1 .. N /\ iv.end \in 1 .. N /\ iv.start <= iv.end
         /\ iv.reg \in Reg \cup {NoReg}
         /\ iv.next \in Seq(Link(code)) /\ ClassOf[iv.name] \in Class
BY EntryFields, PositionsOf DEF Timely, Ordered, N

(* The rounds that move only the control.                                  *)
LEMMA MovesSafe ==
  ASSUME IInv, LifeInv, Safe,
         ExpireDone \/ RenewDone \/ Scan \/ ScanDone \/ ScanCall \/ ScanOther
  PROVE  Safe'
<1>0. /\ u \in Nat \ {0} /\ then \in {"place", "instr"} /\ pc # "abort"
      /\ k \in Nat \ {0} /\ Len(inactive) \in Nat /\ Len(active) \in Nat
      /\ active \in Seq(Timely(code)) /\ code \in Seq(Instruction) /\ N \in Nat
      /\ u + 1 # 1 /\ (u + 1) - 1 = u
  BY Facts, HandledIs DEF Safe
<1>1. /\ UNCHANGED <<code, args, live_in, live_out, active, inactive, unhandled, slots, place>>
      /\ UNCHANGED <<idx, limit>>
  BY DEF ExpireDone, RenewDone, Scan, ScanDone, ScanCall, ScanOther, routine, sets, emitted, loops
<1>2. /\ Handled' = Handled /\ pc' # "abort" /\ pc' # "sort" /\ pc # "sort"
      /\ ~(pc' = "take" /\ u' = 1) /\ (Handled' = u' => Handled = u)
  <2>1. CASE ExpireDone
    BY <1>0, <2>1 DEF ExpireDone, Handled, Safe, CoverInv
  <2>2. CASE RenewDone
    BY <1>0, <2>2 DEF RenewDone, Handled, loops
  <2>3. CASE Scan
    BY <1>0, <2>3 DEF Scan, Handled
  <2>4. CASE ScanDone
    BY <1>0, <2>4 DEF ScanDone, Handled
  <2>5. CASE ScanCall
    BY <1>0, <2>5 DEF ScanCall, Handled, loops
  <2>6. CASE ScanOther
    BY <1>0, <2>6 DEF ScanOther, Handled, loops
  <2>. QED  BY <2>1, <2>2, <2>3, <2>4, <2>5, <2>6
<1>3. GivenInv'
  BY <1>1 DEF Safe, GivenInv
<1>4. CoverInv'
  BY <1>1, <1>2 DEF Safe, CoverInv, Lis
<1>5. EntryInv'
  BY <1>1, <1>2 DEF Safe, EntryInv, Entering
<1>6. ClockInv'
  <2>1. CASE ExpireDone
    BY <1>1, <2>1 DEF ExpireDone, Safe, ClockInv, ToPlace, ToScan, N
  <2>2. CASE RenewDone
    BY <1>0, <1>1, <2>2 DEF RenewDone, Safe, ClockInv, ToPlace, ToScan, loops, N
  <2>3. CASE Scan
    BY <1>1, <2>3 DEF Scan, Safe, ClockInv, ToPlace, ToScan, N
  <2>4. CASE ScanDone
    <3>1. last_start' \in Nat \ {0}
      <4>1. CASE u <= Len(unhandled)
        <5>1. unhandled \in Seq(Timely(code)) /\ Len(unhandled) \in Nat
          BY Facts DEF Safe
        <5>2. unhandled[u] \in Timely(code)
          BY <1>0, <4>1, <5>1
        <5>. QED  BY <1>0, <2>4, <4>1, <5>2, TimelyFields DEF ScanDone, Current
      <4>2. CASE ~(u <= Len(unhandled))
        BY <2>4, <4>2 DEF ScanDone, Safe, ClockInv
      <4>. QED  BY <4>1, <4>2
    <3>2. pc = "scan" /\ pc' \in {"take", "done"} /\ (pc' = "done" => u' = u)
          /\ (pc' = "take" => u <= Len(unhandled) /\ last_start' = unhandled[u].start)
      BY <2>4 DEF ScanDone, Current
    <3>. QED  BY <1>0, <1>1, <3>1, <3>2 DEF Safe, ClockInv, ToPlace, ToScan, N
  <2>5. CASE ScanCall
    BY <1>0, <1>1, <2>5 DEF ScanCall, Safe, ClockInv, ToPlace, ToScan, loops, N
  <2>6. CASE ScanOther
    BY <1>0, <1>1, <2>6 DEF ScanOther, Safe, ClockInv, ToPlace, ToScan, loops, N
  <2>. QED  BY <2>1, <2>2, <2>3, <2>4, <2>5, <2>6
<1>7. EndsInv'
  <2>1. CASE ExpireDone
    <3>1. active # <<>> => ~(active[1].end < idx)
      BY <2>1 DEF ExpireDone, Expired
    <3>2. ASSUME NEW m \in 1 .. Len(active)  PROVE idx <= active[m].end
      <4>1. 1 \in 1 .. Len(active) /\ active # <<>> /\ DOMAIN active = 1 .. Len(active)
        BY <1>0, <3>2
      <4>2. active[1] \in Timely(code) /\ active[m] \in Timely(code)
        BY <1>0, <4>1
      <4>3. active[1].end \in 1 .. N /\ active[m].end \in 1 .. N
        BY <1>0, <4>2, TimelyFields
      <4>4. m = 1 \/ 1 < m
        BY <1>0
      <4>5. idx \in Nat
        BY DEF Safe, ClockInv
      <4>6. active[1].end <= active[m].end
        BY <4>1, <4>3, <4>4 DEF Safe, EndsInv, EndsSorted
      <4>. QED  BY <1>0, <3>1, <4>1, <4>3, <4>5, <4>6
    <3>3. \A iv \in Elements(active) : idx <= iv.end
      BY <1>0, <3>2 DEF Elements
    <3>. QED  BY <1>1, <3>3 DEF Safe, EndsInv
  <2>2. CASE ~ExpireDone
    <3>1. pc' \in {"renew", "place", "instr", "operands"}
             => pc \in {"renew", "place", "instr", "operands"}
      BY <2>2 DEF RenewDone, Scan, ScanDone, ScanCall, ScanOther
    <3>. QED  BY <1>1, <3>1 DEF Safe, EndsInv
  <2>. QED  BY <2>1, <2>2
<1>8. StartsInv'
  <2>1. CASE ExpireDone
    <3>1. k' = 1 /\ pc' = "renew"
      BY <2>1 DEF ExpireDone
    <3>. QED  BY <1>1, <3>1 DEF Safe, StartsInv
  <2>2. CASE RenewDone
    <3>1. pc' # "renew" /\ pc = "renew" /\ k > Len(inactive)
      BY <1>0, <2>2 DEF RenewDone
    <3>2. \A m \in 1 .. Len(inactive) : idx < inactive[m].start
      BY <1>0, <3>1 DEF Safe, StartsInv
    <3>3. \A iv \in Elements(inactive) : idx < iv.start
      <4>1. inactive \in Seq(Timely(code))
        BY Facts DEF Safe
      <4>. QED  BY <3>2, <4>1 DEF Elements
    <3>. QED  BY <1>1, <3>1, <3>3 DEF Safe, StartsInv
  <2>3. CASE ~ExpireDone /\ ~RenewDone
    <3>1. /\ pc' # "renew"
          /\ pc' \in {"place", "instr", "operands"} => pc \in {"place", "instr", "operands"}
      BY <2>3 DEF Scan, ScanDone, ScanCall, ScanOther
    <3>. QED  BY <1>1, <3>1 DEF Safe, StartsInv
  <2>. QED  BY <2>1, <2>2, <2>3
<1>. QED  BY <1>2, <1>3, <1>4, <1>5, <1>6, <1>7, <1>8 DEF Safe

(* A live interval that an interval holds is the interval itself or begins *)
(* behind it, and then what hangs behind the interval holds it.            *)
LEMMA HeldFrom ==
  ASSUME code \in Seq(Instruction), NEW iv \in Timely(code), NEW li, Holds(iv, li)
  PROVE  /\ iv.name = li.name
         /\ \/ iv.start = li.start /\ iv.end = li.end
            \/ iv.next # <<>> /\ Holds(NextOf(iv), li)
         /\ li.start \in 1 .. N /\ li.end \in 1 .. N /\ iv.start <= li.start
<1>1. /\ iv.start \in 1 .. N /\ iv.end \in 1 .. N /\ iv.start <= iv.end
      /\ iv.next \in Seq(Link(code)) /\ N \in Nat
  BY TimelyFields, PositionsOf DEF N
<1>2. CASE iv.start = li.start /\ iv.end = li.end
  BY <1>1, <1>2 DEF Holds
<1>3. CASE \E c \in DOMAIN iv.next : iv.next[c].start = li.start /\ iv.next[c].end = li.end
  <2>1. PICK c \in DOMAIN iv.next : iv.next[c].start = li.start /\ iv.next[c].end = li.end
    BY <1>3
  <2> DEFINE s == iv.next
             n == Len(s)
             e == NextOf(iv)
  <2>2. s \in Seq(Link(code)) /\ n \in Nat /\ DOMAIN s = 1 .. n /\ c \in 1 .. n /\ s # <<>>
    BY <1>1, <2>1
  <2>3. s[c] \in Link(code) /\ s[1] \in Link(code) /\ 1 \in 1 .. n /\ iv.end < s[c].start
    BY <2>2 DEF Timely, Ordered
  <2>4. s[c].start \in 1 .. N /\ s[c].end \in 1 .. N
    BY <2>3, PositionsOf DEF Link, IntervalOf, N
  <2>5. /\ e.start = s[1].start /\ e.end = s[1].end /\ e.next = Tail(s)
    BY <2>2, <2>3 DEF NextOf, Link, IntervalOf
  <2>6. /\ Len(Tail(s)) = n - 1 /\ DOMAIN Tail(s) = 1 .. n - 1
        /\ \A d \in 1 .. n - 1 : Tail(s)[d] = s[d + 1]
    BY <2>2
  <2>7. e.name = iv.name
    BY <2>2, TimelyNext
  <2>8. iv.name = li.name
    BY DEF Holds
  <2>. HIDE DEF s, e, n
  <2>9. CASE c = 1
    <3>1. Holds(e, li)
      BY <2>1, <2>5, <2>7, <2>8, <2>9 DEF Holds, s
    <3>. QED  BY <1>1, <2>1, <2>2, <2>3, <2>4, <2>8, <3>1 DEF s, e
  <2>10. CASE c # 1
    <3>1. c - 1 \in 1 .. n - 1 /\ (c - 1) + 1 = c
      BY <2>2, <2>10
    <3>2. Holds(e, li)
      <4>1. e.next[c - 1] = s[c] /\ c - 1 \in DOMAIN e.next
        BY <2>5, <2>6, <3>1
      <4>. QED  BY <2>1, <2>7, <2>8, <4>1 DEF Holds, s
    <3>. QED  BY <1>1, <2>1, <2>2, <2>3, <2>4, <2>8, <3>2 DEF s, e
  <2>. QED  BY <2>9, <2>10
<1>. QED  BY <1>2, <1>3 DEF Holds

(* Every operand of the routine is covered by a live interval.             *)
LEMMA OperandIsLive ==
  ASSUME GivenInv, NEW p \in Positions(code), NEW x \in Operands(code[p])
  PROVE  x \in Name /\ \E li \in Lis : li.name = x /\ li.start <= p /\ p <= li.end
<1>1. p \in Reachable(code) /\ Uses(code[1]) \subseteq args
  BY DEF GivenInv, Readable
<1>. QED  BY <1>1, OperandCovered DEF GivenInv, Lis

(* The next interval is taken.  Nothing can have been passed over by the   *)
(* first: every operand is in or behind some head.                         *)
LEMMA TakeIntervalSafe ==
  ASSUME IInv, LifeInv, Safe, TakeInterval, ~passed'
  PROVE  Safe'
<1> DEFINE start == unhandled[u].start
<1>0. /\ u \in Nat \ {0} /\ u <= Len(unhandled) /\ u \in 1 .. Len(unhandled)
      /\ N \in Nat /\ code \in Seq(Instruction) /\ pc = "take"
      /\ unhandled \in Seq(Timely(code)) /\ StartsSorted(unhandled)
      /\ Len(unhandled) \in Nat /\ DOMAIN unhandled = 1 .. Len(unhandled)
      /\ u + 1 # 1 /\ (u - 1) + 1 = u /\ u - 1 # u /\ Positions(code) = 1 .. N
  BY Facts, HandledIs DEF Safe, TakeInterval
<1>1. /\ UNCHANGED <<code, args, live_in, live_out, active, inactive, unhandled, slots, place>>
      /\ UNCHANGED <<u, last_start>> /\ then' = "place" /\ pc' = "expire"
      /\ limit' = IF u < Len(unhandled) THEN unhandled[u + 1].start ELSE unhandled[u].end
      /\ idx' = start
  BY DEF TakeInterval, routine, sets, emitted, Current
<1>2. \A j \in 1 .. Len(unhandled) : /\ unhandled[j] \in Timely(code)
                                    /\ unhandled[j].start \in 1 .. N
                                    /\ unhandled[j].end \in 1 .. N
  BY <1>0, TimelyFields
<1>3. idx \in Nat \ {0} /\ start \in 1 .. N
  BY <1>0, <1>2 DEF Safe, ClockInv
<1>4. u = 1 \/ start <= idx
  <2>1. ~(u > 1 /\ idx < start)
    BY DEF TakeInterval, Current
  <2>. QED  BY <1>0, <1>3, <2>1
<1>5. u = 1 => active = <<>> /\ inactive = <<>>
  BY <1>0 DEF Safe, CoverInv
<1>6. Handled' = Handled /\ Handled = u - 1
  BY <1>0, <1>1 DEF Handled
<1>7. GivenInv'
  BY <1>1 DEF Safe, GivenInv
<1>8. ASSUME NEW p \in Positions(code), p < start
      PROVE  ScannedIn(code, place, p)
  <2>1. CASE start <= idx
    BY <1>0, <1>3, <1>8, <2>1 DEF Safe, CoverInv
  <2>2. CASE u = 1
    <3>1. SUFFICES ASSUME NEW x \in Operands(code[p])  PROVE FALSE
      BY DEF ScannedIn
    <3>2. PICK li \in Lis : li.name = x /\ li.start <= p
      BY OperandIsLive DEF Safe
    <3>3. PICK j \in DOMAIN unhandled : Holds(unhandled[j], li)
      BY <1>0, <2>2 DEF Safe, CoverInv, Elements
    <3>4. unhandled[j].start <= li.start /\ li.start \in 1 .. N
      BY <1>0, <1>2, <3>3, HeldFrom
    <3>5. start <= unhandled[j].start
      <4>1. j = u \/ u < j
        BY <1>0, <2>2
      <4>2. CASE j = u
        BY <1>3, <4>2
      <4>3. CASE u < j
        BY <1>0, <4>3 DEF StartsSorted
      <4>. QED  BY <4>1, <4>2, <4>3
    <3>6. p \in Nat /\ unhandled[j].start \in Nat
      BY <1>0, <1>2
    <3>. HIDE DEF start
    <3>. QED  BY <1>3, <1>8, <3>2, <3>4, <3>5, <3>6
  <2>. QED  BY <1>4, <2>1, <2>2
<1>9. CoverInv'
  <2>. HIDE DEF start
  <2>. QED  BY <1>0, <1>1, <1>6, <1>8 DEF Safe, CoverInv, Lis
<1>10. EntryInv'
  <2>1. ASSUME NEW j \in u .. Len(unhandled), Arrived(unhandled[j], args)
        PROVE  Entering' /\ \A m \in u .. j : Arrived(unhandled[m], args)
    <3>1. Entering /\ \A m \in u .. j : Arrived(unhandled[m], args)
      BY <1>0, <1>6, <2>1 DEF Safe, EntryInv
    <3>2. Arrived(unhandled[u], args)
      BY <1>0, <3>1
    <3>3. start = 1
      BY <3>2 DEF Arrived
    <3>. HIDE DEF start
    <3>. QED  BY <1>0, <1>1, <1>6, <3>1, <3>3 DEF Entering
  <2>2. \A iv \in Later(unhandled, Handled)' :
          HasPlace(iv.name, slots) \/ iv.reg = NoReg \/ Arrived(iv, args)
    BY <1>1, <1>6 DEF Safe, EntryInv
  <2>. QED  BY <1>0, <1>1, <1>6, <2>1, <2>2 DEF EntryInv
<1>11. ClockInv'
  <2>1. limit' \in 1 .. N + 1
    BY <1>0, <1>1, <1>2
  <2>2. N' = N
    BY <1>1 DEF N
  <2>. QED  BY <1>0, <1>1, <1>3, <2>1, <2>2 DEF Safe, ClockInv, ToPlace, ToScan
<1>12. EndsInv'
  <2>1. CASE u = 1
    BY <1>1, <1>5, <2>1 DEF EndsInv, EndsSorted, Elements
  <2>2. CASE start <= idx
    <3>1. active \in Seq(Timely(code))
      BY Facts DEF Safe
    <3>2. ASSUME NEW iv \in Elements(active)  PROVE start <= iv.end + 1
      <4>1. iv.end \in 1 .. N
        BY <1>0, <3>1, TimelyFields DEF Elements
      <4>. HIDE DEF start
      <4>. QED  BY <1>3, <2>2, <4>1 DEF Safe, EndsInv
    <3>. HIDE DEF start
    <3>. QED  BY <1>1, <3>2 DEF Safe, EndsInv
  <2>. QED  BY <1>4, <2>1, <2>2
<1>13. StartsInv'
  <2>1. CASE u = 1
    BY <1>1, <1>5, <2>1 DEF StartsInv, Elements
  <2>2. CASE start <= idx
    <3>1. inactive \in Seq(Timely(code))
      BY Facts DEF Safe
    <3>2. ASSUME NEW iv \in Elements(inactive)  PROVE start <= iv.start /\ iv.reg \in Reg
      <4>1. iv.start \in 1 .. N
        BY <1>0, <3>1, TimelyFields DEF Elements
      <4>. HIDE DEF start
      <4>. QED  BY <1>3, <2>2, <4>1 DEF Safe, StartsInv
    <3>. HIDE DEF start
    <3>. QED  BY <1>1, <3>2 DEF Safe, StartsInv
  <2>. QED  BY <1>4, <2>1, <2>2
<1>. HIDE DEF start
<1>. QED  BY <1>1, <1>7, <1>9, <1>10, <1>11, <1>12, <1>13 DEF Safe

(* When none is left the scan goes back to the last one taken.             *)
LEMMA TakeRestSafe ==
  ASSUME IInv, LifeInv, Safe, TakeRest
  PROVE  Safe'
<1>0. /\ u \in Nat \ {0} /\ u > Len(unhandled) /\ u - 1 >= Len(unhandled)
      /\ N \in Nat /\ code \in Seq(Instruction) /\ pc = "take"
      /\ Len(unhandled) \in Nat /\ (u - 1) + 1 = u /\ Positions(code) = 1 .. N
      /\ active \in Seq(Timely(code)) /\ inactive \in Seq(Timely(code))
  BY Facts, HandledIs DEF Safe, TakeRest
<1>1. /\ UNCHANGED <<code, args, live_in, live_out, active, inactive, unhandled, slots, place>>
      /\ UNCHANGED <<u, last_start, then>> /\ pc' = "scan"
      /\ limit' = N + 1 /\ idx' = last_start
  BY DEF TakeRest, routine, sets, emitted
<1>2. idx \in Nat \ {0} /\ last_start \in Nat \ {0} /\ last_start <= idx
  BY <1>0 DEF Safe, ClockInv
<1>3. Later(unhandled, Handled) = {} /\ Later(unhandled', Handled') = {}
      /\ Handled' + 1 > Len(unhandled')
  BY <1>0, <1>1 DEF Later, Handled
<1>4. \A iv \in Elements(active) \cup Elements(inactive) :
        iv.start \in 1 .. N /\ iv.end \in 1 .. N
  BY <1>0, TimelyFields DEF Elements
<1>5. GivenInv'
  BY <1>1 DEF Safe, GivenInv
<1>6. CoverInv'
  BY <1>0, <1>1, <1>2, <1>3 DEF Safe, CoverInv, Lis, Kept
<1>7. EntryInv'
  BY <1>0, <1>1, <1>3 DEF EntryInv, Handled
<1>8. ClockInv'
  <2>1. N' = N /\ N + 1 \in 1 .. N + 1
    BY <1>0, <1>1 DEF N
  <2>2. Later(unhandled, u) = {}
    BY <1>0 DEF Later
  <2>. QED  BY <1>0, <1>1, <1>2, <2>1, <2>2 DEF ClockInv, ToPlace, ToScan
<1>9. EndsInv'
  BY <1>0, <1>1, <1>2, <1>4 DEF Safe, EndsInv
<1>10. StartsInv'
  BY <1>0, <1>1, <1>2, <1>4 DEF Safe, StartsInv
<1>. QED  BY <1>1, <1>5, <1>6, <1>7, <1>8, <1>9, <1>10 DEF Safe

(* With one class every register is of it.                                 *)
LEMMA RegOfClass ==
  ASSUME Placeable, NEW r \in Reg, NEW c \in Class
  PROVE  r \in Pool!RegsOf(c)
BY DEF Placeable, Reg, Pool!Reg

(* The active intervals have registers.                                    *)
LEMMA ActiveReg ==
  ASSUME IInv, NEW iv \in Elements(active)
  PROVE  iv.reg \in Reg /\ iv.reg \in Held
BY DEF IInv, PoolKept, Held, Elements

(* Changing the register of an interval changes nothing that it holds.     *)
LEMMA RegHolds ==
  ASSUME NEW P, NEW iv \in Entry(P), NEW r
  PROVE  LET new == [iv EXCEPT !.reg = r]
         IN  /\ new.name = iv.name /\ new.start = iv.start /\ new.end = iv.end
             /\ new.next = iv.next /\ new.reg = r
             /\ \A li : Holds(iv, li) => Holds(new, li)
<1> DEFINE new == [iv EXCEPT !.reg = r]
<1>1. /\ new.name = iv.name /\ new.start = iv.start /\ new.end = iv.end
      /\ new.next = iv.next /\ new.reg = r
  BY DEF Entry, IntervalOf
<1>. HIDE DEF new
<1>2. \A li : Holds(iv, li) => Holds(new, li)
  BY <1>1 DEF Holds
<1>. QED  BY <1>1, <1>2 DEF new

(* What hangs behind an interval waits in its register, and starts after   *)
(* it.                                                                     *)
LEMMA NextWaiting ==
  ASSUME code \in Seq(Instruction), NEW i \in Seq(Timely(code)), NEW iv \in Timely(code)
  PROVE  /\ Elements(i) \subseteq Elements(AddNextToInactive(i, iv))
         /\ \A e \in Elements(AddNextToInactive(i, iv)) :
              e \in Elements(i) \/ (e.reg = iv.reg /\ iv.end < e.start)
         /\ \A li : Holds(iv, li) =>
              \/ iv.start = li.start /\ iv.end = li.end
              \/ \E e \in Elements(AddNextToInactive(i, iv)) : Holds(e, li)
<1>1. CASE iv.next = <<>>
  <2>1. AddNextToInactive(i, iv) = i
    BY <1>1 DEF AddNextToInactive
  <2>. QED  BY <1>1, <2>1, HeldFrom
<1>2. CASE iv.next # <<>>
  <2> DEFINE n == NextOf(iv)
             d == [n EXCEPT !.reg = iv.reg]
  <2>1. n \in Timely(code) /\ iv.end < n.start /\ n \in Entry(code)
    BY <1>2, TimelyNext DEF Timely
  <2>2. \A li : Holds(iv, li) => (iv.start = li.start /\ iv.end = li.end) \/ Holds(n, li)
    BY HeldFrom
  <2>3. AddNextToInactive(i, iv) = AddByStart(i, d)
    BY <1>2 DEF AddNextToInactive
  <2>4. iv.reg \in Reg \cup {NoReg}
    BY TimelyFields
  <2>. HIDE DEF n
  <2>5. d \in Timely(code)
    BY <2>1, <2>4, TimelyChanged
  <2>6. d.start = n.start /\ d.reg = iv.reg /\ \A li : Holds(n, li) => Holds(d, li)
    BY <2>1, RegHolds
  <2>. HIDE DEF d
  <2>7. Elements(AddNextToInactive(i, iv)) = Elements(i) \cup {d}
    BY <2>3, <2>5, StartAdded
  <2>. QED  BY <2>1, <2>2, <2>6, <2>7
<1>. QED  BY <1>1, <1>2

(* The live intervals stay covered when each interval that loses its place *)
(* leaves none of its live intervals unsettled and without a holder.       *)
LEMMA CoverKept ==
  ASSUME CoverInv, pc # "sort", UNCHANGED <<code, live_in, live_out>>,
         slots \subseteq slots', NEW K,
         \A p \in Positions(code) : ScannedIn(code, place, p) => ScannedIn(code, place', p),
         \A li \in Lis : li.start \in Positions(code) /\ li.end \in Positions(code),
         \A iv \in Kept(active, inactive, unhandled, Handled) : \A li \in Lis :
           Holds(iv, li) => \/ Settled(li, code, place', slots')
                            \/ \E new \in K : Holds(new, li)
  PROVE  \A li \in Lis' : \/ Settled(li, code', place', slots')
                          \/ \E iv \in K : Holds(iv, li)
<1>1. Lis' = Lis
  BY DEF Lis
<1>2. SUFFICES ASSUME NEW li \in Lis
               PROVE  Settled(li, code, place', slots') \/ \E iv \in K : Holds(iv, li)
  BY <1>1
<1>3. \/ Settled(li, code, place, slots)
      \/ \E iv \in Kept(active, inactive, unhandled, Handled) : Holds(iv, li)
  BY DEF CoverInv
<1>4. CASE Settled(li, code, place, slots)
  <2>1. \A p \in li.start .. li.end : p \in Positions(code)
    BY DEF Positions
  <2>. QED  BY <1>4, <2>1 DEF Settled, HasPlace
<1>5. CASE \E iv \in Kept(active, inactive, unhandled, Handled) : Holds(iv, li)
  BY <1>5
<1>. QED  BY <1>3, <1>4, <1>5

(* The live intervals lie within the code.                                 *)
LEMMA LisTyped ==
  ASSUME code \in Seq(Instruction)
  PROVE  \A li \in Lis : li.start \in Positions(code) /\ li.end \in Positions(code)
<1>1. Lis \subseteq LiveInterval(code)
  BY LiveIntervalsTyped DEF Lis
<1>. QED  BY <1>1 DEF LiveInterval

(* Once the arguments in registers have been entered none comes again.     *)
LEMMA Entered ==
  ASSUME IInv, EntryInv, ~Entering, UNCHANGED <<unhandled, args>>, Handled' = Handled,
         slots \subseteq slots'
  PROVE  EntryInv'
<1>1. \A j \in Handled + 1 .. Len(unhandled) : ~Arrived(unhandled[j], args)
  BY DEF EntryInv
<1>2. \A iv \in Later(unhandled, Handled)' :
        HasPlace(iv.name, slots) \/ iv.reg = NoReg \/ Arrived(iv, args)
  BY DEF EntryInv
<1>3. \A iv \in Later(unhandled, Handled)' :
        HasPlace(iv.name, slots') \/ iv.reg = NoReg \/ Arrived(iv, args')
  BY <1>2 DEF HasPlace
<1>. QED  BY <1>1, <1>3 DEF EntryInv

(* An interval expires: its instructions have been scanned, and the next   *)
(* of its chain starts no sooner than now.                                 *)
LEMMA ExpireSafe ==
  ASSUME Placeable, IInv, LifeInv, Safe, Expire
  PROVE  Safe'
<1> DEFINE first == active[1]
<1>0. /\ active # <<>> /\ first.end < idx /\ pc = "expire"
      /\ N \in Nat /\ code \in Seq(Instruction) /\ Positions(code) = 1 .. N
      /\ active \in Seq(Timely(code)) /\ inactive \in Seq(Timely(code))
      /\ unhandled \in Seq(Timely(code)) /\ idx \in Nat
  BY Facts DEF Safe, Expire, Expired, ClockInv
<1>1. /\ 1 \in 1 .. Len(active) /\ Tail(active) \in Seq(Timely(code))
      /\ Without(Tail(active), active, 1) /\ first \in Timely(code) /\ first \in Elements(active)
  <2>1. /\ 1 \in 1 .. Len(active) /\ Tail(active) \in Seq(Timely(code))
        /\ Without(Tail(active), active, 1)
    BY <1>0, TakenOut
  <2>. QED  BY <1>0, <2>1 DEF Elements
<1>2. first.reg \in Reg /\ ClassOf[first.name] \in Class /\ first.end \in 1 .. N
      /\ first.start \in 1 .. N
  BY <1>0, <1>1, ActiveReg, TimelyFields
<1>3. IsOfClass(first)
  BY <1>2, RegOfClass DEF IsOfClass
<1>4. /\ active' = Tail(active)
      /\ inactive' = AddNextToInactive(inactive, first)
      /\ UNCHANGED <<code, args, live_in, live_out, unhandled, slots, place, u, limit,
                     last_start, idx, k, then, pc>>
  BY <1>3 DEF Expire, routine, loops, emitted
<1>. HIDE DEF first
<1>5. /\ Elements(active') \subseteq Elements(active)
      /\ Elements(active) \subseteq Elements(active') \cup {first}
      /\ EndsSorted(active')
  BY <1>0, <1>1, <1>4, WithoutElements, ActiveLess DEF Safe, EndsInv, first
<1>6. /\ Elements(inactive) \subseteq Elements(inactive')
      /\ \A e \in Elements(inactive') :
           e \in Elements(inactive) \/ (e.reg = first.reg /\ first.end < e.start)
      /\ \A li : Holds(first, li) =>
           \/ first.start = li.start /\ first.end = li.end
           \/ \E e \in Elements(inactive') : Holds(e, li)
  BY <1>0, <1>1, <1>4, NextWaiting
<1>7. Handled' = Handled
  BY <1>4 DEF Handled
<1>8. GivenInv'
  BY <1>4 DEF Safe, GivenInv
<1>9. ClockInv'
  BY <1>0, <1>4 DEF Safe, ClockInv, ToPlace, ToScan, N
<1>10. EndsInv'
  BY <1>0, <1>4, <1>5 DEF Safe, EndsInv
<1>11. StartsInv'
  <2>1. inactive' \in Seq(Timely(code))
    BY <1>0, <1>1, <1>4, ExpireLife, LifeFacts, ExpireKeeps, StepIsInvariant DEF LifeInv, Lives
  <2>2. ASSUME NEW e \in Elements(inactive')  PROVE idx <= e.start /\ e.reg \in Reg
    <3>1. CASE e \in Elements(inactive)
      BY <3>1 DEF Safe, StartsInv
    <3>2. CASE e.reg = first.reg /\ first.end < e.start
      <4>1. first.end \in Nat /\ e.start \in Nat
        BY <1>0, <1>2, <2>1, TimelyFields DEF Elements
      <4>2. idx <= first.end + 1
        BY <1>1 DEF Safe, EndsInv
      <4>. QED  BY <1>0, <1>2, <3>2, <4>1, <4>2
    <3>. QED  BY <1>6, <3>1, <3>2
  <2>. QED  BY <1>0, <1>4, <2>2 DEF StartsInv
<1>12. EntryInv'
  <2>1. ~Entering
    BY <1>0, <1>2 DEF Entering
  <2>. QED  BY <1>4, <1>7, <2>1, Entered DEF Safe
<1>13. CoverInv'
  <2> DEFINE K == Kept(active', inactive', unhandled', Handled')
  <2>1. ASSUME NEW iv \in Kept(active, inactive, unhandled, Handled), NEW li \in Lis,
               Holds(iv, li)
        PROVE  Settled(li, code, place', slots') \/ \E new \in K : Holds(new, li)
    <3>1. CASE iv \in K
      BY <2>1, <3>1
    <3>2. CASE iv = first
      <4>1. CASE first.start = li.start /\ first.end = li.end
        <5>1. \A p \in li.start .. li.end : p \in Positions(code) /\ p < idx
          BY <1>0, <1>2, <4>1
        <5>. QED  BY <1>4, <5>1 DEF Safe, CoverInv, Settled
      <4>2. CASE \E e \in Elements(inactive') : Holds(e, li)
        BY <4>2 DEF Kept
      <4>. QED  BY <1>6, <2>1, <3>2, <4>1, <4>2
    <3>3. iv \in K \/ iv = first
      BY <1>4, <1>5, <1>6, <1>7 DEF Kept
    <3>. QED  BY <3>1, <3>2, <3>3
  <2>. HIDE DEF K
  <2>2. \A li \in Lis' : Settled(li, code', place', slots') \/ \E iv \in K : Holds(iv, li)
    BY <1>0, <1>4, <2>1, CoverKept, LisTyped DEF Safe
  <2>. QED  BY <1>0, <1>4, <2>2 DEF Safe, CoverInv, K
<1>. QED  BY <1>0, <1>4, <1>8, <1>9, <1>10, <1>11, <1>12, <1>13 DEF Safe

(* AddToSetSortedByEnd asserts nothing of a register that was free.        *)
LEMMA FreeMayAdd ==
  ASSUME IInv, NEW c \in Class, NEW iv, iv.reg \in Elements(free_regs[c])
  PROVE  MayAddToActive(active, iv)
<1>1. iv.reg \notin RegsIn(active)
  BY HeldIsActive DEF IInv, PoolKept, Shared
<1>. QED  BY <1>1, MayAdd

(* What is left of the inactive intervals when the k-th is taken out.      *)
LEMMA RenewedLeaves ==
  ASSUME IInv, LifeInv, Safe, pc = "renew", k <= Len(inactive)
  PROVE  LET rest == RemoveAt(inactive, k)
             old  == inactive[k]
         IN  /\ old \in Timely(code) /\ old \in Elements(inactive)
             /\ idx <= old.start /\ old.reg \in Reg
             /\ Elements(rest) \subseteq Elements(inactive)
             /\ Elements(inactive) \subseteq Elements(rest) \cup {old}
             /\ \A m \in 1 .. Len(rest) : m < k => idx < rest[m].start
             /\ ~Entering
<1> DEFINE rest == RemoveAt(inactive, k)
           old == inactive[k]
           n == Len(inactive)
<1>0. /\ inactive \in Seq(Timely(code)) /\ n \in Nat /\ k \in 1 .. n /\ DOMAIN inactive = 1 .. n
  BY Facts DEF Safe
<1>1. rest \in Seq(Timely(code)) /\ Without(rest, inactive, k)
  BY <1>0, TakenOut
<1>2. old \in Timely(code) /\ old \in Elements(inactive)
  BY <1>0 DEF Elements
<1>3. idx <= old.start /\ old.reg \in Reg
  BY <1>2 DEF Safe, StartsInv
<1>. HIDE DEF rest, old
<1>4. /\ Elements(rest) \subseteq Elements(inactive)
      /\ Elements(inactive) \subseteq Elements(rest) \cup {old}
  BY <1>0, <1>1, WithoutElements DEF old
<1>5. ASSUME NEW m \in 1 .. Len(rest), m < k  PROVE idx < rest[m].start
  <2>1. /\ Len(rest) = n - 1
        /\ \A j \in 1 .. n - 1 : rest[j] = IF j < k THEN inactive[j] ELSE inactive[j + 1]
    BY <1>1 DEF Without
  <2>. HIDE DEF n
  <2>2. rest[m] = inactive[m] /\ m \in 1 .. n
    BY <1>0, <1>5, <2>1
  <2>. QED  BY <1>5, <2>2 DEF Safe, StartsInv, n
<1>6. ~Entering
  BY <1>0 DEF Entering
<1>. QED  BY <1>2, <1>3, <1>4, <1>5, <1>6 DEF rest, old

(* An interval that starts later is passed: none has ended before it was   *)
(* renewed.                                                                *)
LEMMA RenewLaterSafe ==
  ASSUME IInv, LifeInv, Safe, RenewLater
  PROVE  Safe'
<1>0. /\ pc = "renew" /\ k <= Len(inactive) /\ k \in Nat \ {0} /\ Len(inactive) \in Nat
      /\ inactive[k].start > idx \/ inactive[k].end < idx
      /\ N \in Nat /\ code \in Seq(Instruction) /\ idx \in Nat
  BY Facts DEF Safe, RenewLater, ClockInv
<1>1. inactive[k] \in Timely(code) /\ idx <= inactive[k].start
  BY <1>0, RenewedLeaves
<1>2. ~(inactive[k].end < idx) /\ inactive[k].start > idx
  BY <1>0, <1>1, TimelyFields
<1>3. /\ k' = k + 1
      /\ UNCHANGED <<code, args, live_in, live_out, active, inactive, unhandled, slots, place,
                     u, limit, last_start, idx, then, pc>>
  BY <1>2 DEF RenewLater, routine, sets, emitted
<1>4. Handled' = Handled
  BY <1>3 DEF Handled
<1>5. GivenInv' /\ EndsInv'
  BY <1>3 DEF Safe, GivenInv, EndsInv
<1>6. ClockInv'
  BY <1>0, <1>3 DEF Safe, ClockInv, ToPlace, ToScan, N
<1>7. EntryInv'
  BY <1>3, <1>4 DEF Safe, EntryInv, Entering
<1>8. CoverInv'
  BY <1>3, <1>4 DEF Safe, CoverInv, Lis
<1>9. StartsInv'
  <2>1. ASSUME NEW m \in 1 .. Len(inactive), m < k + 1  PROVE idx < inactive[m].start
    <3>1. m < k \/ m = k
      BY <1>0, <2>1
    <3>. QED  BY <1>0, <1>2, <3>1 DEF Safe, StartsInv
  <2>. QED  BY <1>0, <1>3, <2>1 DEF Safe, StartsInv
<1>. QED  BY <1>0, <1>3, <1>5, <1>6, <1>7, <1>8, <1>9 DEF Safe

(* One that starts where no register is free has its slot from then on.    *)
LEMMA RenewToSlotSafe ==
  ASSUME IInv, LifeInv, Safe, RenewToSlot
  PROVE  Safe'
<1> DEFINE old == inactive[k]
<1>0. /\ pc = "renew" /\ k <= Len(inactive)
      /\ N \in Nat /\ code \in Seq(Instruction)
  BY Facts DEF Safe, RenewToSlot
<1>1. /\ inactive' = RemoveAt(inactive, k) /\ slots' = slots \cup {old.name}
      /\ UNCHANGED <<code, args, live_in, live_out, active, unhandled, place,
                     u, limit, last_start, idx, k, then, pc>>
  BY DEF RenewToSlot, routine, loops
<1>2. /\ Elements(inactive') \subseteq Elements(inactive)
      /\ Elements(inactive) \subseteq Elements(inactive') \cup {old}
      /\ \A m \in 1 .. Len(inactive') : m < k => idx < inactive'[m].start
      /\ ~Entering
  BY <1>0, <1>1, RenewedLeaves
<1>. HIDE DEF old
<1>3. Handled' = Handled
  BY <1>1 DEF Handled
<1>4. GivenInv' /\ EndsInv'
  BY <1>1 DEF Safe, GivenInv, EndsInv
<1>5. ClockInv'
  BY <1>0, <1>1 DEF Safe, ClockInv, ToPlace, ToScan, N
<1>6. EntryInv'
  BY <1>1, <1>2, <1>3, Entered DEF Safe
<1>7. StartsInv'
  BY <1>0, <1>1, <1>2 DEF Safe, StartsInv
<1>8. CoverInv'
  <2> DEFINE K == Kept(active', inactive', unhandled', Handled')
  <2>1. ASSUME NEW iv \in Kept(active, inactive, unhandled, Handled), NEW li \in Lis,
               Holds(iv, li)
        PROVE  Settled(li, code, place', slots') \/ \E new \in K : Holds(new, li)
    <3>1. CASE iv \in K
      BY <2>1, <3>1
    <3>2. CASE iv = old
      BY <1>1, <2>1, <3>2 DEF Settled, HasPlace, Holds
    <3>3. iv \in K \/ iv = old
      BY <1>1, <1>2, <1>3 DEF Kept
    <3>. QED  BY <3>1, <3>2, <3>3
  <2>. HIDE DEF K
  <2>2. \A li \in Lis' : Settled(li, code', place', slots') \/ \E iv \in K : Holds(iv, li)
    BY <1>0, <1>1, <2>1, CoverKept, LisTyped DEF Safe
  <2>. QED  BY <1>0, <1>1, <2>2 DEF Safe, CoverInv, K
<1>. QED  BY <1>0, <1>1, <1>4, <1>5, <1>6, <1>7, <1>8 DEF Safe

(* One that finds a register becomes active.                               *)
LEMMA RenewToRegisterSafe ==
  ASSUME Placeable, IInv, LifeInv, Safe, RenewToRegister
  PROVE  Safe'
<1> DEFINE old  == inactive[k]
           c    == ClassOf[old.name]
           same == old.reg \in Elements(free_regs[c])
           new  == IF same THEN old ELSE [old EXCEPT !.reg = Back(free_regs[c])]
<1>0. /\ pc = "renew" /\ k <= Len(inactive) /\ old.end >= idx /\ Pool!HasFreeRegisters(c)
      /\ N \in Nat /\ code \in Seq(Instruction)
      /\ active \in Seq(Timely(code))
  BY Facts DEF Safe, RenewToRegister
<1>1. /\ old \in Timely(code) /\ old.reg \in Reg
      /\ Elements(RemoveAt(inactive, k)) \subseteq Elements(inactive)
      /\ Elements(inactive) \subseteq Elements(RemoveAt(inactive, k)) \cup {old}
      /\ \A m \in 1 .. Len(RemoveAt(inactive, k)) : m < k => idx < RemoveAt(inactive, k)[m].start
      /\ ~Entering
  BY <1>0, RenewedLeaves
<1>2. c \in Class /\ old \in Entry(code)
  BY <1>0, <1>1, TimelyFields
<1>3. IsOfClass(old)
  BY <1>1, <1>2, RegOfClass DEF IsOfClass
<1>. HIDE DEF old, c
<1>4. Back(free_regs[c]) \in Elements(free_regs[c]) /\ Back(free_regs[c]) \in Reg
  BY <1>0, <1>2, BackIsFree
<1>5. /\ new.name = old.name /\ new.end = old.end
      /\ new.reg \in Elements(free_regs[c]) /\ new \in Timely(code)
      /\ \A li : Holds(old, li) => Holds(new, li)
  <2>1. CASE same
    BY <1>1, <2>1
  <2>2. CASE ~same
    <3>1. new = [old EXCEPT !.reg = Back(free_regs[c])]
      BY <2>2
    <3>. HIDE DEF new
    <3>. QED  BY <1>1, <1>2, <1>4, <3>1, RegHolds, TimelyChanged
  <2>. QED  BY <2>1, <2>2
<1>. HIDE DEF new
<1>6. MayAddToActive(active, new)
  BY <1>2, <1>5, FreeMayAdd
<1>7. /\ inactive' = RemoveAt(inactive, k) /\ active' = AddToActive(active, new)
      /\ UNCHANGED <<code, args, live_in, live_out, unhandled, place, slots,
                     u, limit, last_start, idx, k, then, pc>>
  BY <1>3, <1>6 DEF RenewToRegister, routine, loops, emitted, old, c, new
<1>8. Elements(active') = Elements(active) \cup {new} /\ EndsSorted(active')
  <2>1. \A e \in Timely(code) : e.end \in Nat
    BY <1>0, TimelyFields
  <2>. QED  BY <1>0, <1>5, <1>7, <2>1, ActiveAdded DEF Safe, EndsInv
<1>9. Handled' = Handled
  BY <1>7 DEF Handled
<1>10. GivenInv'
  BY <1>7 DEF Safe, GivenInv
<1>11. ClockInv'
  BY <1>0, <1>7 DEF Safe, ClockInv, ToPlace, ToScan, N
<1>12. EntryInv'
  BY <1>1, <1>7, <1>9, Entered DEF Safe
<1>13. StartsInv'
  BY <1>0, <1>1, <1>7 DEF Safe, StartsInv
<1>14. EndsInv'
  <2>1. \A iv \in Elements(active') : idx <= iv.end
    BY <1>0, <1>5, <1>8 DEF Safe, EndsInv
  <2>2. \A iv \in Elements(active') : idx <= iv.end + 1
    <3>1. \A iv \in Elements(active') : iv.end \in Nat
      <4>1. Elements(active') \subseteq Timely(code)
        BY <1>0, <1>5, <1>8 DEF Elements
      <4>. QED  BY <1>0, <4>1, TimelyFields
    <3>. QED  BY <2>1, <3>1 DEF Safe, ClockInv
  <2>. QED  BY <1>7, <1>8, <2>1, <2>2 DEF EndsInv
<1>15. CoverInv'
  <2> DEFINE K == Kept(active', inactive', unhandled', Handled')
  <2>1. ASSUME NEW iv \in Kept(active, inactive, unhandled, Handled), NEW li \in Lis,
               Holds(iv, li)
        PROVE  Settled(li, code, place', slots') \/ \E e \in K : Holds(e, li)
    <3>1. CASE iv \in K
      BY <2>1, <3>1
    <3>2. CASE iv = old
      BY <1>5, <1>8, <2>1, <3>2 DEF Kept
    <3>3. iv \in K \/ iv = old
      BY <1>1, <1>7, <1>8, <1>9 DEF Kept
    <3>. QED  BY <3>1, <3>2, <3>3
  <2>. HIDE DEF K
  <2>2. \A li \in Lis' : Settled(li, code', place', slots') \/ \E iv \in K : Holds(iv, li)
    BY <1>0, <1>7, <2>1, CoverKept, LisTyped DEF Safe
  <2>. QED  BY <1>0, <1>7, <2>2 DEF Safe, CoverInv, K
<1>. QED  BY <1>0, <1>7, <1>10, <1>11, <1>12, <1>13, <1>14, <1>15 DEF Safe

(* The intervals behind the first h begin with the one after it.           *)
LEMMA LaterFrom ==
  ASSUME NEW S, NEW w \in Seq(S), NEW h \in 1 .. Len(w)
  PROVE  /\ Later(w, h - 1) = Later(w, h) \cup {w[h]}
         /\ Later(w, h) \subseteq Elements(w)
<1>1. Len(w) \in Nat /\ h \in Nat /\ DOMAIN w = 1 .. Len(w)
  OBVIOUS
<1> DEFINE n == Len(w)
<1>2. /\ \A j \in h .. n : j = h \/ j \in h + 1 .. n
      /\ h \in h .. n /\ \A j \in h + 1 .. n : j \in h .. n
      /\ (h - 1) + 1 = h
  BY <1>1
<1>3. \A j \in h + 1 .. n : j \in DOMAIN w
  BY <1>1
<1>. HIDE DEF n
<1>. QED  BY <1>2, <1>3 DEF Later, Elements, n

(* An argument in its register finds the register free: only arguments     *)
(* have been placed.                                                       *)
LEMMA ArrivedIsFree ==
  ASSUME IInv, LifeInv, Safe, Placing, NEW j \in u .. Len(unhandled),
         Arrived(unhandled[j], args)
  PROVE  /\ Entering /\ \A m \in u .. j : Arrived(unhandled[m], args)
         /\ Current.reg # NoReg /\ Current.reg \notin Held
<1>1. u \in Nat \ {0} /\ Handled = u - 1 /\ (u - 1) + 1 = u /\ u \in u .. j
  BY HandledIs DEF Placing, Handled
<1>2. Entering /\ \A m \in u .. j : Arrived(unhandled[m], args)
  BY <1>1 DEF Safe, EntryInv
<1>3. Arrived(Current, args)
  BY <1>1, <1>2 DEF Current
<1>4. SUFFICES ASSUME Current.reg \in Held  PROVE FALSE
  BY <1>2, <1>3 DEF Arrived
<1>5. PICK m \in DOMAIN active : active[m].reg = Current.reg
  BY <1>4 DEF Held
<1>6. active[m] \in Elements(active)
  BY DEF Elements
<1>7. active[m].name \in args /\ active[m].reg = ArgReg[active[m].name]
  BY <1>2, <1>6 DEF Entering
<1>8. active[m].name = Current.name
  BY <1>3, <1>5, <1>7 DEF Arrived, Safe, GivenInv, Readable
<1>9. Current.name \notin NamesIn(active, 0)
  BY CurrentLeaves DEF Absent
<1>10. active[m].name \in NamesIn(active, 0)
  <2>1. active \in Seq(Timely(code))
    BY Facts DEF Safe
  <2>2. Len(active) \in Nat /\ m \in 1 .. Len(active) - 0 /\ m + 0 = m
    BY <2>1
  <2>. QED  BY <2>2 DEF NamesIn, NamesFrom, Elements
<1>. QED  BY <1>8, <1>9, <1>10

(* Placing an interval that had to find its register leaves no argument to *)
(* be entered.                                                             *)
LEMMA PlacedEntry ==
  ASSUME IInv, LifeInv, Safe, Placing, Current.reg = NoReg \/ Current.reg \in Held,
         pc' = "scan", UNCHANGED <<args, u>>, slots \subseteq slots',
         \A iv \in Later(unhandled', u) :
           iv \in Later(unhandled, u) \/ (iv.name \in slots' /\ iv.start # 1)
  PROVE  EntryInv'
<1>1. u \in Nat \ {0} /\ Handled = u - 1 /\ (u - 1) + 1 = u /\ Handled' = u
      /\ u \in 1 .. Len(unhandled) /\ unhandled \in Seq(Timely(code))
      /\ Len(unhandled) \in Nat
  BY HandledIs, CurrentLeaves, Facts DEF Placing, Handled, Safe
<1>2. \A iv \in Later(unhandled, u) : ~Arrived(iv, args)
  <2>1. SUFFICES ASSUME NEW j \in u + 1 .. Len(unhandled), Arrived(unhandled[j], args)
                 PROVE  FALSE
    BY DEF Later
  <2>2. j \in u .. Len(unhandled)
    BY <1>1
  <2>. QED  BY <2>1, <2>2, ArrivedIsFree
<1>3. Later(unhandled, u) \subseteq Later(unhandled, Handled)
  BY <1>1, LaterFrom
<1>4. \A iv \in Later(unhandled', u) : ~Arrived(iv, args)
  BY <1>2 DEF Arrived
<1>5. \A iv \in Later(unhandled', u) : HasPlace(iv.name, slots') \/ iv.reg = NoReg
  BY <1>2, <1>3 DEF Safe, EntryInv, HasPlace
<1>6. \A j \in u + 1 .. Len(unhandled') : ~Arrived(unhandled'[j], args)
  BY <1>4 DEF Later
<1>7. \A iv \in Later(unhandled, Handled)' :
        HasPlace(iv.name, slots') \/ iv.reg = NoReg \/ Arrived(iv, args')
  BY <1>1, <1>5
<1>. QED  BY <1>1, <1>6, <1>7 DEF EntryInv

(* What placing the current interval has to establish, in every case.      *)
LEMMA PlacedSafe ==
  ASSUME IInv, LifeInv, Safe, Placing, pc' = "scan", EntryInv',
         UNCHANGED <<code, args, live_in, live_out, place, u, limit, last_start, idx>>,
         slots \subseteq slots',
         EndsSorted(active'), Elements(active') \subseteq Timely(code),
         \A iv \in Elements(active') : idx <= iv.end,
         \A iv \in Elements(inactive') : idx <= iv.start /\ iv.reg \in Reg,
         unhandled'[u] = unhandled[u], Len(unhandled') >= Len(unhandled),
         \A iv \in Later(unhandled', u) : iv \in Later(unhandled, u) \/ iv.name \in slots',
         \A iv \in Kept(active, inactive, unhandled, u) \cup {Current} : \A li \in Lis :
           Holds(iv, li) => \/ HasPlace(li.name, slots')
                            \/ \E new \in Kept(active', inactive', unhandled', u) : Holds(new, li)
  PROVE  Safe'
<1>1. u \in Nat \ {0} /\ Handled = u - 1 /\ Handled' = u
      /\ u \in 1 .. Len(unhandled) /\ unhandled \in Seq(Timely(code)) /\ StartsSorted(unhandled)
      /\ Len(unhandled) \in Nat /\ DOMAIN unhandled = 1 .. Len(unhandled)
      /\ pc = "place" /\ code \in Seq(Instruction) /\ N \in Nat /\ idx \in Nat
  BY HandledIs, CurrentLeaves, Facts DEF Placing, Handled, Safe, ClockInv
<1>2. GivenInv'
  BY DEF Safe, GivenInv
<1>3. EndsInv'
  <2>1. \A iv \in Elements(active') : idx <= iv.end + 1
    <3>1. \A iv \in Elements(active') : iv.end \in 1 .. N
      BY <1>1, TimelyFields
    <3>. QED  BY <1>1, <3>1
  <2>. QED  BY <2>1 DEF EndsInv
<1>4. StartsInv'
  BY DEF StartsInv
<1>5. ClockInv'
  <2>1. \A iv \in Later(unhandled, u) : limit <= iv.start
    <3>1. SUFFICES ASSUME NEW j \in u + 1 .. Len(unhandled)
                   PROVE  limit <= unhandled[j].start
      BY DEF Later
    <3>2. u + 1 \in 1 .. Len(unhandled) /\ j \in 1 .. Len(unhandled) /\ u < Len(unhandled)
          /\ (j = u + 1 \/ u + 1 < j)
      BY <1>1
    <3>3. limit = unhandled[u + 1].start
      BY <1>1, <3>2 DEF Safe, ClockInv, ToPlace
    <3>4. unhandled[u + 1] \in Timely(code) /\ limit \in 1 .. N
      BY <1>1, <3>2, <3>3, TimelyFields
    <3>5. CASE j = u + 1
      BY <3>3, <3>4, <3>5
    <3>6. CASE u + 1 < j
      BY <1>1, <3>2, <3>3, <3>6 DEF StartsSorted
    <3>. QED  BY <3>2, <3>5, <3>6
  <2>2. \A iv \in Later(unhandled', u) : iv.name \in slots' \/ limit <= iv.start
    BY <2>1
  <2>3. N' = N /\ unhandled'[u].start <= idx
    BY <1>1 DEF N, Safe, ClockInv
  <2>. QED  BY <1>1, <2>2, <2>3 DEF Safe, ClockInv, ToPlace, ToScan
<1>6. CoverInv'
  <2> DEFINE K == Kept(active', inactive', unhandled', u)
  <2>1. Kept(active, inactive, unhandled, Handled)
          = Kept(active, inactive, unhandled, u) \cup {Current}
    BY <1>1, LaterFrom DEF Kept, Current
  <2>2. \A iv \in Kept(active, inactive, unhandled, Handled) : \A li \in Lis :
          Holds(iv, li) => \/ Settled(li, code, place', slots')
                           \/ \E new \in K : Holds(new, li)
    BY <2>1 DEF Settled
  <2>. HIDE DEF K
  <2>3. \A li \in Lis' : Settled(li, code', place', slots') \/ \E iv \in K : Holds(iv, li)
    BY <1>1, <2>2, CoverKept, LisTyped DEF Safe
  <2>. QED  BY <1>1, <2>3 DEF Safe, CoverInv, K
<1>. QED  BY <1>2, <1>3, <1>4, <1>5, <1>6 DEF Safe

(* Placing the current interval in a register that is free: its own, or    *)
(* the one of its class that was released last.                            *)
LEMMA PlaceFreeSafe ==
  ASSUME Placeable, IInv, LifeInv, Safe, PlaceOwnFree \/ PlaceInFree
  PROVE  Safe'
<1> DEFINE c   == ClassOf[Current.name]
           cur == Current
           new == IF PlaceOwnFree THEN cur ELSE [cur EXCEPT !.reg = Back(free_regs[c])]
<1>0. /\ Placing /\ pc = "place" /\ u \in 1 .. Len(unhandled) /\ Len(unhandled) \in Nat
      /\ cur \in Timely(code) /\ cur \in Entry(code) /\ c \in Class
      /\ cur.start \in 1 .. N /\ cur.end \in 1 .. N /\ cur.start <= cur.end
      /\ N \in Nat /\ code \in Seq(Instruction)
      /\ active \in Seq(Timely(code)) /\ unhandled \in Seq(Timely(code))
  <2>1. Placing
    BY DEF PlaceOwnFree, PlaceInFree
  <2>2. pc # "abort" /\ pc = "place"
    BY <2>1 DEF Placing
  <2>. QED  BY <2>1, <2>2, CurrentLeaves, Facts, TimelyFields
<1>1. idx = cur.start /\ u \in Nat \ {0} /\ Handled = u - 1 /\ (u - 1) + 1 = u
  BY <1>0 DEF Safe, ClockInv, ToPlace, Current, Handled
<1>2. /\ new \in Timely(code) /\ new.name = cur.name /\ new.end = cur.end
      /\ new.reg \in Elements(free_regs[c])
      /\ \A li : Holds(cur, li) => Holds(new, li)
      /\ PlaceOwnFree => IsOfClass(cur) /\ new = cur
  <2>1. CASE PlaceOwnFree
    <3>1. cur.reg # NoReg /\ cur.reg \notin Held
      BY <2>1 DEF PlaceOwnFree
    <3>2. cur.reg \in Reg
      BY <1>0, <3>1, TimelyFields
    <3>3. cur.reg \in Pool!RegsOf(c)
      BY <1>0, <3>2, RegOfClass
    <3>4. cur.reg \in ClassRegs[c]
      BY <1>0, <3>3 DEF ClassRegs
    <3>5. cur.reg \in Elements(free_regs[c])
      BY <1>0, <3>1, <3>4 DEF IInv, PoolKept, Shared
    <3>. QED  BY <1>0, <2>1, <3>3, <3>5 DEF IsOfClass
  <2>2. CASE ~PlaceOwnFree
    <3>1. Pool!HasFreeRegisters(c) /\ new = [cur EXCEPT !.reg = Back(free_regs[c])]
      BY <2>2 DEF PlaceInFree
    <3>2. Back(free_regs[c]) \in Elements(free_regs[c]) /\ Back(free_regs[c]) \in Reg
      BY <1>0, <3>1, BackIsFree
    <3>. HIDE DEF cur, c, new
    <3>. QED  BY <1>0, <2>2, <3>1, <3>2, RegHolds, TimelyChanged
  <2>. QED  BY <2>1, <2>2
<1>3. MayAddToActive(active, new)
  <2>. HIDE DEF c, new, cur
  <2>. QED  BY <1>0, <1>2, FreeMayAdd
<1>4. /\ active' = AddToActive(active, new) /\ pc' = "scan"
      /\ UNCHANGED <<code, args, live_in, live_out, unhandled, inactive, place, slots,
                     u, limit, last_start, idx>>
  <2>1. CASE PlaceOwnFree
    <3>1. ~(~IsOfClass(cur) \/ cur.reg \notin Elements(free_regs[c])) /\ new = cur
      BY <1>2, <2>1
    <3>. QED  BY <2>1, <3>1 DEF PlaceOwnFree, routine, loops, emitted
  <2>2. CASE ~PlaceOwnFree
    BY <1>3, <2>2 DEF PlaceInFree, routine, loops
  <2>. QED  BY <2>1, <2>2
<1>5. (PlaceOwnFree => new = cur) /\ (~PlaceOwnFree => cur.reg = NoReg)
  BY DEF PlaceInFree
<1>6. cur = unhandled[u]
  BY DEF Current
<1>. HIDE DEF c, new
<1>7. Elements(active') = Elements(active) \cup {new} /\ EndsSorted(active')
  <2>1. \A e \in Timely(code) : e.end \in Nat
    BY <1>0, TimelyFields
  <2>. QED  BY <1>0, <1>2, <1>4, <2>1, ActiveAdded DEF Safe, EndsInv
<1>8. \A iv \in Elements(active') : idx <= iv.end
  BY <1>0, <1>1, <1>2, <1>7 DEF Safe, EndsInv
<1>9. \A iv \in Elements(inactive') : idx <= iv.start /\ iv.reg \in Reg
  BY <1>4 DEF Safe, StartsInv
<1>10. Elements(active') \subseteq Timely(code)
  <2>1. Elements(active) \subseteq Timely(code)
    BY <1>0 DEF Elements
  <2>. QED  BY <1>2, <1>7, <2>1
<1>11. EntryInv'
  <2>1. CASE cur.reg = NoReg
    BY <1>0, <1>4, <2>1, PlacedEntry DEF cur
  <2>2. CASE PlaceOwnFree
    <3>1. Handled' = u
      BY <1>4 DEF Handled
    <3>2. ASSUME NEW j \in u + 1 .. Len(unhandled), Arrived(unhandled[j], args)
          PROVE  Entering' /\ \A m \in u + 1 .. j : Arrived(unhandled[m], args)
      <4>1. j \in u .. Len(unhandled) /\ u \in u .. j /\ u + 1 \in u .. j /\ u < Len(unhandled)
            /\ \A m \in u + 1 .. j : m \in u .. j
        BY <1>0
      <4>2. Entering /\ \A m \in u .. j : Arrived(unhandled[m], args)
        BY <1>0, <3>2, <4>1, ArrivedIsFree
      <4>3. limit = unhandled[u + 1].start
        BY <1>0, <4>1 DEF Safe, ClockInv, ToPlace
      <4>4. limit = 1 /\ Arrived(new, args)
        BY <1>5, <1>6, <2>2, <4>1, <4>2, <4>3 DEF Arrived
      <4>5. \A iv \in Elements(active') : iv.name \in args /\ iv.reg = ArgReg[iv.name]
        BY <1>7, <4>2, <4>4 DEF Entering, Arrived
      <4>. QED  BY <1>4, <4>1, <4>2, <4>4, <4>5 DEF Entering
    <3>3. Later(unhandled, u) \subseteq Later(unhandled, Handled)
      BY <1>0, <1>1, LaterFrom
    <3>4. \A iv \in Later(unhandled, u) :
            HasPlace(iv.name, slots) \/ iv.reg = NoReg \/ Arrived(iv, args)
      BY <3>3 DEF Safe, EntryInv
    <3>5. \A iv \in Later(unhandled, Handled)' :
            HasPlace(iv.name, slots') \/ iv.reg = NoReg \/ Arrived(iv, args')
      BY <1>4, <3>1, <3>4
    <3>. QED  BY <1>4, <3>1, <3>2, <3>5 DEF EntryInv
  <2>. QED  BY <1>5, <2>1, <2>2
<1>12. ASSUME NEW iv \in Kept(active, inactive, unhandled, u) \cup {Current}, NEW li \in Lis,
              Holds(iv, li)
       PROVE  HasPlace(li.name, slots')
              \/ \E e \in Kept(active', inactive', unhandled', u) : Holds(e, li)
  <2>1. CASE iv = Current
    BY <1>2, <1>7, <1>12, <2>1 DEF Kept
  <2>2. CASE iv # Current
    BY <1>4, <1>7, <1>12, <2>2 DEF Kept
  <2>. QED  BY <2>1, <2>2
<1>13. /\ unhandled'[u] = unhandled[u] /\ Len(unhandled') >= Len(unhandled)
       /\ slots \subseteq slots'
       /\ \A iv \in Later(unhandled', u) : iv \in Later(unhandled, u) \/ iv.name \in slots'
  BY <1>0, <1>4
<1>. QED  BY <1>0, <1>4, <1>7, <1>8, <1>9, <1>10, <1>11, <1>12, <1>13, PlacedSafe

(* An interval whose register is held up to where it starts is placed      *)
(* nowhere: its name has a register of its own or a slot.                  *)
LEMMA PlaceOwnEndingSafe ==
  ASSUME IInv, LifeInv, Safe, PlaceOwnEnding
  PROVE  Safe'
<1>0. /\ Placing /\ pc = "place" /\ u \in 1 .. Len(unhandled) /\ Len(unhandled) \in Nat
      /\ active \in Seq(Timely(code)) /\ unhandled \in Seq(Timely(code))
      /\ Current.reg # NoReg /\ Current.reg \in Held
  <2>1. Placing /\ pc # "abort" /\ pc = "place" /\ Current.reg # NoReg /\ Current.reg \in Held
    BY DEF PlaceOwnEnding, Placing
  <2>. QED  BY <2>1, CurrentLeaves, Facts
<1>1. /\ pc' = "scan"
      /\ UNCHANGED <<code, args, live_in, live_out, active, unhandled, inactive, place, slots,
                     u, limit, last_start, idx>>
  BY DEF PlaceOwnEnding, routine, sets, loops, emitted
<1>2. Handled = u - 1 /\ u \in u .. Len(unhandled)
  BY <1>0 DEF Handled
<1>3. HasPlace(Current.name, slots)
  <2>1. ~Arrived(Current, args)
    BY <1>0, <1>2, ArrivedIsFree DEF Current
  <2>2. Current \in Later(unhandled, Handled)
    BY <1>0, <1>2, LaterFrom DEF Current
  <2>. QED  BY <1>0, <2>1, <2>2 DEF Safe, EntryInv
<1>4. EntryInv'
  BY <1>0, <1>1, PlacedEntry
<1>5. /\ EndsSorted(active') /\ Elements(active') \subseteq Timely(code)
      /\ \A iv \in Elements(active') : idx <= iv.end
      /\ \A iv \in Elements(inactive') : idx <= iv.start /\ iv.reg \in Reg
  BY <1>0, <1>1 DEF Safe, EndsInv, StartsInv, Elements
<1>6. ASSUME NEW iv \in Kept(active, inactive, unhandled, u) \cup {Current}, NEW li \in Lis,
             Holds(iv, li)
      PROVE  HasPlace(li.name, slots')
             \/ \E e \in Kept(active', inactive', unhandled', u) : Holds(e, li)
  BY <1>1, <1>3, <1>6 DEF Kept, Holds
<1>. QED  BY <1>0, <1>1, <1>4, <1>5, <1>6, PlacedSafe

(* What is left of the active intervals when the i-th is taken out and the *)
(* current interval comes in in its register.                              *)
LEMMA RegisterPassed ==
  ASSUME IInv, LifeInv, Safe, Placing, NEW i \in 1 .. Len(active),
         NEW others \in Seq(Timely(code)), Without(others, active, i),
         RegsIn(others) = RegsIn(active) \ {active[i].reg},
         NEW new \in Timely(code), new.end = Current.end, new.reg = active[i].reg
  PROVE  LET b == AddToActive(others, new)
         IN  /\ MayAddToActive(others, new)
             /\ EndsSorted(b) /\ Elements(b) \subseteq Timely(code)
             /\ \A iv \in Elements(b) : idx <= iv.end
             /\ new \in Elements(b)
             /\ \A iv \in Elements(active) : iv = active[i] \/ iv \in Elements(b)
<1> DEFINE b == AddToActive(others, new)
<1>0. /\ active \in Seq(Timely(code)) /\ code \in Seq(Instruction) /\ pc = "place"
      /\ \A e \in Timely(code) : e.end \in Nat /\ e.start \in Nat /\ e.start <= e.end
      /\ Current \in Timely(code)
  <2>1. pc = "place" /\ pc # "abort"
    BY DEF Placing
  <2>2. code \in Seq(Instruction) /\ N \in Nat /\ active \in Seq(Timely(code))
    BY <2>1, Facts
  <2>. QED  BY <2>1, <2>2, TimelyFields, CurrentLeaves
<1>1. MayAddToActive(others, new)
  BY MayAdd
<1>2. /\ Elements(others) \subseteq Elements(active)
      /\ Elements(active) \subseteq Elements(others) \cup {active[i]}
      /\ EndsSorted(others)
  BY <1>0, WithoutElements, ActiveLess DEF Safe, EndsInv
<1>3. Elements(b) = Elements(others) \cup {new} /\ EndsSorted(b)
  BY <1>0, <1>2, ActiveAdded
<1>4. idx <= new.end
  BY <1>0 DEF Safe, ClockInv, ToPlace, Current
<1>5. \A iv \in Elements(b) : idx <= iv.end
  BY <1>0, <1>2, <1>3, <1>4 DEF Safe, EndsInv
<1>6. Elements(b) \subseteq Timely(code)
  <2>1. Elements(others) \subseteq Timely(code)
    BY DEF Elements
  <2>. QED  BY <1>3, <2>1
<1>. HIDE DEF b
<1>. QED  BY <1>1, <1>2, <1>3, <1>5, <1>6 DEF b

(* The holder of the register is cut in two.  Its name has its slot.       *)
LEMMA PlaceOwnSplitSafe ==
  ASSUME IInv, LifeInv, Safe, PlaceOwnSplit
  PROVE  Safe'
<1> DEFINE spill  == active[Holder]
           cur    == Current
           rest   == [spill EXCEPT !.start = Current.end + 1]
           others == RemoveAt(active, Holder)
<1>0. /\ Placing /\ pc = "place" /\ u \in 1 .. Len(unhandled) /\ Len(unhandled) \in Nat
      /\ active \in Seq(Timely(code)) /\ unhandled \in Seq(Timely(code))
      /\ inactive \in Seq(Timely(code))
      /\ cur.reg # NoReg /\ cur.reg \in Held
      /\ cur \in Timely(code) /\ code \in Seq(Instruction) /\ N \in Nat
      /\ StartsSorted(unhandled)
  <2>1. Placing /\ pc # "abort" /\ pc = "place" /\ cur.reg # NoReg /\ cur.reg \in Held
    BY DEF PlaceOwnSplit, Placing
  <2>. QED  BY <2>1, CurrentLeaves, Facts
<1>1. Holder \in 1 .. Len(active) /\ spill.reg = cur.reg
  BY <1>0, HolderHasRegister
<1>2. spill \in Timely(code) /\ spill \in Elements(active)
  BY ONLY <1>0, <1>1 DEF Elements
<1>3. others \in Seq(Timely(code)) /\ Without(others, active, Holder)
  BY ONLY <1>0, <1>1, TakenOut
<1>4. RegsIn(others) = RegsIn(active) \ {spill.reg}
  BY <1>0, <1>1, RemovedFromActive DEF IInv
<1>5. idx <= spill.end /\ spill.reg \in Reg
  BY <1>0, <1>2, ActiveReg DEF Safe, EndsInv
<1>6. /\ MayAddToActive(others, cur)
      /\ EndsSorted(AddToActive(others, cur))
      /\ Elements(AddToActive(others, cur)) \subseteq Timely(code)
      /\ \A iv \in Elements(AddToActive(others, cur)) : idx <= iv.end
      /\ cur \in Elements(AddToActive(others, cur))
      /\ \A iv \in Elements(active) : iv = spill \/ iv \in Elements(AddToActive(others, cur))
  <2>. HIDE DEF others
  <2>. QED  BY <1>0, <1>1, <1>3, <1>4, RegisterPassed
<1>7. /\ active' = AddToActive(others, cur)
      /\ slots' = slots \cup {spill.name}
      /\ IF rest.end > rest.start
         THEN unhandled' = AddByStart(unhandled, rest) /\ inactive' = inactive
         ELSE unhandled' = unhandled /\ inactive' = AddNextToInactive(inactive, rest)
      /\ pc' = "scan"
      /\ UNCHANGED <<code, args, live_in, live_out, place, u, limit, last_start, idx>>
  BY <1>6 DEF PlaceOwnSplit, routine, loops
<1>. HIDE DEF others, spill
<1>8. /\ rest.start = cur.end + 1 /\ rest.end = spill.end
      /\ rest.name = spill.name /\ rest.next = spill.next /\ rest.reg = spill.reg
  BY <1>2 DEF Timely, Entry, IntervalOf
<1>9. /\ cur.start \in 1 .. N /\ cur.end \in 1 .. N /\ cur.start <= cur.end
      /\ spill.end \in 1 .. N /\ cur = unhandled[u]
      /\ \A iv \in Timely(code) : iv.start \in Nat
  BY <1>0, <1>2, TimelyFields DEF Current
<1>10. /\ Elements(inactive) \subseteq Elements(inactive')
       /\ \A iv \in Elements(inactive') : idx <= iv.start /\ iv.reg \in Reg
  <2>1. CASE rest.end > rest.start
    BY <1>7, <2>1 DEF Safe, StartsInv
  <2>2. CASE ~(rest.end > rest.start)
    <3>1. inactive' = AddNextToInactive(inactive, spill)
      <4>. HIDE DEF rest
      <4>. QED  BY <1>7, <1>8, <2>2 DEF AddNextToInactive, NextOf
    <3>2. /\ Elements(inactive) \subseteq Elements(inactive')
          /\ \A e \in Elements(inactive') :
               e \in Elements(inactive) \/ (e.reg = spill.reg /\ spill.end < e.start)
      BY <1>0, <1>2, <3>1, NextWaiting
    <3>3. inactive' \in Seq(Timely(code))
      BY <1>0, <1>7, PlaceOwnSplitLife, LifeFacts DEF LifeInv, Lives
    <3>4. \A e \in Elements(inactive') : e.start \in Nat
      BY <1>9, <3>3 DEF Elements
    <3>5. idx \in Nat
      BY DEF Safe, ClockInv
    <3>. QED  BY <1>5, <1>9, <3>2, <3>4, <3>5 DEF Safe, StartsInv
  <2>. QED  BY <2>1, <2>2
<1>11. /\ unhandled'[u] = unhandled[u] /\ Len(unhandled') >= Len(unhandled)
       /\ Later(unhandled, u) \subseteq Later(unhandled', u)
       /\ \A iv \in Later(unhandled', u) :
            iv \in Later(unhandled, u) \/ (iv.name \in slots' /\ iv.start # 1)
  <2>1. CASE rest.end > rest.start
    <3>1. cur.end + 1 \in Positions(code) /\ cur.end + 1 <= spill.end /\ cur.start < cur.end + 1
          /\ cur.end + 1 # 1
      BY <1>0, <1>8, <1>9, <2>1 DEF Positions, N
    <3>2. rest \in Timely(code)
      BY <1>2, <3>1, TimelyChanged
    <3>. HIDE DEF rest, cur
    <3>3. unhandled[u].start < rest.start
      BY <1>8, <1>9, <3>1
    <3>4. /\ Later(unhandled', u) = Later(unhandled, u) \cup {rest}
          /\ unhandled'[u] = unhandled[u] /\ Len(unhandled') = Len(unhandled) + 1
      <4>1. unhandled' = AddByStart(unhandled, rest)
        BY <1>7, <2>1
      <4>2. /\ unhandled \in Seq(Timely(code)) /\ StartsSorted(unhandled)
            /\ u \in 1 .. Len(unhandled) /\ \A iv \in Timely(code) : iv.start \in Nat
        BY <1>0, <1>9
      <4>3. /\ Later(AddByStart(unhandled, rest), u) = Later(unhandled, u) \cup {rest}
            /\ AddByStart(unhandled, rest)[u] = unhandled[u]
            /\ Len(AddByStart(unhandled, rest)) = Len(unhandled) + 1
        BY ONLY <3>2, <3>3, <4>2, LaterAdded
      <4>. QED  BY ONLY <4>1, <4>3
    <3>. QED  BY <1>0, <1>7, <1>8, <3>1, <3>4
  <2>2. CASE ~(rest.end > rest.start)
    BY <1>0, <1>7, <2>2
  <2>. QED  BY <2>1, <2>2
<1>. HIDE DEF rest
<1>12. EntryInv'
  BY <1>0, <1>7, <1>11, PlacedEntry
<1>13. ASSUME NEW iv \in Kept(active, inactive, unhandled, u) \cup {Current}, NEW li \in Lis,
              Holds(iv, li)
       PROVE  HasPlace(li.name, slots')
              \/ \E e \in Kept(active', inactive', unhandled', u) : Holds(e, li)
  <2>1. CASE iv = spill
    BY <1>7, <1>13, <2>1 DEF HasPlace, Holds
  <2>2. CASE iv # spill
    BY <1>6, <1>7, <1>10, <1>11, <1>13, <2>2 DEF Kept
  <2>. QED  BY <2>1, <2>2
<1>. QED  BY <1>0, <1>6, <1>7, <1>10, <1>11, <1>12, <1>13, PlacedSafe

(* The interval that ends last gives its register away.                    *)
LEMMA PlaceBySpillingSafe ==
  ASSUME IInv, LifeInv, Safe, PlaceBySpilling
  PROVE  Safe'
<1> DEFINE spill  == Last(active)
           cur    == Current
           new    == [cur EXCEPT !.reg = spill.reg]
           others == Front(active)
<1>0. /\ Placing /\ pc = "place" /\ u \in 1 .. Len(unhandled) /\ Len(unhandled) \in Nat
      /\ active \in Seq(Timely(code)) /\ unhandled \in Seq(Timely(code))
      /\ inactive \in Seq(Timely(code)) /\ active # <<>> /\ cur.reg = NoReg
      /\ cur \in Timely(code) /\ code \in Seq(Instruction) /\ N \in Nat
  <2>1. Placing /\ pc # "abort" /\ pc = "place" /\ cur.reg = NoReg /\ active # <<>>
    BY DEF PlaceBySpilling, Placing
  <2>. QED  BY <2>1, CurrentLeaves, Facts
<1>1. /\ Len(active) \in 1 .. Len(active) /\ spill = active[Len(active)]
      /\ others \in Seq(Timely(code)) /\ Without(others, active, Len(active))
  BY <1>0, TakenOut
<1>2. spill \in Timely(code) /\ spill \in Elements(active)
  BY ONLY <1>0, <1>1 DEF Elements
<1>3. RegsIn(others) = RegsIn(active) \ {spill.reg}
  BY <1>0, LastRemoved DEF IInv
<1>4. idx <= spill.end /\ spill.reg \in Reg
  BY <1>0, <1>2, ActiveReg DEF Safe, EndsInv
<1>. HIDE DEF spill, others
<1>5. /\ new \in Timely(code) /\ new.end = cur.end /\ new.reg = spill.reg
      /\ \A li : Holds(cur, li) => Holds(new, li)
  <2>. HIDE DEF cur
  <2>. QED  BY <1>0, <1>4, RegHolds, TimelyChanged DEF Timely
<1>. HIDE DEF new
<1>6. /\ MayAddToActive(others, new)
      /\ EndsSorted(AddToActive(others, new))
      /\ Elements(AddToActive(others, new)) \subseteq Timely(code)
      /\ \A iv \in Elements(AddToActive(others, new)) : idx <= iv.end
      /\ new \in Elements(AddToActive(others, new))
      /\ \A iv \in Elements(active) : iv = spill \/ iv \in Elements(AddToActive(others, new))
  BY <1>0, <1>1, <1>3, <1>5, RegisterPassed
<1>7. /\ active' = AddToActive(others, new)
      /\ slots' = slots \cup {spill.name}
      /\ inactive' = AddNextToInactive(inactive, spill)
      /\ pc' = "scan"
      /\ UNCHANGED <<code, args, live_in, live_out, unhandled, place, u, limit, last_start, idx>>
  BY <1>6 DEF PlaceBySpilling, routine, loops, spill, others, new
<1>8. /\ Elements(inactive) \subseteq Elements(inactive')
      /\ \A iv \in Elements(inactive') : idx <= iv.start /\ iv.reg \in Reg
  <2>1. /\ Elements(inactive) \subseteq Elements(inactive')
        /\ \A e \in Elements(inactive') :
             e \in Elements(inactive) \/ (e.reg = spill.reg /\ spill.end < e.start)
    BY <1>0, <1>2, <1>7, NextWaiting
  <2>2. inactive' \in Seq(Timely(code))
    BY <1>0, <1>7, PlaceBySpillingLife, LifeFacts DEF LifeInv, Lives
  <2>3. (\A e \in Elements(inactive') : e.start \in Nat) /\ spill.end \in Nat
    BY <1>0, <1>2, <2>2, TimelyFields DEF Elements
  <2>4. idx \in Nat
    BY DEF Safe, ClockInv
  <2>. QED  BY <1>4, <2>1, <2>3, <2>4 DEF Safe, StartsInv
<1>9. EntryInv'
  BY <1>0, <1>7, PlacedEntry
<1>10. ASSUME NEW iv \in Kept(active, inactive, unhandled, u) \cup {Current}, NEW li \in Lis,
              Holds(iv, li)
       PROVE  HasPlace(li.name, slots')
              \/ \E e \in Kept(active', inactive', unhandled', u) : Holds(e, li)
  <2>1. CASE iv = spill
    BY <1>7, <1>10, <2>1 DEF HasPlace, Holds
  <2>2. CASE iv = cur
    BY <1>5, <1>6, <1>7, <1>10, <2>2 DEF Kept
  <2>3. CASE iv # spill /\ iv # cur
    BY <1>6, <1>7, <1>8, <1>10, <2>3 DEF Kept
  <2>. QED  BY <2>1, <2>2, <2>3
<1>11. unhandled'[u] = unhandled[u] /\ Len(unhandled') >= Len(unhandled)
       /\ \A iv \in Later(unhandled', u) : iv \in Later(unhandled, u) \/ iv.name \in slots'
  BY <1>0, <1>7
<1>. QED  BY <1>0, <1>6, <1>7, <1>8, <1>9, <1>10, <1>11, PlacedSafe

(* An interval that lives in its slot: some register of the class is held, *)
(* for none is free.                                                       *)
LEMMA PlaceInSlotSafe ==
  ASSUME Placeable, IInv, LifeInv, Safe, PlaceInSlot
  PROVE  Safe'
<1> DEFINE cur == Current
           n   == NextOf(cur)
           c   == ClassOf[cur.name]
<1>0. /\ Placing /\ pc = "place" /\ u \in 1 .. Len(unhandled) /\ Len(unhandled) \in Nat
      /\ active \in Seq(Timely(code)) /\ unhandled \in Seq(Timely(code))
      /\ cur.reg = NoReg /\ ~Pool!HasFreeRegisters(c) /\ c \in Class
      /\ cur \in Timely(code) /\ code \in Seq(Instruction) /\ N \in Nat
      /\ StartsSorted(unhandled)
  <2>1. Placing /\ pc # "abort" /\ pc = "place" /\ cur.reg = NoReg
        /\ ~Pool!HasFreeRegisters(c)
    BY DEF PlaceInSlot, Placing
  <2>. QED  BY <2>1, CurrentLeaves, CurrentTyped, Facts
<1>1. active # <<>>
  <2>. SUFFICES ASSUME active = <<>>  PROVE FALSE
    OBVIOUS
  <2>. HIDE DEF c
  <2>1. Held = {}
    BY DEF Held
  <2>2. Elements(free_regs[c]) = {}
    BY <1>0 DEF Pool!HasFreeRegisters, Elements
  <2>3. ClassRegs[c] = {}
    BY <1>0, <2>1, <2>2 DEF IInv, PoolKept, Shared
  <2>. QED  BY <1>0, <2>3 DEF ClassRegs, Placeable
<1>2. /\ slots' = slots \cup {cur.name}
      /\ unhandled' = IF cur.next = <<>> THEN unhandled ELSE AddByStart(unhandled, n)
      /\ pc' = "scan"
      /\ UNCHANGED <<code, args, live_in, live_out, active, inactive, place, u, limit,
                     last_start, idx>>
  BY <1>1 DEF PlaceInSlot, routine, loops
<1>. HIDE DEF c
<1>3. /\ EndsSorted(active') /\ Elements(active') \subseteq Timely(code)
      /\ \A iv \in Elements(active') : idx <= iv.end
      /\ \A iv \in Elements(inactive') : idx <= iv.start /\ iv.reg \in Reg
  BY <1>0, <1>2 DEF Safe, EndsInv, StartsInv, Elements
<1>4. cur.start \in 1 .. N /\ cur.end \in 1 .. N /\ cur.start <= cur.end /\ cur = unhandled[u]
  BY <1>0, TimelyFields DEF Current
<1>5. /\ unhandled'[u] = unhandled[u] /\ Len(unhandled') >= Len(unhandled)
      /\ Later(unhandled, u) \subseteq Later(unhandled', u)
      /\ \A iv \in Later(unhandled', u) :
           iv \in Later(unhandled, u) \/ (iv.name \in slots' /\ iv.start # 1)
  <2>1. CASE cur.next = <<>>
    BY <1>0, <1>2, <2>1
  <2>2. CASE cur.next # <<>>
    <3>. HIDE DEF cur
    <3>1. n \in Timely(code) /\ n.name = cur.name /\ cur.end < n.start
      BY <1>0, <2>2, TimelyNext
    <3>. HIDE DEF n
    <3>2. n.start \in 1 .. N /\ \A iv \in Timely(code) : iv.start \in Nat
      BY <1>0, <3>1, TimelyFields
    <3>3. unhandled[u].start < n.start /\ n.start # 1
      BY <1>0, <1>4, <3>1, <3>2
    <3>4. /\ Later(unhandled', u) = Later(unhandled, u) \cup {n}
          /\ unhandled'[u] = unhandled[u] /\ Len(unhandled') = Len(unhandled) + 1
      BY <1>0, <1>2, <2>2, <3>1, <3>2, <3>3, LaterAdded
    <3>. QED  BY <1>0, <1>2, <3>1, <3>3, <3>4
  <2>. QED  BY <2>1, <2>2
<1>6. EntryInv'
  BY <1>0, <1>2, <1>5, PlacedEntry
<1>7. ASSUME NEW iv \in Kept(active, inactive, unhandled, u) \cup {Current}, NEW li \in Lis,
             Holds(iv, li)
      PROVE  HasPlace(li.name, slots')
             \/ \E e \in Kept(active', inactive', unhandled', u) : Holds(e, li)
  <2>1. CASE iv = Current
    BY <1>2, <1>7, <2>1 DEF HasPlace, Holds
  <2>2. CASE iv # Current
    BY <1>2, <1>5, <1>7, <2>2 DEF Kept
  <2>. QED  BY <2>1, <2>2
<1>. HIDE DEF n
<1>. QED  BY <1>0, <1>2, <1>3, <1>5, <1>6, <1>7, PlacedSafe

(* Going on to the next instruction, when the operands of this one have    *)
(* been replaced.                                                          *)
LEMMA AdvancedSafe ==
  ASSUME IInv, LifeInv, Safe, pc \in {"instr", "operands"}, pc' = "scan", idx' = idx + 1,
         UNCHANGED <<code, args, live_in, live_out, unhandled, inactive, u, limit, last_start>>,
         slots \subseteq slots', DOMAIN place' = Positions(code),
         \A p \in Positions(code) : ScannedIn(code, place, p) => ScannedIn(code, place', p),
         ScannedIn(code, place', idx),
         EndsSorted(active'), Elements(active') \subseteq Elements(active),
         \A iv \in Elements(active) : iv \in Elements(active') \/ iv.name \in slots'
  PROVE  Safe'
<1>0. /\ N \in Nat /\ code \in Seq(Instruction) /\ Positions(code) = 1 .. N
      /\ idx \in Nat \ {0} /\ idx < limit /\ limit \in 1 .. N + 1 /\ last_start \in Nat \ {0}
      /\ active \in Seq(Timely(code)) /\ inactive \in Seq(Timely(code))
      /\ unhandled \in Seq(Timely(code)) /\ u \in Nat \ {0} /\ Len(unhandled) \in Nat
  BY Facts DEF Safe, ClockInv, ToScan
<1>1. Handled' = Handled /\ Handled = u
  BY DEF Handled
<1>2. ~Entering
  BY <1>0, <1>1 DEF Entering
<1>3. GivenInv'
  BY DEF Safe, GivenInv
<1>4. EntryInv'
  BY <1>1, <1>2, Entered DEF Safe
<1>5. ClockInv'
  <2>1. u <= Len(unhandled) => unhandled[u].start <= idx + 1
    <3>1. u <= Len(unhandled) => unhandled[u] \in Timely(code)
      BY <1>0
    <3>2. u <= Len(unhandled) => unhandled[u].start \in 1 .. N
      BY <1>0, <3>1, TimelyFields
    <3>. QED  BY <1>0, <3>2 DEF Safe, ClockInv
  <2>2. N' = N
    BY DEF N
  <2>3. \A iv \in Later(unhandled, u) : iv.name \in slots \/ limit <= iv.start
    BY DEF Safe, ClockInv, ToScan
  <2>4. Later(unhandled, u)' = Later(unhandled, u)
    OBVIOUS
  <2>. QED  BY <1>0, <2>1, <2>2, <2>3, <2>4 DEF ClockInv, ToPlace, ToScan
<1>6. EndsInv'
  <2>1. ASSUME NEW iv \in Elements(active)  PROVE idx + 1 <= iv.end + 1
    <3>1. iv \in Timely(code)
      BY <1>0 DEF Elements
    <3>2. iv.end \in 1 .. N /\ idx <= iv.end
      BY <1>0, <3>1, TimelyFields DEF Safe, EndsInv
    <3>. QED  BY <1>0, <3>2
  <2>. QED  BY <2>1 DEF EndsInv
<1>7. StartsInv'
  <2>1. ASSUME NEW iv \in Elements(inactive)  PROVE idx + 1 <= iv.start /\ iv.reg \in Reg
    <3>1. iv \in Timely(code)
      BY <1>0 DEF Elements
    <3>2. iv.start \in 1 .. N /\ idx < iv.start /\ iv.reg \in Reg
      BY <1>0, <3>1, TimelyFields DEF Safe, StartsInv
    <3>. QED  BY <1>0, <3>2
  <2>. QED  BY <2>1 DEF StartsInv
<1>8. CoverInv'
  <2> DEFINE K == Kept(active', inactive', unhandled', Handled')
  <2>1. ASSUME NEW iv \in Kept(active, inactive, unhandled, Handled), NEW li \in Lis,
               Holds(iv, li)
        PROVE  Settled(li, code, place', slots') \/ \E new \in K : Holds(new, li)
    <3>1. CASE iv \in K
      BY <2>1, <3>1
    <3>2. CASE iv.name \in slots'
      BY <2>1, <3>2 DEF Settled, HasPlace, Holds
    <3>3. iv \in K \/ iv.name \in slots'
      BY <1>1 DEF Kept
    <3>. QED  BY <3>1, <3>2, <3>3
  <2>. HIDE DEF K
  <2>2. \A li \in Lis' : Settled(li, code', place', slots') \/ \E iv \in K : Holds(iv, li)
    BY <1>0, <2>1, CoverKept, LisTyped DEF Safe
  <2>3. ASSUME NEW p \in Positions(code), p < idx + 1  PROVE ScannedIn(code, place', p)
    <3>1. p = idx \/ p < idx
      BY <1>0, <2>3
    <3>. QED  BY <3>1 DEF Safe, CoverInv
  <2>. QED  BY <2>2, <2>3 DEF CoverInv, K
<1>. QED  BY <1>3, <1>4, <1>5, <1>6, <1>7, <1>8 DEF Safe

(* The instruction at work is one of the code.                             *)
LEMMA AtInstruction ==
  ASSUME IInv, LifeInv, Safe, pc \in {"instr", "operands"}
  PROVE  idx \in Positions(code) /\ Positions(code) = DOMAIN place
<1>1. /\ N \in Nat /\ Positions(code) = 1 .. N
      /\ idx \in Nat \ {0} /\ idx < limit /\ limit \in 1 .. N + 1
  BY Facts DEF Safe, ClockInv, ToScan
<1>. QED  BY <1>1 DEF Safe, GivenInv

(* Every operand of the instruction has been replaced.                     *)
LEMMA OperandsSetSafe ==
  ASSUME IInv, LifeInv, Safe, OperandsSet
  PROVE  Safe'
<1>1. /\ pc = "operands" /\ pc' = "scan" /\ idx' = idx + 1
      /\ ScannedIn(code, place, idx)
      /\ UNCHANGED <<code, args, live_in, live_out, active, inactive, unhandled, place, slots,
                     u, limit, last_start>>
  BY DEF OperandsSet, ScannedIn, routine, sets, emitted
<1>. QED  BY <1>1, AdvancedSafe DEF Safe, GivenInv, EndsInv

(* OP_SPILL replaces its one operand.                                      *)
LEMMA SpillScans ==
  ASSUME IInv, LifeInv, Safe, AtSpill, NEW x, SpillDone(x)
  PROVE  /\ DOMAIN place' = Positions(code) /\ ScannedIn(code, place', idx)
         /\ \A p \in Positions(code) : ScannedIn(code, place, p) => ScannedIn(code, place', p)
<1>0. pc = "instr" /\ code[idx].op = "SPILL"
  BY DEF AtSpill
<1>1. idx \in Positions(code) /\ Positions(code) = DOMAIN place
  BY <1>0, AtInstruction
<1>2. place' = [place EXCEPT ![idx] = [y \in {Spillee} |-> x]]
  BY DEF SpillDone
<1>3. PICK v \in code[idx].reads : Operands(code[idx]) = {v}
  BY <1>0, <1>1 DEF Safe, GivenInv, Readable
<1>4. Spillee = v
  <2>1. Spillee \in code[idx].reads
    BY <1>3 DEF Spillee
  <2>. QED  BY <1>3, <2>1 DEF Operands
<1>5. place'[idx] = [y \in {v} |-> x] /\ DOMAIN place' = DOMAIN place
      /\ \A p \in DOMAIN place : p # idx => place'[p] = place[p]
  BY <1>1, <1>2, <1>4
<1>6. DOMAIN place'[idx] = {v}
  BY <1>5
<1>7. ScannedIn(code, place', idx)
  BY <1>3, <1>6 DEF ScannedIn
<1>8. \A p \in Positions(code) : ScannedIn(code, place, p) => ScannedIn(code, place', p)
  BY <1>1, <1>5, <1>7 DEF ScannedIn
<1>. QED  BY <1>1, <1>5, <1>7, <1>8

(* OP_SPILL: the name has its slot, and its register is released.          *)
LEMMA ScanSpillSafe ==
  ASSUME Placeable, IInv, LifeInv, Safe, ScanSpill \/ ScanSpillNop
  PROVE  Safe'
<1> DEFINE h == SpillHolder
<1>0. /\ AtSpill /\ pc = "instr" /\ active \in Seq(Timely(code)) /\ active \in Seq(Entry(code))
      /\ code \in Seq(Instruction)
  <2>1. AtSpill /\ pc = "instr" /\ pc # "abort"
    BY DEF ScanSpill, ScanSpillNop, AtSpill
  <2>. QED  BY <2>1, Facts DEF IInv, SetsTyped
<1>1. CASE ScanSpill
  <2>1. h \in 1 .. Len(active) /\ active[h].name = Spillee
    BY <1>0, <1>1, SpillHolderHasName DEF ScanSpill
  <2>2. active[h] \in Elements(active) /\ active[h] \in Timely(code)
    BY <1>0, <2>1 DEF Elements
  <2>3. IsOfClass(active[h])
    BY <1>0, <2>2, ActiveReg, TimelyFields, RegOfClass DEF IsOfClass
  <2>4. /\ SpillDone(active[h].reg) /\ slots' = slots \cup {active[h].name}
        /\ active' = RemoveAt(active, h)
    BY <1>1, <2>1, <2>3 DEF ScanSpill
  <2>5. RemoveAt(active, h) \in Seq(Timely(code)) /\ Without(RemoveAt(active, h), active, h)
    BY <1>0, <2>1, TakenOut
  <2>. HIDE DEF h
  <2>6. /\ Elements(active') \subseteq Elements(active) /\ EndsSorted(active')
        /\ \A iv \in Elements(active) : iv \in Elements(active') \/ iv = active[h]
    BY <1>0, <2>1, <2>4, <2>5, WithoutElements, ActiveLess DEF Safe, EndsInv
  <2>7. /\ pc' = "scan" /\ idx' = idx + 1
        /\ UNCHANGED <<code, args, live_in, live_out, unhandled, inactive, u, limit, last_start>>
    BY <2>4 DEF SpillDone, routine
  <2>. QED  BY <1>0, <2>4, <2>6, <2>7, SpillScans, AdvancedSafe
<1>2. CASE ScanSpillNop
  <2>1. SpillDone(Slot) /\ UNCHANGED <<active, slots>>
    BY <1>2 DEF ScanSpillNop
  <2>2. /\ pc' = "scan" /\ idx' = idx + 1
        /\ UNCHANGED <<code, args, live_in, live_out, unhandled, inactive, u, limit, last_start>>
    BY <2>1 DEF SpillDone, routine
  <2>. QED  BY <1>0, <2>1, <2>2, SpillScans, AdvancedSafe DEF Safe, EndsInv
<1>. QED  BY <1>1, <1>2

(* An active interval is found by its name, and has a register.            *)
LEMMA ActiveIsFound ==
  ASSUME Placeable, IInv, LifeInv, pc # "abort", NEW iv \in Elements(active)
  PROVE  ActiveRegister(iv.name) # NoReg
<1> DEFINE n == Len(active)
           I == {i \in 1 .. n : active[i].name = iv.name}
           a == SelectInSeq(active, LAMBDA o : o.name = iv.name)
<1>0. /\ active \in Seq(Timely(code)) /\ n \in Nat /\ DOMAIN active = 1 .. n
      /\ code \in Seq(Instruction)
  BY Facts
<1>1. I # {} /\ I \subseteq 1 .. n
  BY <1>0 DEF Elements
<1>2. a = IF I # {} THEN Min(I) ELSE 0
  BY DEF SelectInSeq
<1>3. a \in I
  <2>. HIDE DEF I, a, n
  <2>. QED  BY <1>0, <1>1, <1>2, FirstIndex
<1>4. a \in 1 .. n /\ active[a] \in Elements(active) /\ a # 0
  <2>1. a \in 1 .. n
    <3>. HIDE DEF a, n
    <3>. QED  BY <1>3
  <2>. HIDE DEF a
  <2>. QED  BY <1>0, <2>1 DEF Elements
<1>5. active[a].reg \in Reg
  BY <1>4, ActiveReg
<1>6. ActiveRegister(iv.name)
        = IF FixedReg[iv.name] # NoReg THEN FixedReg[iv.name] ELSE active[a].reg
  BY <1>4 DEF ActiveRegister
<1>. QED  BY <1>5, <1>6 DEF Placeable

(* An operand has a place: its live interval is settled, or its holder is  *)
(* active, for the others start later.                                     *)
LEMMA OperandHasPlace ==
  ASSUME Placeable, IInv, LifeInv, Safe, pc = "operands",
         NEW x \in Operands(code[idx]) \ DOMAIN place[idx], ActiveRegister(x) = NoReg
  PROVE  x \in slots
<1>0. /\ idx \in Positions(code) /\ code \in Seq(Instruction) /\ idx \in Nat /\ N \in Nat
      /\ active \in Seq(Timely(code)) /\ inactive \in Seq(Timely(code))
      /\ unhandled \in Seq(Timely(code)) /\ u \in Nat \ {0} /\ Len(unhandled) \in Nat
      /\ Handled = u /\ idx < limit /\ limit \in Nat /\ Positions(code) = 1 .. N
  BY Facts, AtInstruction DEF Safe, ClockInv, ToScan, Handled
<1>1. SUFFICES ASSUME x \notin slots  PROVE FALSE
  OBVIOUS
<1>2. PICK li \in Lis : li.name = x /\ li.start <= idx /\ idx <= li.end
  BY <1>0, OperandIsLive DEF Safe
<1>3. ~HasPlace(x, slots)
  BY <1>1, <1>0, ActiveRegister(x) = NoReg DEF ActiveRegister, HasPlace
<1>4. ~Settled(li, code, place, slots)
  <2>1. li.start \in 1 .. N /\ li.end \in 1 .. N
    BY <1>0, LisTyped
  <2>2. idx \in li.start .. li.end
    BY <1>0, <1>2, <2>1
  <2>3. ~ScannedIn(code, place, idx)
    BY DEF ScannedIn
  <2>. QED  BY <1>2, <1>3, <2>2, <2>3 DEF Settled
<1>5. PICK iv \in Kept(active, inactive, unhandled, Handled) : Holds(iv, li)
  BY <1>0, <1>4 DEF Safe, CoverInv
<1>6. iv \in Timely(code)
  <2>1. \A j \in u + 1 .. Len(unhandled) : unhandled[j] \in Timely(code)
    BY <1>0
  <2>2. Elements(active) \subseteq Timely(code) /\ Elements(inactive) \subseteq Timely(code)
    BY <1>0 DEF Elements
  <2>. QED  BY <1>0, <2>1, <2>2 DEF Kept, Later
<1>7. iv.name = x /\ iv.start <= li.start /\ iv.start \in 1 .. N /\ li.start \in 1 .. N
  BY <1>0, <1>2, <1>5, <1>6, HeldFrom, TimelyFields
<1>8. iv.start <= idx
  BY <1>0, <1>2, <1>7
<1>9. CASE iv \in Elements(active)
  BY <1>7, <1>9, ActiveIsFound DEF Safe
<1>10. CASE iv \in Elements(inactive)
  <2>1. idx < iv.start
    BY <1>10 DEF Safe, StartsInv
  <2>. QED  BY <1>0, <1>7, <1>8, <2>1
<1>11. CASE iv \in Later(unhandled, u)
  <2>1. limit <= iv.start
    BY <1>1, <1>7, <1>11 DEF Safe, ClockInv, ToScan
  <2>. QED  BY <1>0, <1>7, <1>8, <2>1
<1>. QED  BY <1>0, <1>5, <1>9, <1>10, <1>11 DEF Kept

(* One operand is replaced: it has a register or a slot.                   *)
LEMMA SetOperandSafe ==
  ASSUME Placeable, IInv, LifeInv, Safe, NEW x \in Name, SetOperand(x)
  PROVE  Safe'
<1>0. /\ pc = "operands" /\ x \in Operands(code[idx]) \ DOMAIN place[idx]
  BY DEF SetOperand
<1>1. idx \in Positions(code) /\ Positions(code) = DOMAIN place
      /\ code \in Seq(Instruction)
  BY <1>0, AtInstruction, Facts
<1>2. ActiveRegister(x) = NoReg => x \in slots
  BY <1>0, OperandHasPlace
<1>3. /\ \E r : place' = [place EXCEPT ![idx] =
                           [y \in {x} \cup DOMAIN @ |-> IF y = x THEN r ELSE @[y]]]
      /\ UNCHANGED <<code, args, live_in, live_out, active, inactive, unhandled, slots,
                     u, limit, last_start, idx, k, then, pc>>
  BY <1>2 DEF SetOperand, routine, pool, sets, loops
<1>4. PICK r : place' = [place EXCEPT ![idx] =
                       [y \in {x} \cup DOMAIN @ |-> IF y = x THEN r ELSE @[y]]]
  BY <1>3
<1>5. place'[idx] = [y \in {x} \cup DOMAIN place[idx] |-> IF y = x THEN r ELSE place[idx][y]]
  BY <1>1, <1>4
<1>6. DOMAIN place' = DOMAIN place /\ DOMAIN place'[idx] = {x} \cup DOMAIN place[idx]
      /\ \A p \in DOMAIN place : p # idx => place'[p] = place[p]
  BY <1>1, <1>4, <1>5
<1>7. \A p \in Positions(code) : ScannedIn(code, place, p) => ScannedIn(code, place', p)
  BY <1>1, <1>6 DEF ScannedIn
<1>8. Handled' = Handled
  BY <1>3 DEF Handled
<1>9. GivenInv' /\ EndsInv' /\ StartsInv'
  BY <1>1, <1>3, <1>6 DEF Safe, GivenInv, EndsInv, StartsInv
<1>10. ClockInv'
  BY <1>0, <1>3 DEF Safe, ClockInv, ToPlace, ToScan, N
<1>11. EntryInv'
  BY <1>3, <1>8 DEF Safe, EntryInv, Entering
<1>12. CoverInv'
  <2> DEFINE K == Kept(active, inactive, unhandled, Handled)
  <2>1. \A li \in Lis' : Settled(li, code', place', slots') \/ \E iv \in K : Holds(iv, li)
    BY <1>0, <1>1, <1>3, <1>7, CoverKept, LisTyped DEF Safe
  <2>. QED  BY <1>0, <1>3, <1>7, <1>8, <2>1 DEF Safe, CoverInv
<1>. QED  BY <1>0, <1>3, <1>9, <1>10, <1>11, <1>12 DEF Safe

(* The heads that arrive in registers are those of the smallest key.       *)
LEMMA FreshFirst ==
  ASSUME NEW iv, NEW a, iv.start \in Nat \ {0}, Fresh(iv, a)
  PROVE  /\ Arrived(iv, a) => Key(iv) = 3
         /\ Key(iv) <= 3 => Arrived(iv, a)
         /\ FixedReg[iv.name] # NoReg \/ iv.reg = NoReg \/ Arrived(iv, a)
<1>1. Rank(iv) \in {0, 1, 2}
  BY DEF Rank
<1>2. ASSUME Arrived(iv, a)  PROVE Key(iv) = 3
  <2>1. iv.is_spilled = FALSE /\ iv.is_fixed = FALSE /\ iv.reg # NoReg /\ iv.start = 1
    BY <1>2 DEF Arrived, Fresh, OfArgument
  <2>2. Rank(iv) = 0
    BY <2>1 DEF Rank
  <2>. QED  BY <2>1, <2>2 DEF Key
<1>3. ASSUME Key(iv) <= 3  PROVE Arrived(iv, a)
  <2>1. iv.start = 1 /\ Rank(iv) = 0
    BY <1>1, <1>3 DEF Key
  <2>2. ~iv.is_spilled /\ ~iv.is_fixed /\ iv.reg # NoReg
    BY <2>1 DEF Rank
  <2>3. OfArgument(iv, a)
    BY <2>2 DEF Fresh
  <2>. QED  BY <2>1, <2>2, <2>3 DEF Fresh, OfArgument, Arrived
<1>. QED  BY <1>2, <1>3 DEF Fresh, OfArgument, Arrived

(* The scan begins with a head for every live interval, those of the       *)
(* arguments in registers first.                                           *)
LEMMA SortSafe ==
  ASSUME IInv, LifeInv, Safe, SortIntervals
  PROVE  Safe'
<1> DEFINE heads == Chains(Lis)
           w == unhandled'
<1>1. code \in Seq(Instruction) /\ N \in Nat /\ Positions(code) = 1 .. N
  BY Facts DEF Safe
<1>2. pc = "sort" /\ u = 1 /\ active = <<>> /\ inactive = <<>>
  BY DEF SortIntervals, IInv, AtWork, LifeInv, SortedFrom
<1>3. /\ UNCHANGED <<code, args, live_in, live_out, slots, place, active, inactive>>
      /\ UNCHANGED <<u, idx, limit, last_start>> /\ pc' = "take"
  BY DEF SortIntervals, routine, loops, emitted
<1>4. w \in ByStart(heads)
  BY DEF SortIntervals, Lis
<1>5. /\ IsFiniteSet(heads) /\ heads \subseteq Entry(code)
      /\ \A iv \in heads : Fresh(iv, args)
      /\ \A li \in Lis : \E iv \in heads : Holds(iv, li)
  <2>1. IsFiniteSet(Lis) /\ Lis \subseteq LiveInterval(code)
        /\ \A l, m \in Lis : l.name = m.name /\ l.start = m.start => l = m
    BY <1>1, LiveIntervalsTyped DEF Lis
  <2>. HIDE DEF heads
  <2>2. \A l \in Lis : \E c \in Chains(Lis) : Holds(c, l)
    BY <1>1, <2>1, ChainsTyped
  <2>3. /\ IsFiniteSet(Chains(Lis)) /\ Chains(Lis) \subseteq Entry(code)
        /\ \A c \in Chains(Lis) : Fresh(c, args)
    BY <1>1, <2>1, ChainsTyped
  <2>. QED  BY <2>2, <2>3 DEF heads
<1>. HIDE DEF heads
<1>6. \A iv \in heads : iv.start \in 1 .. N
  BY <1>1, <1>5, EntryFields, PositionsOf DEF N
<1>7. /\ w \in Seq(heads) /\ Elements(w) = heads
      /\ \A i, j \in DOMAIN w : i < j => Key(w[i]) <= Key(w[j])
  BY <1>1, <1>4, <1>5, <1>6, ByStartTyped
<1>. HIDE DEF w
<1>8. Len(w) \in Nat /\ DOMAIN w = 1 .. Len(w) /\ \A j \in 1 .. Len(w) : w[j] \in heads
  BY <1>7
<1>9. ASSUME NEW iv \in heads
      PROVE  /\ Arrived(iv, args) => Key(iv) = 3
             /\ Key(iv) <= 3 => Arrived(iv, args)
             /\ HasPlace(iv.name, slots) \/ iv.reg = NoReg \/ Arrived(iv, args)
  <2>1. iv.start \in Nat \ {0} /\ Fresh(iv, args)
    BY <1>1, <1>5, <1>6
  <2>. QED  BY <2>1, FreshFirst DEF HasPlace
<1>10. Handled' = 0 /\ Later(w, 0) = Elements(w) /\ u' = 1
  <2>1. Later(w, 0) = Elements(w)
    BY <1>8 DEF Later, Elements
  <2>. QED  BY <1>2, <1>3, <2>1 DEF Handled
<1>11. GivenInv'
  BY <1>3 DEF Safe, GivenInv
<1>12. ClockInv'
  BY <1>2, <1>3 DEF Safe, ClockInv, ToPlace, ToScan, N
<1>13. EndsInv' /\ StartsInv'
  BY <1>2, <1>3 DEF EndsInv, EndsSorted, StartsInv, Elements
<1>14. EntryInv'
  <2>1. Entering'
    <3>1. idx = 1
      BY <1>2 DEF Safe, ClockInv
    <3>2. Elements(active)' = {}
      BY <1>2, <1>3 DEF Elements
    <3>. QED  BY <1>2, <1>3, <1>10, <3>1, <3>2 DEF Entering
  <2>2. ASSUME NEW j \in 1 .. Len(w), Arrived(w[j], args), NEW m \in 1 .. j
        PROVE  Arrived(w[m], args)
    <3>1. m \in 1 .. Len(w) /\ (m = j \/ m < j)
      BY <1>8
    <3>2. CASE m < j
      <4>1. Key(w[m]) <= Key(w[j]) /\ Key(w[j]) = 3
        BY <1>7, <1>8, <1>9, <2>2, <3>1, <3>2
      <4>. QED  BY <1>8, <1>9, <3>1, <4>1
    <3>. QED  BY <2>2, <3>1, <3>2
  <2>3. \A iv \in Later(w, 0) : HasPlace(iv.name, slots) \/ iv.reg = NoReg \/ Arrived(iv, args)
    BY <1>7, <1>9, <1>10
  <2>4. 0 + 1 .. Len(w) = 1 .. Len(w)
    OBVIOUS
  <2>. QED  BY <1>3, <1>10, <2>1, <2>2, <2>3, <2>4 DEF EntryInv, w
<1>15. CoverInv'
  <2>1. \A li \in Lis : \E iv \in Elements(w) : Holds(iv, li)
    BY <1>5, <1>7
  <2>2. Lis' = Lis
    BY <1>3 DEF Lis
  <2>3. Elements(w) \subseteq Kept(active, inactive, w, 0)
    BY <1>10 DEF Kept
  <2>4. \A p \in Positions(code) : p < idx => ScannedIn(code, place, p)
    BY DEF Safe, CoverInv
  <2>. QED  BY <1>2, <1>3, <1>10, <2>1, <2>2, <2>3, <2>4 DEF CoverInv, w
<1>. QED  BY <1>3, <1>11, <1>12, <1>13, <1>14, <1>15 DEF Safe

(* The state that ComputeLiveness leaves.                                  *)
LEMMA InitSafe ==
  ASSUME Placeable, Init
  PROVE  Safe
<1>1. PICK r \in Routines :
        /\ code = r.code /\ args = r.args
        /\ live_in = LiveIn(r.code, r.args) /\ live_out = LiveOut(r.code, r.args)
        /\ unhandled = <<>> /\ active = <<>> /\ inactive = <<>>
        /\ u = 1 /\ limit = 1 /\ last_start = 1 /\ idx = 1
        /\ place = [p \in Positions(r.code) |-> <<>>]
        /\ pc = "sort"
  BY DEF Init
<1>2. N \in Nat /\ Positions(code) = 1 .. N
  <2>1. code \in Seq(Instruction)
    BY <1>1, RoutineAssumption DEF Formed
  <2>. QED  BY <2>1, PositionsOf DEF N
<1>3. GivenInv
  BY <1>1, RoutineAssumption DEF GivenInv, Placeable
<1>4. ClockInv
  BY <1>1, <1>2 DEF ClockInv, ToPlace, ToScan
<1>5. EndsInv /\ StartsInv
  BY <1>1 DEF EndsInv, EndsSorted, StartsInv, Elements
<1>6. Handled = 0
  BY <1>1 DEF Handled
<1>7. EntryInv
  BY <1>1, <1>6 DEF EntryInv, Later
<1>8. CoverInv
  BY <1>1, <1>2 DEF CoverInv
<1>. QED  BY <1>1, <1>3, <1>4, <1>5, <1>7, <1>8 DEF Safe

(* What has been passed over stays so.                                     *)
LEMMA PassedStays ==
  ASSUME [Next]_vars
  PROVE  ~passed' => ~passed
<1>1. CASE TakeInterval
  BY <1>1 DEF TakeInterval
<1>2. CASE ~TakeInterval
  BY <1>2 DEF vars, loops, Next, SortIntervals, TakeRest, Expire, ExpireDone, RenewLater,
              RenewToSlot, RenewToRegister, RenewDone, PlaceOwnFree, PlaceOwnEnding,
              PlaceOwnSplit, PlaceBySpilling, PlaceInSlot, PlaceInFree, Scan, ScanDone,
              ScanCall, ScanOther, ScanSpill, ScanSpillNop, SpillDone, SetOperand,
              OperandsSet, Abort
<1>. QED  BY <1>1, <1>2

(* Every step keeps it, while nothing has been passed over.                *)
LEMMA NextSafe ==
  ASSUME Placeable, IInv, LifeInv, [Next]_vars, NothingPassedOver => Safe
  PROVE  (NothingPassedOver => Safe)'
<1>1. SUFFICES ASSUME ~passed', ~passed, Safe  PROVE Safe'
  BY PassedStays DEF NothingPassedOver
<1>2. CASE SortIntervals
  BY <1>1, <1>2, SortSafe
<1>3. CASE TakeInterval
  BY <1>1, <1>3, TakeIntervalSafe
<1>4. CASE TakeRest
  BY <1>1, <1>4, TakeRestSafe
<1>5. CASE ExpireDone \/ RenewDone \/ Scan \/ ScanDone \/ ScanCall \/ ScanOther
  BY <1>1, <1>5, MovesSafe
<1>6. CASE Expire
  BY <1>1, <1>6, ExpireSafe
<1>7. CASE RenewLater
  BY <1>1, <1>7, RenewLaterSafe
<1>8. CASE RenewToSlot
  BY <1>1, <1>8, RenewToSlotSafe
<1>9. CASE RenewToRegister
  BY <1>1, <1>9, RenewToRegisterSafe
<1>10. CASE PlaceOwnFree \/ PlaceInFree
  BY <1>1, <1>10, PlaceFreeSafe
<1>11. CASE PlaceOwnEnding
  BY <1>1, <1>11, PlaceOwnEndingSafe
<1>12. CASE PlaceOwnSplit
  BY <1>1, <1>12, PlaceOwnSplitSafe
<1>13. CASE PlaceBySpilling
  BY <1>1, <1>13, PlaceBySpillingSafe
<1>14. CASE PlaceInSlot
  BY <1>1, <1>14, PlaceInSlotSafe
<1>15. CASE ScanSpill \/ ScanSpillNop
  BY <1>1, <1>15, ScanSpillSafe
<1>16. CASE \E x \in Name : SetOperand(x)
  BY <1>1, <1>16, SetOperandSafe
<1>17. CASE OperandsSet
  BY <1>1, <1>17, OperandsSetSafe
<1>18. CASE UNCHANGED vars
  BY <1>1, <1>18 DEF vars, routine, sets, loops, emitted, Safe, GivenInv, ClockInv, EndsInv,
       StartsInv, EntryInv, CoverInv, Entering, ToPlace, ToScan, Handled, Lis, N
<1>. QED  BY <1>2, <1>3, <1>4, <1>5, <1>6, <1>7, <1>8, <1>9, <1>10, <1>11, <1>12, <1>13,
             <1>14, <1>15, <1>16, <1>17, <1>18 DEF Next

(* The scan keeps its promises for as long as it passes over nothing.      *)
LEMMA SafeWhileNothingPassed ==
  ASSUME Placeable
  PROVE  Spec => [](NothingPassedOver => Safe)
<1>1. Init => (NothingPassedOver => Safe)
  BY InitSafe
<1>2. IInv /\ LifeInv /\ (NothingPassedOver => Safe) /\ [Next]_vars => (NothingPassedOver => Safe)'
  BY NextSafe
<1>. QED  BY <1>1, <1>2, Invariance, LifeInvariance, PTL DEF Spec

(* No assertion of the allocator fails on a run that passes over no        *)
(* instruction, for every routine whose operands are all in code that can  *)
(* run and every register file of one class.                               *)
THEOREM AssertionsHold ==
  ASSUME Placeable
  PROVE  Spec => []NoAssertionFails
<1>1. (NothingPassedOver => Safe) => NoAssertionFails
  BY DEF NoAssertionFails, Safe
<1>. QED  BY <1>1, SafeWhileNothingPassed, PTL

(* The last scan goes to the end of the code, and what has a place is an   *)
(* operand.                                                                *)
FinishInv ==
  /\ pc = "scan" \/ ToScan => u <= Len(unhandled) \/ limit = N + 1
  /\ pc = "done" => N < idx
  /\ \A p \in Positions(code) : DOMAIN place[p] \subseteq Operands(code[p])

(* Placing an interval leaves it among the unhandled ones.                 *)
LEMMA PlacedFinish ==
  ASSUME IInv, LifeInv, Safe', FinishInv,
         \/ PlaceOwnFree \/ PlaceOwnEnding \/ PlaceOwnSplit
         \/ PlaceBySpilling \/ PlaceInSlot \/ PlaceInFree
  PROVE  FinishInv'
<1>1. /\ Placing /\ pc' # "abort" /\ UNCHANGED <<code, place, u>>
      /\ unhandled' = unhandled \/ \E iv : unhandled' = AddByStart(unhandled, iv)
  <2>1. pc' # "abort"
    BY DEF Safe
  <2>2. CASE PlaceOwnFree
    BY <2>1, <2>2 DEF PlaceOwnFree, Placing, Abort, routine, loops, emitted
  <2>3. CASE PlaceOwnEnding
    BY <2>1, <2>3 DEF PlaceOwnEnding, Placing, Abort, routine, sets, loops, emitted
  <2>4. CASE PlaceOwnSplit
    BY <2>1, <2>4 DEF PlaceOwnSplit, Placing, Abort, routine, loops
  <2>5. CASE PlaceBySpilling
    BY <2>1, <2>5 DEF PlaceBySpilling, Placing, Abort, routine, loops
  <2>6. CASE PlaceInSlot
    BY <2>1, <2>6 DEF PlaceInSlot, Placing, Abort, routine, loops
  <2>7. CASE PlaceInFree
    BY <2>1, <2>7 DEF PlaceInFree, Placing, Abort, routine, loops
  <2>. QED  BY <2>2, <2>3, <2>4, <2>5, <2>6, <2>7
<1>2. pc' = "scan"
  BY <1>1 DEF PlaceOwnFree, PlaceOwnEnding, PlaceOwnSplit, PlaceBySpilling, PlaceInSlot,
              PlaceInFree, Abort
<1>3. u \in 1 .. Len(unhandled) /\ unhandled \in Seq(Timely(code))
  <2>1. pc # "abort"
    BY <1>1 DEF Placing
  <2>. QED  BY <1>1, <2>1, CurrentLeaves, Facts
<1>4. Len(unhandled') >= Len(unhandled)
  <2>1. CASE unhandled' = unhandled
    BY <1>3, <2>1
  <2>2. ASSUME NEW iv, unhandled' = AddByStart(unhandled, iv)
        PROVE  Len(unhandled') >= Len(unhandled)
    <3> DEFINE S == Timely(code) \cup {iv}
    <3>1. unhandled \in Seq(S) /\ iv \in S
      BY <1>3
    <3>. HIDE DEF S
    <3>2. Len(AddByStart(unhandled, iv)) = Len(unhandled) + 1
      BY <3>1, AddedByStart
    <3>. QED  BY <1>3, <2>2, <3>2
  <2>. QED  BY <1>1, <2>1, <2>2
<1>5. u' <= Len(unhandled')
  <2>1. Len(unhandled') \in Nat
    BY DEF Safe
  <2>. QED  BY <1>1, <1>3, <1>4
<1>. QED  BY <1>1, <1>2, <1>5 DEF FinishInv, ToScan

(* One operand replaced, or the one of OP_SPILL.                           *)
LEMMA ReplacedFinish ==
  ASSUME Placeable, IInv, LifeInv, Safe, Safe', FinishInv,
         ScanSpill \/ ScanSpillNop \/ \E x \in Name : SetOperand(x)
  PROVE  FinishInv'
<1>1. pc \in {"instr", "operands"} /\ pc' \in {"scan", "operands"}
      /\ UNCHANGED <<code, unhandled, u, limit>>
  <2>1. pc' # "abort"
    BY DEF Safe
  <2>. QED  BY <2>1 DEF ScanSpill, ScanSpillNop, SpillDone, AtSpill, SetOperand, Abort,
                        routine, pool, sets, loops
<1>2. idx \in Positions(code) /\ Positions(code) = DOMAIN place
  BY <1>1, AtInstruction
<1>3. ASSUME NEW p \in Positions(code)
      PROVE  DOMAIN place'[p] \subseteq Operands(code[p])
  <2>1. CASE ScanSpill \/ ScanSpillNop
    <3>1. code[idx].op = "SPILL" /\ \E r : place' = [place EXCEPT ![idx] = [y \in {Spillee} |-> r]]
      <4>1. pc' # "abort"
        BY DEF Safe
      <4>. QED  BY <2>1, <4>1 DEF ScanSpill, ScanSpillNop, SpillDone, AtSpill, Abort
    <3>2. Spillee \in Operands(code[idx])
      <4>1. PICK v \in code[idx].reads : Operands(code[idx]) = {v}
        BY <1>2, <3>1 DEF Safe, GivenInv, Readable
      <4>2. Spillee \in code[idx].reads
        BY <4>1 DEF Spillee
      <4>. QED  BY <4>2 DEF Operands
    <3>3. PICK r : place' = [place EXCEPT ![idx] = [y \in {Spillee} |-> r]]
      BY <3>1
    <3>. QED  BY <1>2, <3>2, <3>3 DEF FinishInv
  <2>2. ASSUME NEW x \in Name, SetOperand(x)
        PROVE  DOMAIN place'[p] \subseteq Operands(code[p])
    <3>1. /\ x \in Operands(code[idx])
          /\ \E r : place' = [place EXCEPT ![idx] =
                                [y \in {x} \cup DOMAIN @ |-> IF y = x THEN r ELSE @[y]]]
      <4>1. pc' # "abort"
        BY DEF Safe
      <4>. QED  BY <2>2, <4>1 DEF SetOperand, Abort
    <3>2. PICK r : place' = [place EXCEPT ![idx] =
                               [y \in {x} \cup DOMAIN @ |-> IF y = x THEN r ELSE @[y]]]
      BY <3>1
    <3>. QED  BY <1>2, <3>1, <3>2 DEF FinishInv
  <2>. QED  BY <2>1, <2>2
<1>4. N' = N /\ ToScan
  BY <1>1 DEF N, ToScan
<1>. QED  BY <1>1, <1>3, <1>4 DEF FinishInv

(* The rounds that place no interval and replace no operand.               *)
LEMMA ControlFinish ==
  ASSUME IInv, LifeInv, Safe, Safe', FinishInv,
         \/ SortIntervals \/ TakeInterval \/ TakeRest \/ Expire \/ ExpireDone
         \/ RenewLater \/ RenewToSlot \/ RenewToRegister \/ RenewDone
         \/ Scan \/ ScanDone \/ ScanCall \/ ScanOther \/ OperandsSet \/ UNCHANGED vars
  PROVE  FinishInv'
<1>1. /\ UNCHANGED <<code, place>> /\ pc' # "abort" /\ N' = N /\ N \in Nat
      /\ u \in Nat /\ Len(unhandled) \in Nat /\ idx \in Nat /\ limit \in Nat
  <2>1. UNCHANGED <<code, place>>
    BY DEF SortIntervals, TakeInterval, TakeRest, Expire, ExpireDone, RenewLater, RenewToSlot,
           RenewToRegister, RenewDone, Scan, ScanDone, ScanCall, ScanOther, OperandsSet, Abort,
           vars, routine, emitted
  <2>2. pc # "abort" /\ pc' # "abort" /\ idx \in Nat /\ limit \in 1 .. N + 1
    BY DEF Safe, ClockInv
  <2>. QED  BY <2>1, <2>2, Facts DEF N
<1>2. \A p \in Positions(code') : DOMAIN place'[p] \subseteq Operands(code'[p])
  BY <1>1 DEF FinishInv
<1>3. CASE SortIntervals \/ TakeInterval
  <2>1. pc' \in {"take", "expire"} /\ (pc' = "expire" => then' = "place")
    BY <1>3 DEF SortIntervals, TakeInterval
  <2>. QED  BY <1>2, <2>1 DEF FinishInv, ToScan
<1>4. CASE TakeRest
  <2>1. pc' = "scan" /\ limit' = N' + 1
    BY <1>1, <1>4 DEF TakeRest
  <2>. QED  BY <1>2, <2>1 DEF FinishInv, ToScan
<1>5. CASE ScanDone
  <2>1. CASE u <= Len(unhandled)
    <3>1. pc' = "take"
      BY <1>5, <2>1 DEF ScanDone
    <3>. QED  BY <1>2, <3>1 DEF FinishInv, ToScan
  <2>2. CASE ~(u <= Len(unhandled))
    <3>1. pc = "scan" /\ pc' = "done" /\ idx' = idx /\ idx >= limit
      BY <1>5, <2>2 DEF ScanDone
    <3>2. limit = N + 1
      BY <2>2, <3>1 DEF FinishInv
    <3>. QED  BY <1>1, <1>2, <3>1, <3>2 DEF FinishInv, ToScan
  <2>. QED  BY <2>1, <2>2
<1>6. CASE \/ Expire \/ ExpireDone \/ RenewLater \/ RenewToSlot \/ RenewToRegister \/ RenewDone
           \/ Scan \/ ScanCall \/ ScanOther \/ OperandsSet \/ UNCHANGED vars
  <2>1. UNCHANGED <<unhandled, u, limit>>
    BY <1>1, <1>6 DEF Expire, ExpireDone, RenewLater, RenewToSlot, RenewToRegister, RenewDone,
       Scan, ScanCall, ScanOther, OperandsSet, Abort, vars, sets, loops
  <2>2. (pc' = "scan" \/ ToScan') => (pc = "scan" \/ ToScan)
    <3>1. then \in {"place", "instr"}
      BY Facts DEF Safe
    <3>. QED  BY <1>1, <1>6, <3>1 DEF Expire, ExpireDone, RenewLater, RenewToSlot,
       RenewToRegister, RenewDone, Scan, ScanCall, ScanOther, OperandsSet, Abort, ToScan,
       vars, sets, loops
  <2>3. pc' = "done" => pc = "done" /\ idx' = idx
    <3>1. then \in {"place", "instr"}
      BY Facts DEF Safe
    <3>. QED  BY <1>1, <1>6, <3>1 DEF Expire, ExpireDone, RenewLater, RenewToSlot,
       RenewToRegister, RenewDone, Scan, ScanCall, ScanOther, OperandsSet, Abort, vars, loops
  <2>. QED  BY <1>1, <1>2, <2>1, <2>2, <2>3 DEF FinishInv
<1>. QED  BY <1>3, <1>4, <1>5, <1>6

(* Every operand of the routine is replaced, on a run that passes over no  *)
(* instruction: nothing else lets an operand stay.                         *)
THEOREM EveryOperandPlaced ==
  ASSUME Placeable
  PROVE  Spec => [](NothingPassedOver => AllScanned)
<1>1. Init => FinishInv
  <2> SUFFICES ASSUME Init  PROVE FinishInv
    OBVIOUS
  <2>1. PICK r \in Routines : code = r.code /\ place = [p \in Positions(r.code) |-> <<>>]
                              /\ pc = "sort"
    BY DEF Init
  <2>. QED  BY <2>1 DEF FinishInv, ToScan
<1>2. ASSUME IInv, LifeInv, NothingPassedOver => Safe, (NothingPassedOver => Safe)',
             [Next]_vars, NothingPassedOver => FinishInv
      PROVE  (NothingPassedOver => FinishInv)'
  <2>1. SUFFICES ASSUME Safe, Safe', FinishInv  PROVE FinishInv'
    BY <1>2, PassedStays DEF NothingPassedOver
  <2>2. CASE \/ PlaceOwnFree \/ PlaceOwnEnding \/ PlaceOwnSplit
             \/ PlaceBySpilling \/ PlaceInSlot \/ PlaceInFree
    BY <1>2, <2>1, <2>2, PlacedFinish
  <2>3. CASE ScanSpill \/ ScanSpillNop \/ \E x \in Name : SetOperand(x)
    BY <1>2, <2>1, <2>3, ReplacedFinish
  <2>4. CASE ~(\/ PlaceOwnFree \/ PlaceOwnEnding \/ PlaceOwnSplit
               \/ PlaceBySpilling \/ PlaceInSlot \/ PlaceInFree
               \/ ScanSpill \/ ScanSpillNop \/ \E x \in Name : SetOperand(x))
    BY <1>2, <2>1, <2>4, ControlFinish DEF Next
  <2>. QED  BY <2>2, <2>3, <2>4
<1>3. IInv /\ (NothingPassedOver => Safe) /\ (NothingPassedOver => FinishInv)
        => (NothingPassedOver => AllScanned)
  <2> SUFFICES ASSUME IInv, Safe, FinishInv, pc = "done", NEW p \in Positions(code)
               PROVE  DOMAIN place[p] = Operands(code[p])
    BY DEF AllScanned
  <2>1. code \in Seq(Instruction)
    BY DEF IInv, SetsTyped
  <2>2. p \in 1 .. N /\ N \in Nat /\ idx \in Nat
    BY <2>1, PositionsOf DEF N, Safe, ClockInv
  <2>3. p < idx
    BY <2>2 DEF FinishInv
  <2>. QED  BY <2>3 DEF FinishInv, Safe, CoverInv, ScannedIn
<1>4. Spec => [](NothingPassedOver => Safe)
  BY SafeWhileNothingPassed
<1>. QED  BY <1>1, <1>2, <1>3, <1>4, Invariance, LifeInvariance, PTL DEF Spec

-----------------------------------------------------------------------------
(* AllocatedCode, which runs the code that the scan leaves, implements the *)
(* scan: what it executes changes none of the scan's variables.            *)
THEOREM MachineRunsScan == MSpec => Spec
<1>1. MInit => Init
  BY DEF MInit
<1>2. [MNext]_<<vars, machine>> => [Next]_vars
  <2> SUFFICES ASSUME [MNext]_<<vars, machine>>  PROVE [Next]_vars
    OBVIOUS
  <2>1. Allocate => Next
    BY DEF Allocate
  <2>2. Enter \/ ExecInstr \/ SkipComment => UNCHANGED vars
    BY DEF Enter, ExecInstr, SkipComment
  <2>3. ExecSpill \/ ExecUnspill \/ ExecMove => UNCHANGED vars
    BY DEF ExecSpill, ExecUnspill, ExecMove, Copy
  <2>. QED  BY <2>1, <2>2, <2>3 DEF MNext
<1>. QED  BY <1>1, <1>2, PTL DEF MSpec, Spec

(* So the registers also differ while the allocated code runs, no part of  *)
(* a life has been handled twice, and the pool is used as it expects to    *)
(* be.                                                                     *)
THEOREM MachineInherits == MSpec => []ActiveDistinct /\ []HandledOnce /\ UsesPool
BY MachineRunsScan, RegistersDiffer, NoPartTwice, ScanUsesPool, PTL

(* Nor does an assertion fail while the code that it leaves runs.          *)
THEOREM MachineAssertionsHold ==
  ASSUME Placeable
  PROVE  MSpec => []NoAssertionFails
BY MachineRunsScan, AssertionsHold, PTL

=============================================================================
