-------------------------------- MODULE Lemmas --------------------------------
(***************************************************************************)
(* Facts that the proofs about several components use: about numbers,      *)
(* about the arrays of the compiler, and about a pool whose elements are   *)
(* free in an array or held by a client.                                   *)
(***************************************************************************)
EXTENDS Rounding, Arrays, FiniteSetTheorems, WellFoundedInduction, TLAPS

(* Every set of numbers that is not empty has a least element.             *)
LEMMA LeastNatural ==
  ASSUME NEW T, T \subseteq Nat, T # {}
  PROVE  \E x \in T : \A y \in T : x <= y
<1> DEFINE R == OpToRel(<, Nat)
<1>1. IsWellFoundedOn(R, Nat)
  BY NatLessThanWellFounded
<1>2. \A x, y \in Nat : <<y, x>> \in R <=> y < x
  BY DEF OpToRel
<1>. HIDE DEF R
<1>3. \E x \in T : \A y \in T : ~ (<<y, x>> \in R)
  BY <1>1, WFMin
<1>4. PICK x \in T : \A y \in T : ~ (<<y, x>> \in R)
  BY <1>3
<1>5. \A y \in T : x <= y
  <2>1. x \in Nat /\ \A y \in T : y \in Nat
    OBVIOUS
  <2>2. \A y \in T : ~ (y < x)
    BY <1>2, <1>4, <2>1
  <2>. QED  BY <2>1, <2>2
<1>. QED  BY <1>5

(* Aligning up gives a natural number that is not smaller and less than    *)
(* one alignment larger.                                                   *)
LEMMA AlignRoundsUp ==
  ASSUME NEW x \in Nat, NEW a \in Nat \ {0}
  PROVE  Align(x, a) \in Nat /\ Align(x, a) >= x /\ Align(x, a) < x + a
<1> DEFINE y == x + (a - 1)
<1>1. y \in Nat /\ y >= a - 1
  OBVIOUS
<1>2. y % a \in 0 .. (a - 1)
  BY <1>1
<1>3. Align(x, a) = y - (y % a)
  BY DEF Align
<1>. HIDE DEF y
<1>4. y = x + (a - 1)
  BY DEF y
<1>. QED  BY <1>1, <1>2, <1>3, <1>4

(* What is aligned is a multiple.                                          *)
LEMMA AlignIsAligned ==
  ASSUME NEW x \in Nat, NEW a \in Nat \ {0}
  PROVE  Align(x, a) % a = 0
<1> DEFINE y == x + (a - 1)
<1>1. y \in Nat
  OBVIOUS
<1>2. y % a \in 0 .. (a - 1) /\ y = a * (y \div a) + (y % a) /\ y \div a \in Int
  BY <1>1
<1>3. Align(x, a) = y - (y % a)
  BY DEF Align
<1>. HIDE DEF y
<1>4. Align(x, a) = a * (y \div a)
  BY <1>1, <1>2, <1>3
<1>5. \A q \in Int : (a * q) % a = 0
  OBVIOUS
<1>. QED  BY <1>2, <1>4, <1>5

-----------------------------------------------------------------------------
(* array::EraseBySwap takes out exactly the element at i and repeats none. *)
LEMMA EraseBySwapRemoves ==
  ASSUME NEW S, NEW s \in Seq(S), Distinct(s), NEW i \in DOMAIN s
  PROVE  /\ EraseBySwap(s, i) \in Seq(S)
         /\ Distinct(EraseBySwap(s, i))
         /\ Elements(EraseBySwap(s, i)) = Elements(s) \ {s[i]}
<1> DEFINE e == EraseBySwap(s, i)
<1>1. /\ Len(s) \in Nat
      /\ DOMAIN s = 1 .. Len(s)
      /\ i \in 1 .. Len(s)
      /\ \A j \in 1 .. Len(s) : s[j] \in S
  OBVIOUS
<1>2. /\ Len(s) - 1 \in Nat
      /\ e \in [1 .. Len(s) - 1 -> S]
  BY <1>1 DEF EraseBySwap
<1>3. e \in Seq(S)
  BY <1>2
<1>4. DOMAIN e = 1 .. Len(s) - 1
  BY <1>2
<1>5. \A j \in DOMAIN e : e[j] = IF j = i THEN s[Len(s)] ELSE s[j]
  BY <1>4 DEF EraseBySwap
<1>6. Distinct(e)
  BY <1>1, <1>4, <1>5 DEF Distinct
<1>7. Elements(e) \subseteq Elements(s) \ {s[i]}
  BY <1>1, <1>4, <1>5 DEF Elements, Distinct
<1>8. ASSUME NEW j \in DOMAIN s, s[j] # s[i]
      PROVE  s[j] \in Elements(e)
  <2>1. CASE j = Len(s)
    <3>1. i \in DOMAIN e /\ e[i] = s[j]
      BY <1>1, <1>4, <1>5, <1>8, <2>1
    <3>. QED  BY <3>1 DEF Elements
  <2>2. CASE j # Len(s)
    <3>1. j \in DOMAIN e /\ e[j] = s[j]
      BY <1>1, <1>4, <1>5, <1>8, <2>2
    <3>. QED  BY <3>1 DEF Elements
  <2>. QED  BY <2>1, <2>2
<1>9. Elements(s) \ {s[i]} \subseteq Elements(e)
  BY <1>8 DEF Elements
<1>. QED  BY <1>3, <1>6, <1>7, <1>9

(* Back and Pop together take the last register and no other.              *)
LEMMA PopRemovesBack ==
  ASSUME NEW S, NEW s \in Seq(S), Distinct(s), s # <<>>
  PROVE  /\ Back(s) \in Elements(s)
         /\ Pop(s) \in Seq(S)
         /\ Distinct(Pop(s))
         /\ Elements(Pop(s)) = Elements(s) \ {Back(s)}
<1>1. /\ Len(s) \in Nat \ {0}
      /\ DOMAIN s = 1 .. Len(s)
      /\ \A j \in 1 .. Len(s) : s[j] \in S
  OBVIOUS
<1>2. /\ DOMAIN Pop(s) = 1 .. Len(s) - 1
      /\ \A j \in 1 .. Len(s) - 1 : Pop(s)[j] = s[j]
      /\ Pop(s) \in Seq(S)
  BY <1>1 DEF Pop
<1>3. Back(s) \in Elements(s)
  BY <1>1 DEF Back, Elements
<1>4. Distinct(Pop(s))
  BY <1>1, <1>2 DEF Distinct
<1>5. \A x : x \in Elements(Pop(s)) <=> x \in Elements(s) \ {Back(s)}
  BY <1>1, <1>2 DEF Elements, Back, Distinct
<1>. QED  BY <1>2, <1>3, <1>4, <1>5

(* Pushing a register that is not free adds it and repeats none.           *)
LEMMA AppendAdds ==
  ASSUME NEW S, NEW s \in Seq(S), NEW x \in S
  PROVE  /\ Append(s, x) \in Seq(S)
         /\ Elements(Append(s, x)) = Elements(s) \cup {x}
         /\ Distinct(s) /\ x \notin Elements(s) => Distinct(Append(s, x))
<1>1. /\ Len(s) \in Nat
      /\ DOMAIN s = 1 .. Len(s)
      /\ DOMAIN Append(s, x) = 1 .. Len(s) + 1
      /\ \A j \in 1 .. Len(s) : Append(s, x)[j] = s[j]
      /\ Append(s, x)[Len(s) + 1] = x
  OBVIOUS
<1>2. \A y : y \in Elements(Append(s, x)) <=> y \in Elements(s) \cup {x}
  BY <1>1 DEF Elements
<1>3. Distinct(s) /\ x \notin Elements(s) => Distinct(Append(s, x))
  BY <1>1 DEF Distinct, Elements
<1>. QED  BY <1>2, <1>3

(* AppendFreeRegs called for two disjoint groups of registers.             *)
LEMMA ConcatJoins ==
  ASSUME NEW S, NEW s \in Seq(S), NEW t \in Seq(S)
  PROVE  /\ s \o t \in Seq(S)
         /\ Elements(s \o t) = Elements(s) \cup Elements(t)
         /\ Distinct(s) /\ Distinct(t) /\ Elements(s) \cap Elements(t) = {}
              => Distinct(s \o t)
<1>1. /\ Len(s) \in Nat /\ Len(t) \in Nat
      /\ DOMAIN s = 1 .. Len(s) /\ DOMAIN t = 1 .. Len(t)
      /\ s \o t \in Seq(S)
      /\ DOMAIN (s \o t) = 1 .. Len(s) + Len(t)
      /\ \A j \in 1 .. Len(s) + Len(t) :
           (s \o t)[j] = IF j <= Len(s) THEN s[j] ELSE t[j - Len(s)]
  OBVIOUS
<1>2. \A y \in Elements(s) : y \in Elements(s \o t)
  BY <1>1 DEF Elements
<1>3. ASSUME NEW k \in DOMAIN t  PROVE t[k] \in Elements(s \o t)
  <2>1. k + Len(s) \in DOMAIN (s \o t) /\ (s \o t)[k + Len(s)] = t[k]
    BY <1>1
  <2>. QED  BY <2>1 DEF Elements
<1>4. \A y \in Elements(s \o t) : y \in Elements(s) \cup Elements(t)
  BY <1>1 DEF Elements
<1>5. Elements(s \o t) = Elements(s) \cup Elements(t)
  BY <1>2, <1>3, <1>4 DEF Elements
<1>6. ASSUME Distinct(s), Distinct(t), Elements(s) \cap Elements(t) = {}
      PROVE  Distinct(s \o t)
  <2>1. \A j \in DOMAIN s, k \in DOMAIN t : s[j] # t[k]
    BY <1>6 DEF Elements
  <2>. QED  BY <1>1, <1>6, <2>1 DEF Distinct
<1>. QED  BY <1>1, <1>5, <1>6

-----------------------------------------------------------------------------
(* Every element of each class is in one place: free once in the array of  *)
(* its class, or held.                                                     *)
Shared(C, elements, free, held) ==
  \A c \in C : /\ Distinct(free[c])
              /\ Elements(free[c]) \cap held = {}
              /\ Elements(free[c]) \cup (held \cap elements[c]) = elements[c]

(* Taking an element conserves the pool: any new array of class c that     *)
(* lacks exactly x, when the client then holds x.                          *)
LEMMA TakeConserves ==
  ASSUME NEW C, NEW elements,
         \A c, d \in C : c # d => elements[c] \cap elements[d] = {},
         NEW S, NEW free \in [C -> Seq(S)], NEW held, Shared(C, elements, free, held),
         NEW c \in C, NEW x \in Elements(free[c]),
         NEW s \in Seq(S), Distinct(s), Elements(s) = Elements(free[c]) \ {x}
  PROVE  Shared(C, elements, [free EXCEPT ![c] = s], held \cup {x})
<1>1. \A d \in C : Elements(free[d]) \subseteq elements[d]
  BY DEF Shared
<1>2. SUFFICES ASSUME NEW d \in C
               PROVE  LET t == IF d = c THEN s ELSE free[d]
                      IN  /\ Distinct(t)
                          /\ Elements(t) \cap (held \cup {x}) = {}
                          /\ Elements(t) \cup ((held \cup {x}) \cap elements[d]) = elements[d]
  BY DEF Shared
<1>3. CASE d = c
  BY <1>1, <1>3 DEF Shared
<1>4. CASE d # c
  <2>1. x \notin elements[d]
    BY <1>1, <1>4
  <2>. QED  BY <1>1, <1>4, <2>1 DEF Shared
<1>. QED  BY <1>3, <1>4

(* Returning an element that is held conserves the pool.                   *)
LEMMA ReturnConserves ==
  ASSUME NEW C, NEW elements,
         \A c, d \in C : c # d => elements[c] \cap elements[d] = {},
         NEW S, NEW free \in [C -> Seq(S)], NEW held, Shared(C, elements, free, held),
         NEW c \in C, NEW x \in held, x \in elements[c], x \in S
  PROVE  Shared(C, elements, [free EXCEPT ![c] = Append(free[c], x)], held \ {x})
<1> DEFINE s == Append(free[c], x)
<1>1. /\ free[c] \in Seq(S) /\ Distinct(free[c]) /\ x \notin Elements(free[c])
      /\ \A d \in C : Elements(free[d]) \subseteq elements[d]
  BY DEF Shared
<1>2. Distinct(s) /\ Elements(s) = Elements(free[c]) \cup {x}
  BY <1>1, AppendAdds
<1>. HIDE DEF s
<1>3. SUFFICES ASSUME NEW d \in C
               PROVE  LET t == IF d = c THEN s ELSE free[d]
                      IN  /\ Distinct(t)
                          /\ Elements(t) \cap (held \ {x}) = {}
                          /\ Elements(t) \cup ((held \ {x}) \cap elements[d]) = elements[d]
  BY DEF Shared, s
<1>4. CASE d = c
  BY <1>1, <1>2, <1>4 DEF Shared
<1>5. CASE d # c
  <2>1. x \notin elements[d]
    BY <1>5
  <2>. QED  BY <1>1, <1>5, <2>1 DEF Shared
<1>. QED  BY <1>4, <1>5

(* g is what F makes of a first value, over and over.                      *)
Iterate(g, S, first, F, m) ==
  /\ g \in [0 .. m -> S]
  /\ g[0] = first
  /\ \A n \in 1 .. m : g[n] = F[g[n - 1]]

(* What is iterated from a first value on is a sequence of values.         *)
LEMMA IteratesExist ==
  ASSUME NEW S, NEW first \in S, NEW F \in [S -> S], NEW m \in Nat
  PROVE  \E g : Iterate(g, S, first, F, m)
<1> DEFINE Iterates(g, k) == /\ g \in [0 .. k -> S] /\ g[0] = first
                             /\ \A n \in 1 .. k : g[n] = F[g[n - 1]]
           Missing == {k \in Nat : ~ \E g : Iterates(g, k)}
<1>1. \E g : Iterates(g, 0)
  <2>1. Iterates([n \in 0 .. 0 |-> first], 0)
    OBVIOUS
  <2>. QED  BY <2>1
<1>2. ASSUME NEW k \in Nat, NEW g, Iterates(g, k)
      PROVE  \E h : Iterates(h, k + 1)
  <2>. DEFINE h == [n \in 0 .. k + 1 |-> IF n = k + 1 THEN F[g[k]] ELSE g[n]]
  <2>1. k \in 0 .. k /\ g[k] \in S /\ F[g[k]] \in S
    BY <1>2
  <2>2. h \in [0 .. k + 1 -> S] /\ h[0] = first
    BY <1>2, <2>1
  <2>3. ASSUME NEW n \in 1 .. k + 1  PROVE h[n] = F[h[n - 1]]
    <3>1. n - 1 \in 0 .. k /\ h[n - 1] = g[n - 1]
      OBVIOUS
    <3>2. CASE n = k + 1
      BY <3>1, <3>2
    <3>3. CASE n # k + 1
      BY <1>2, <3>1, <3>3
    <3>. QED  BY <3>2, <3>3
  <2>. HIDE DEF h
  <2>. QED  BY <2>2, <2>3
<1>3. Missing = {}
  <2>. SUFFICES ASSUME Missing # {}  PROVE FALSE
    OBVIOUS
  <2>1. Missing \subseteq Nat
    OBVIOUS
  <2>. HIDE DEF Iterates
  <2>2. PICK k \in Missing : \A j \in Missing : k <= j
    <3>. HIDE DEF Missing
    <3>. QED  BY <2>1, LeastNatural
  <2>3. k \in Nat /\ k # 0 /\ ~ \E g : Iterates(g, k)
    BY <1>1
  <2>4. k - 1 \in Nat /\ k - 1 \notin Missing /\ (k - 1) + 1 = k
    <3>. HIDE DEF Missing
    <3>. QED  BY <2>2, <2>3
  <2>. QED  BY <1>2, <2>3, <2>4
<1>4. m \notin Missing
  BY <1>3
<1>. QED  BY <1>4 DEF Iterate

(* Subsets of n elements that grow until one stays, and then stay, stay    *)
(* after n steps at the latest.                                            *)
LEMMA GrowingEnds ==
  ASSUME NEW n \in Nat, NEW X, \A k \in 0 .. n + 1 : X[k] \subseteq 1 .. n,
         \A k \in 0 .. n : X[k] \subseteq X[k + 1],
         \A k \in 0 .. n - 1 : X[k + 1] = X[k] => X[k + 2] = X[k + 1]
  PROVE  X[n + 1] = X[n]
<1> DEFINE Stays(k) == X[k + 1] = X[k]
           Small == {k \in 0 .. n : ~ Stays(k) /\ ~ (Cardinality(X[k]) >= k)}
<1>1. IsFiniteSet(1 .. n) /\ Cardinality(1 .. n) = n
  BY FS_Interval
<1>2. \A k \in 0 .. n + 1 : IsFiniteSet(X[k]) /\ Cardinality(X[k]) \in Nat
  BY <1>1, FS_Subset, FS_CardinalityType
<1>3. Small = {}
  <2>. SUFFICES ASSUME Small # {}  PROVE FALSE
    OBVIOUS
  <2>1. Small \subseteq Nat
    OBVIOUS
  <2>2. PICK k \in Small : \A j \in Small : k <= j
    <3>. HIDE DEF Small
    <3>. QED  BY <2>1, LeastNatural
  <2>3. k \in 0 .. n /\ ~ Stays(k) /\ ~ (Cardinality(X[k]) >= k)
    OBVIOUS
  <2>4. k # 0
    <3>1. Cardinality(X[0]) \in Nat
      BY <1>2
    <3>. QED  BY <2>3, <3>1
  <2>5. /\ k - 1 \in 0 .. n - 1 /\ k - 1 \in 0 .. n /\ k - 1 \notin Small
        /\ (k - 1) + 1 = k /\ (k - 1) + 2 = k + 1
    <3>. HIDE DEF Small, Stays
    <3>. QED  BY <2>2, <2>3, <2>4
  <2>6. X[k] # X[k - 1]
    BY <2>3, <2>5
  <2>7. Cardinality(X[k - 1]) >= k - 1
    BY <2>5, <2>6
  <2>8. PICK e \in X[k] : e \notin X[k - 1]
    BY <2>5, <2>6
  <2>9. /\ IsFiniteSet(X[k - 1] \cup {e})
        /\ Cardinality(X[k - 1] \cup {e}) = Cardinality(X[k - 1]) + 1
    <3>1. IsFiniteSet(X[k - 1])
      BY <1>2, <2>5
    <3>. HIDE DEF Small
    <3>. QED  BY ONLY <3>1, <2>8, FS_AddElement
  <2>10. X[k - 1] \cup {e} \subseteq X[k]
    BY <2>5, <2>8
  <2>11. Cardinality(X[k - 1] \cup {e}) <= Cardinality(X[k])
    BY <1>2, <2>3, <2>10, FS_Subset
  <2>. QED  BY <1>2, <2>3, <2>5, <2>7, <2>9, <2>11
<1>4. CASE ~ Stays(n)
  <2>0. n \in 0 .. n /\ n \in 0 .. n + 1 /\ n + 1 \in 0 .. n + 1
    OBVIOUS
  <2>1. Cardinality(X[n]) >= n /\ X[n] \subseteq 1 .. n
    <3>1. n \notin Small
      BY <1>3
    <3>2. Cardinality(X[n]) >= n
      BY <1>4, <2>0, <3>1
    <3>. HIDE DEF Small
    <3>. QED  BY <2>0, <3>2
  <2>2. Cardinality(X[n]) <= n
    BY <1>1, <2>1, FS_Subset
  <2>3. X[n] = 1 .. n
    BY <1>1, <1>2, <2>1, <2>2, FS_Subset
  <2>4. X[n + 1] \subseteq 1 .. n /\ X[n] \subseteq X[n + 1]
    BY <2>0
  <2>. HIDE DEF Small, Stays
  <2>. QED  BY <2>3, <2>4
<1>. QED  BY <1>4

=============================================================================
