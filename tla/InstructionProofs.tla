------------------------- MODULE InstructionProofs --------------------------
(***************************************************************************)
(* Lemmas about Instructions, for every list of instructions: the textbook *)
(* liveness is the least solution of its equations, the intervals made     *)
(* from it do not meet, and they cover every value on every path.          *)
(***************************************************************************)
EXTENDS Instructions, Lemmas

Sets(P) == [Positions(P) -> SUBSET Name]

-----------------------------------------------------------------------------
(* The textbook liveness.                                                  *)

(* One round of LiveAlong, as the function whose values are chosen.        *)
LiveStep(P, to, g, n) ==
  IF n = 0 THEN [k \in Positions(P) |-> Uses(P[k])]
  ELSE CHOOSE f \in {OneStepBack(P, to, r) : r \in {g[n - 1]}} : TRUE

(* The instructions and their successors.                                  *)
LEMMA PositionsOf ==
  ASSUME NEW P \in Seq(Instruction)
  PROVE  /\ Len(P) \in Nat /\ Positions(P) = 1 .. Len(P)
         /\ \A k \in Positions(P) : /\ P[k] \in Instruction
                                    /\ Uses(P[k]) \subseteq Name /\ P[k].writes \subseteq Name
                                    /\ P[k].bases \subseteq Name /\ P[k].reads \subseteq Name
                                    /\ P[k].uses \subseteq Name
                                    /\ Successors(P, k) \subseteq Positions(P)
<1>1. Len(P) \in Nat /\ Positions(P) = 1 .. Len(P)
  BY DEF Positions
<1>2. \A k \in Positions(P) : P[k] \in Instruction
  BY <1>1
<1>. QED  BY <1>1, <1>2 DEF Instruction, Uses, Successors

(* A step back keeps the type of the sets.                                 *)
LEMMA StepTyped ==
  ASSUME NEW P \in Seq(Instruction), NEW r \in Sets(P)
  PROVE  OneStepBack(P, SuccessorsOf(P), r) \in Sets(P)
<1>1. ASSUME NEW k \in Positions(P)
      PROVE  Uses(P[k]) \cup ((UNION {r[s] : s \in SuccessorsOf(P)[k]}) \ P[k].writes) \subseteq Name
  <2>1. SuccessorsOf(P)[k] \subseteq Positions(P)
    BY PositionsOf DEF SuccessorsOf
  <2>2. \A s \in SuccessorsOf(P)[k] : r[s] \subseteq Name
    BY <2>1 DEF Sets
  <2>. QED  BY <2>2, PositionsOf
<1>. QED  BY <1>1 DEF OneStepBack, Sets

(* Liveness step by step: what LiveBefore builds.                          *)
LEMMA LiveStepByStep ==
  ASSUME NEW P \in Seq(Instruction)
  PROVE  \E g \in [0 .. Len(P) -> Sets(P)] :
           /\ g[0] = [k \in Positions(P) |-> Uses(P[k])]
           /\ \A n \in 1 .. Len(P) : g[n] = OneStepBack(P, SuccessorsOf(P), g[n - 1])
           /\ LiveBefore(P) = g[Len(P)]
<1> DEFINE to == SuccessorsOf(P)
           first == [k \in Positions(P) |-> Uses(P[k])]
           F == [r \in Sets(P) |-> OneStepBack(P, to, r)]
           Solves(g) == g = [n \in 0 .. Len(P) |-> LiveStep(P, to, g, n)]
           live == CHOOSE g : Solves(g)
           Wrong == {n \in 0 .. Len(P) : live[n] \notin Sets(P)}
<1>0. Len(P) \in Nat
  OBVIOUS
<1>1. first \in Sets(P) /\ F \in [Sets(P) -> Sets(P)]
  BY PositionsOf, StepTyped DEF Sets
<1>2. \A r : (CHOOSE f \in {OneStepBack(P, to, q) : q \in {r}} : TRUE) = OneStepBack(P, to, r)
  <2>1. \A r : {OneStepBack(P, to, q) : q \in {r}} = {OneStepBack(P, to, r)}
    OBVIOUS
  <2>2. \A e : (CHOOSE f \in {e} : TRUE) = e
    OBVIOUS
  <2>. QED  BY <2>1, <2>2
<1>3. \E g : Solves(g)
  <2>0. PICK g : Iterate(g, Sets(P), first, F, Len(P))
    <3>. HIDE DEF first, F
    <3>. QED  BY <1>0, <1>1, IteratesExist
  <2>1. /\ g \in [0 .. Len(P) -> Sets(P)] /\ g[0] = first
        /\ \A n \in 1 .. Len(P) : g[n] = F[g[n - 1]]
    <3>. HIDE DEF first, F
    <3>. QED  BY <2>0 DEF Iterate
  <2>2. \A n \in 1 .. Len(P) : F[g[n - 1]] = OneStepBack(P, to, g[n - 1])
    <3>1. \A n \in 1 .. Len(P) : n - 1 \in 0 .. Len(P)
      BY <1>0
    <3>2. \A n \in 1 .. Len(P) : g[n - 1] \in Sets(P)
      BY <2>1, <3>1
    <3>. QED  BY <3>2
  <2>3. \A n \in 0 .. Len(P) : g[n] = LiveStep(P, to, g, n)
    <3>. SUFFICES ASSUME NEW n \in 0 .. Len(P)  PROVE g[n] = LiveStep(P, to, g, n)
      OBVIOUS
    <3>1. CASE n = 0
      BY <2>1, <3>1 DEF LiveStep
    <3>2. CASE n # 0
      <4>1. n \in 1 .. Len(P)
        BY <1>0, <3>2
      <4>2. g[n] = OneStepBack(P, to, g[n - 1])
        BY <2>1, <2>2, <4>1
      <4>. QED  BY <1>2, <3>2, <4>2 DEF LiveStep
    <3>. QED  BY <3>1, <3>2
  <2>4. g = [n \in 0 .. Len(P) |-> g[n]]
    BY <2>1
  <2>. QED  BY <2>3, <2>4
<1>4. Solves(live)
  <2>. HIDE DEF Solves
  <2>. QED  BY <1>3
<1>5. LiveBefore(P) = live[Len(P)]
  <2>1. LiveAlong(P, to) = live[Len(P)]
    BY DEF LiveAlong, LiveStep
  <2>. HIDE DEF live, to
  <2>2. {LiveAlong(P, t) : t \in {SuccessorsOf(P)}} = {LiveAlong(P, SuccessorsOf(P))}
    OBVIOUS
  <2>3. \A e : (CHOOSE f \in {e} : TRUE) = e
    OBVIOUS
  <2>. QED  BY <2>1, <2>2, <2>3 DEF LiveBefore, to
<1>. HIDE DEF live
<1>6. live[0] = first /\ \A n \in 1 .. Len(P) : live[n] = OneStepBack(P, to, live[n - 1])
  <2>1. \A n \in 0 .. Len(P) : live[n] = LiveStep(P, to, live, n)
    BY <1>4
  <2>2. 0 \in 0 .. Len(P) /\ \A n \in 1 .. Len(P) : n \in 0 .. Len(P) /\ n # 0
    BY <1>0
  <2>3. \A n : n # 0 => LiveStep(P, to, live, n) = OneStepBack(P, to, live[n - 1])
    BY <1>2 DEF LiveStep
  <2>. QED  BY <2>1, <2>2, <2>3 DEF LiveStep
<1>7. Wrong = {}
  <2>. SUFFICES ASSUME Wrong # {}  PROVE FALSE
    OBVIOUS
  <2>1. Wrong \subseteq Nat
    OBVIOUS
  <2>2. PICK n \in Wrong : \A m \in Wrong : n <= m
    <3>. HIDE DEF Wrong
    <3>. QED  BY <2>1, LeastNatural
  <2>3. n \in 0 .. Len(P) /\ live[n] \notin Sets(P)
    OBVIOUS
  <2>. HIDE DEF first
  <2>4. n # 0
    BY <1>1, <1>6, <2>3
  <2>5. n \in 1 .. Len(P) /\ n - 1 \in 0 .. Len(P) /\ ~(n <= n - 1)
    BY <1>0, <2>3, <2>4
  <2>6. live[n - 1] \in Sets(P)
    BY <2>2, <2>5
  <2>. QED  BY <1>6, <2>3, <2>5, <2>6, StepTyped
<1>8. live \in [0 .. Len(P) -> Sets(P)]
  <2>1. DOMAIN live = 0 .. Len(P) /\ live = [n \in 0 .. Len(P) |-> live[n]]
    BY <1>4
  <2>2. \A n \in 0 .. Len(P) : live[n] \in Sets(P)
    BY <1>7
  <2>. QED  BY <2>1, <2>2
<1>. QED  BY <1>5, <1>6, <1>8

(* F holds what its equations at position k ask for.                       *)
Solved(P, F, k) == Uses(P[k]) \cup ((UNION {F[s] : s \in Successors(P, k)}) \ P[k].writes) \subseteq F[k]

(* What a step back says of one name.                                      *)
LEMMA StepOfName ==
  ASSUME NEW P \in Seq(Instruction), NEW r, NEW x, NEW k \in Positions(P)
  PROVE  x \in OneStepBack(P, SuccessorsOf(P), r)[k] <=>
           \/ x \in Uses(P[k])
           \/ x \notin P[k].writes /\ \E s \in Successors(P, k) : x \in r[s]
<1>1. OneStepBack(P, SuccessorsOf(P), r)[k] =
        Uses(P[k]) \cup ((UNION {r[s] : s \in Successors(P, k)}) \ P[k].writes)
  BY DEF OneStepBack, SuccessorsOf
<1>. QED  BY <1>1

(* The textbook liveness is closed: after as many steps as there are       *)
(* positions the positions where a name is live are all found.             *)
LEMMA LiveIsSolution ==
  ASSUME NEW P \in Seq(Instruction)
  PROVE  /\ LiveBefore(P) \in Sets(P)
         /\ \A k \in Positions(P) : \A x :
              x \in LiveBefore(P)[k] <=>
                \/ x \in Uses(P[k])
                \/ x \notin P[k].writes /\ \E s \in Successors(P, k) : x \in LiveBefore(P)[s]
<1> DEFINE m == Len(P)
           back(r) == OneStepBack(P, SuccessorsOf(P), r)
<1>0. m \in Nat /\ Positions(P) = 1 .. m
  BY PositionsOf
<1>1. PICK g \in [0 .. m -> Sets(P)] :
             /\ g[0] = [k \in Positions(P) |-> Uses(P[k])]
             /\ \A n \in 1 .. m : g[n] = back(g[n - 1])
             /\ LiveBefore(P) = g[m]
  BY LiveStepByStep
<1>. HIDE DEF m
<1>2. LiveBefore(P) \in Sets(P)
  BY <1>0, <1>1
<1>3. ASSUME NEW x, NEW k \in Positions(P)
      PROVE  x \in g[m][k] <=> x \in back(g[m])[k]
  <2> DEFINE X == [n \in 0 .. m + 1 |->
                     {p \in Positions(P) : x \in (IF n = m + 1 THEN back(g[m]) ELSE g[n])[p]}]
  <2>1. \A n \in 0 .. m : X[n] = {p \in Positions(P) : x \in g[n][p]}
    BY <1>0
  <2>2. X[m + 1] = {p \in Positions(P) : x \in back(g[m])[p]}
    BY <1>0
  <2>3. \A n \in 0 .. m + 1 : X[n] \subseteq 1 .. m
    BY <1>0
  <2>. HIDE DEF X
  <2>4. ASSUME NEW n \in 0 .. m
        PROVE  X[n + 1] = {p \in Positions(P) : x \in back(g[n])[p]}
    <3>1. CASE n = m
      BY <2>2, <3>1
    <3>2. CASE n # m
      <4>1. n + 1 \in 1 .. m /\ n + 1 \in 0 .. m /\ (n + 1) - 1 = n
        BY <1>0, <3>2
      <4>2. g[n + 1] = back(g[n])
        BY <1>1, <4>1
      <4>. QED  BY <2>1, <4>1, <4>2
    <3>. QED  BY <3>1, <3>2
  <2>5. ASSUME NEW n \in 0 .. m
        PROVE  X[n + 1] = {p \in Positions(P) :
                             \/ x \in Uses(P[p])
                             \/ x \notin P[p].writes /\ \E s \in Successors(P, p) : s \in X[n]}
    <3>1. \A p \in Positions(P) : \A s \in Successors(P, p) : s \in X[n] <=> x \in g[n][s]
      BY <2>1, PositionsOf
    <3>2. \A p \in Positions(P) : x \in back(g[n])[p] <=>
            \/ x \in Uses(P[p])
            \/ x \notin P[p].writes /\ \E s \in Successors(P, p) : s \in X[n]
      BY <3>1, StepOfName
    <3>. HIDE DEF back
    <3>. QED  BY <2>4, <3>2
  <2>6. \A n \in 0 .. m - 1 : X[n + 1] = X[n] => X[n + 2] = X[n + 1]
    <3>. SUFFICES ASSUME NEW n \in 0 .. m - 1, X[n + 1] = X[n]  PROVE X[n + 2] = X[n + 1]
      OBVIOUS
    <3>1. n \in 0 .. m /\ n + 1 \in 0 .. m /\ (n + 1) + 1 = n + 2
      BY <1>0
    <3>2. X[(n + 1) + 1] = {p \in Positions(P) :
                              \/ x \in Uses(P[p])
                              \/ x \notin P[p].writes /\ \E s \in Successors(P, p) : s \in X[n + 1]}
      BY <2>5, <3>1
    <3>3. X[n + 1] = {p \in Positions(P) :
                        \/ x \in Uses(P[p])
                        \/ x \notin P[p].writes /\ \E s \in Successors(P, p) : s \in X[n]}
      BY <2>5, <3>1
    <3>. QED  BY ONLY <3>1, <3>2, <3>3, X[n + 1] = X[n]
  <2>7. \A n \in 0 .. m : X[n] \subseteq X[n + 1]
    <3> DEFINE Shrinks == {n \in 0 .. m : ~ (X[n] \subseteq X[n + 1])}
    <3>. SUFFICES ASSUME Shrinks # {}  PROVE FALSE
      OBVIOUS
    <3>1. Shrinks \subseteq Nat
      BY <1>0
    <3>2. PICK n \in Shrinks : \A q \in Shrinks : n <= q
      <4>. HIDE DEF Shrinks
      <4>. QED  BY <3>1, LeastNatural
    <3>3. n \in 0 .. m /\ ~ (X[n] \subseteq X[n + 1])
      OBVIOUS
    <3>4. n # 0
      <4>1. X[0] = {p \in Positions(P) : x \in Uses(P[p])} /\ 0 \in 0 .. m
        BY <1>0, <1>1, <2>1
      <4>2. X[0] \subseteq X[0 + 1]
        BY <2>5, <4>1
      <4>. QED  BY <3>3, <4>2
    <3>5. /\ n - 1 \in 0 .. m /\ n \in 0 .. m /\ ~(n <= n - 1) /\ (n - 1) + 1 = n
      BY <1>0, <3>3, <3>4
    <3>6. n - 1 \notin Shrinks
      <4>. HIDE DEF Shrinks
      <4>. QED  BY <3>2, <3>5
    <3>7. X[n - 1] \subseteq X[(n - 1) + 1]
      BY <3>5, <3>6
    <3>8. X[(n - 1) + 1] = {p \in Positions(P) :
                              \/ x \in Uses(P[p])
                              \/ x \notin P[p].writes /\ \E s \in Successors(P, p) : s \in X[n - 1]}
      BY <2>5, <3>5
    <3>9. X[n + 1] = {p \in Positions(P) :
                        \/ x \in Uses(P[p])
                        \/ x \notin P[p].writes /\ \E s \in Successors(P, p) : s \in X[n]}
      BY <2>5, <3>5
    <3>10. (n - 1) + 1 = n
      BY <3>5
    <3>11. X[n] \subseteq X[n + 1]
      BY ONLY <3>7, <3>8, <3>9, <3>10
    <3>. QED  BY <3>3, <3>11
  <2>8. X[m + 1] = X[m]
    BY <1>0, <2>3, <2>6, <2>7, GrowingEnds
  <2>9. m \in 0 .. m
    BY <1>0
  <2>. HIDE DEF back
  <2>. QED  BY <2>1, <2>2, <2>8, <2>9
<1>4. ASSUME NEW k \in Positions(P), NEW x
      PROVE  x \in g[m][k] <=>
               \/ x \in Uses(P[k])
               \/ x \notin P[k].writes /\ \E s \in Successors(P, k) : x \in g[m][s]
  BY <1>3, StepOfName
<1>. QED  BY <1>1, <1>2, <1>4

(* It is the least solution.                                               *)
LEMMA LiveIsLeast ==
  ASSUME NEW P \in Seq(Instruction), NEW F, \A k \in Positions(P) : Solved(P, F, k)
  PROVE  \A k \in Positions(P) : LiveBefore(P)[k] \subseteq F[k]
<1> DEFINE m == Len(P)
<1>0. m \in Nat /\ Positions(P) = 1 .. m
  BY PositionsOf
<1>1. PICK g \in [0 .. m -> Sets(P)] :
             /\ g[0] = [k \in Positions(P) |-> Uses(P[k])]
             /\ \A n \in 1 .. m : g[n] = OneStepBack(P, SuccessorsOf(P), g[n - 1])
             /\ LiveBefore(P) = g[m]
  BY LiveStepByStep
<1>. HIDE DEF m
<1> DEFINE More == {n \in 0 .. m : ~ \A k \in Positions(P) : g[n][k] \subseteq F[k]}
<1>2. More = {}
  <2>. SUFFICES ASSUME More # {}  PROVE FALSE
    OBVIOUS
  <2>1. More \subseteq Nat
    BY <1>0
  <2>2. PICK n \in More : \A q \in More : n <= q
    <3>. HIDE DEF More
    <3>. QED  BY <2>1, LeastNatural
  <2>3. n \in 0 .. m /\ ~ \A k \in Positions(P) : g[n][k] \subseteq F[k]
    OBVIOUS
  <2>4. n # 0
    <3>1. \A k \in Positions(P) : g[0][k] = Uses(P[k])
      BY <1>1
    <3>. QED  BY <2>3, <3>1 DEF Solved
  <2>5. n \in 1 .. m /\ n - 1 \in 0 .. m /\ ~(n <= n - 1)
    BY <1>0, <2>3, <2>4
  <2>6. n - 1 \notin More
    <3>. HIDE DEF More
    <3>. QED  BY <2>2, <2>5
  <2>7. \A k \in Positions(P) : g[n - 1][k] \subseteq F[k]
    BY <2>5, <2>6
  <2>8. ASSUME NEW k \in Positions(P), NEW x \in g[n][k]  PROVE x \in F[k]
    <3>1. \/ x \in Uses(P[k])
          \/ x \notin P[k].writes /\ \E s \in Successors(P, k) : x \in g[n - 1][s]
      BY <1>1, <2>5, <2>8, StepOfName
    <3>2. \A s \in Successors(P, k) : g[n - 1][s] \subseteq F[s]
      BY <2>7, PositionsOf
    <3>3. Solved(P, F, k)
      OBVIOUS
    <3>. QED  BY <3>1, <3>2, <3>3 DEF Solved
  <2>. QED  BY <2>3, <2>8
<1>3. m \in 0 .. m /\ m \notin More
  BY <1>0, <1>2
<1>. QED  BY <1>1, <1>3

(* The kinds of instruction.                                               *)
LEMMA LabelKind ==
  ASSUME NEW P, NEW k, IsLabel(P[k])
  PROVE  FallsThrough(P[k]) /\ ~Branches(P[k])
BY DEF IsLabel, FallsThrough, Branches

(* A branch has its label.                                                 *)
LEMMA BranchHasLabel ==
  ASSUME NEW P, Formed(P), NEW k \in Positions(P), Branches(P[k])
  PROVE  /\ LabelPosition(P, P[k].label) \in Positions(P)
         /\ IsLabel(P[LabelPosition(P, P[k].label)])
         /\ LabelPosition(P, P[k].label) \in Successors(P, k)
<1>1. \E l \in Positions(P) : IsLabel(P[l]) /\ P[l].label = P[k].label
  BY DEF Formed
<1>2. /\ LabelPosition(P, P[k].label) \in Positions(P)
      /\ IsLabel(P[LabelPosition(P, P[k].label)])
  BY <1>1 DEF LabelPosition
<1>. QED  BY <1>2 DEF Successors

(* The live sets name by name.                                             *)
LEMMA LiveSets ==
  ASSUME NEW P \in Seq(Instruction), NEW A, A \subseteq Name
  PROVE  /\ LiveIn(P, A) \in Sets(P) /\ LiveOut(P, A) \in Sets(P)
         /\ \A k \in Positions(P) : \A x :
              /\ x \in LiveIn(P, A)[k] <=>
                   x \in LiveBefore(P)[k] \/ (x \in A /\ k = 1 /\ x \notin P[k].writes)
              /\ x \in LiveOut(P, A)[k] <=>
                   \/ x \in P[k].writes \/ x \in P[k].bases \/ (x \in A /\ k = 1)
                   \/ \E s \in Successors(P, k) : x \in LiveBefore(P)[s]
<1> DEFINE live == LiveBefore(P)
           in(k, r) == r[k] \cup {x \in A : k = 1 /\ x \notin P[k].writes}
           out(k, r) == P[k].writes \cup P[k].bases \cup {x \in A : k = 1}
                          \cup UNION {r[s] : s \in Successors(P, k)}
<1>1. \A e : (CHOOSE f \in {e} : TRUE) = e
  OBVIOUS
<1>2. LiveIn(P, A) = [k \in Positions(P) |-> in(k, live)]
  <2>1. {[k \in Positions(P) |-> in(k, r)] : r \in {live}} = {[k \in Positions(P) |-> in(k, live)]}
    OBVIOUS
  <2>. QED  BY <1>1, <2>1 DEF LiveIn
<1>3. LiveOut(P, A) = [k \in Positions(P) |-> out(k, live)]
  <2>1. {[k \in Positions(P) |-> out(k, r)] : r \in {live}} = {[k \in Positions(P) |-> out(k, live)]}
    OBVIOUS
  <2>. QED  BY <1>1, <2>1 DEF LiveOut
<1>4. live \in Sets(P)
  BY LiveIsSolution
<1>5. ASSUME NEW k \in Positions(P)
      PROVE  in(k, live) \subseteq Name /\ out(k, live) \subseteq Name
  <2>1. \A s \in Successors(P, k) : live[s] \subseteq Name
    BY <1>4, PositionsOf DEF Sets
  <2>2. live[k] \subseteq Name
    BY <1>4 DEF Sets
  <2>. HIDE DEF live
  <2>. QED  BY <2>1, <2>2, PositionsOf
<1>6. \A k \in Positions(P) : LiveIn(P, A)[k] = in(k, live) /\ LiveOut(P, A)[k] = out(k, live)
  BY <1>2, <1>3
<1>7. LiveIn(P, A) \in Sets(P) /\ LiveOut(P, A) \in Sets(P)
  BY <1>2, <1>3, <1>5 DEF Sets
<1>. HIDE DEF live
<1>. QED  BY <1>6, <1>7 DEF live

-----------------------------------------------------------------------------
(* The intervals.                                                          *)

IntervalFrom(P, I, x, s) == [name |-> x, start |-> s, end |-> IntervalEnd(P, I, x, s)]

(* There is one interval for every place where one starts.                 *)
LEMMA IntervalsAre ==
  ASSUME NEW P, NEW I, NEW O
  PROVE  /\ \A x \in Name : \A s \in Positions(P) : StartsInterval(I, O, x, s) =>
              IntervalFrom(P, I, x, s) \in LiveIntervals(P, I, O)
         /\ \A li \in LiveIntervals(P, I, O) : \E x \in Name : \E s \in Positions(P) :
              StartsInterval(I, O, x, s) /\ li = IntervalFrom(P, I, x, s)
<1> DEFINE starts == {q \in Name \X Positions(P) : StartsInterval(I, O, q[1], q[2])}
<1>1. LiveIntervals(P, I, O) = {IntervalFrom(P, I, p[1], p[2]) : p \in starts}
  BY DEF LiveIntervals, IntervalFrom
<1>2. ASSUME NEW x \in Name, NEW s \in Positions(P), StartsInterval(I, O, x, s)
      PROVE  IntervalFrom(P, I, x, s) \in LiveIntervals(P, I, O)
  <2>1. <<x, s>> \in starts /\ <<x, s>>[1] = x /\ <<x, s>>[2] = s
    BY <1>2
  <2>. HIDE DEF starts
  <2>. QED  BY <1>1, <2>1
<1>3. ASSUME NEW li \in LiveIntervals(P, I, O)
      PROVE  \E x \in Name : \E s \in Positions(P) :
               StartsInterval(I, O, x, s) /\ li = IntervalFrom(P, I, x, s)
  <2>1. PICK p \in starts : li = IntervalFrom(P, I, p[1], p[2])
    BY <1>1
  <2>2. p[1] \in Name /\ p[2] \in Positions(P) /\ StartsInterval(I, O, p[1], p[2])
    OBVIOUS
  <2>. QED  BY <2>1, <2>2
<1>. QED  BY <1>2, <1>3

(* An interval ends before the first instruction where x is not live, and  *)
(* at the first of the list when there is none.                            *)
LEMMA IntervalEndIs ==
  ASSUME NEW P \in Seq(Instruction), NEW I, NEW x, NEW s \in Positions(P)
  PROVE  /\ StaysLive(I, x, s, Len(P)) => IntervalEnd(P, I, x, s) = 1
         /\ ~StaysLive(I, x, s, Len(P)) =>
              /\ IntervalEnd(P, I, x, s) \in s .. Len(P) - 1
              /\ StaysLive(I, x, s, IntervalEnd(P, I, x, s))
              /\ x \notin I[IntervalEnd(P, I, x, s) + 1]
<1>0. Positions(P) = 1 .. Len(P) /\ Len(P) \in Nat
  BY PositionsOf
<1>1. CASE StaysLive(I, x, s, Len(P))
  BY <1>1 DEF IntervalEnd
<1>2. CASE ~StaysLive(I, x, s, Len(P))
  <2> DEFINE Dead == {k \in s + 1 .. Len(P) : x \notin I[k]}
  <2>1. Dead # {} /\ Dead \subseteq Nat
    BY <1>0, <1>2 DEF StaysLive
  <2>2. PICK d \in Dead : \A k \in Dead : d <= k
    <3>. HIDE DEF Dead
    <3>. QED  BY <2>1, LeastNatural
  <2>3. d \in s + 1 .. Len(P) /\ x \notin I[d]
    OBVIOUS
  <2>4. ASSUME NEW k \in s + 1 .. d - 1  PROVE x \in I[k]
    BY <1>0, <2>2, <2>3
  <2>5. d - 1 \in s .. Len(P) - 1 /\ (d - 1) + 1 = d
    BY <1>0, <2>3
  <2>. HIDE DEF Dead
  <2>6. \E e \in s .. Len(P) - 1 : StaysLive(I, x, s, e) /\ x \notin I[e + 1]
    <3>1. StaysLive(I, x, s, d - 1)
      BY <2>4 DEF StaysLive
    <3>. QED  BY <2>3, <2>5, <3>1
  <2>. QED  BY <1>2, <2>6 DEF IntervalEnd
<1>. QED  BY <1>1, <1>2

(* Nothing is live at the return label, unless it is all there is.         *)
LEMMA NothingLiveAtEnd ==
  ASSUME NEW P, Formed(P), NEW A, A \subseteq Name, NEW x,
         NEW s \in Positions(P), x \in LiveOut(P, A)[s],
         StaysLive(LiveIn(P, A), x, s, Len(P))
  PROVE  s = 1 /\ Len(P) = 1
<1>0. P \in Seq(Instruction) /\ Positions(P) = 1 .. Len(P) /\ Len(P) \in Nat /\ Len(P) \in Positions(P)
  BY PositionsOf DEF Formed
<1>1. /\ IsLabel(P[Len(P)]) /\ Uses(P[Len(P)]) = {} /\ P[Len(P)].writes = {}
      /\ P[Len(P)].bases = {}
  BY <1>0 DEF Formed, Uses
<1>2. Successors(P, Len(P)) = {}
  BY <1>0, <1>1, LabelKind DEF Successors
<1>3. x \notin LiveBefore(P)[Len(P)]
  BY <1>0, <1>1, <1>2, LiveIsSolution
<1>4. CASE s = Len(P)
  <2>1. s = 1
    <3>1. x \in LiveOut(P, A)[Len(P)]
      BY <1>4
    <3>2. \/ x \in P[Len(P)].writes \/ x \in P[Len(P)].bases \/ (x \in A /\ Len(P) = 1)
          \/ \E t \in Successors(P, Len(P)) : x \in LiveBefore(P)[t]
      BY <1>0, <3>1, LiveSets, ZenonT(30)
    <3>. QED  BY <1>1, <1>2, <1>4, <3>2
  <2>. QED  BY <1>4, <2>1
<1>5. CASE s # Len(P)
  <2>1. Len(P) \in s + 1 .. Len(P) /\ Len(P) # 1
    BY <1>0, <1>5, SMTT(30)
  <2>2. x \in LiveIn(P, A)[Len(P)]
    BY <2>1 DEF StaysLive
  <2>. QED  BY <1>0, <1>3, <2>1, <2>2, LiveSets
<1>. QED  BY <1>4, <1>5

(* An interval does not end before it starts.                              *)
LEMMA EndAfterStart ==
  ASSUME NEW P, Formed(P), NEW A, A \subseteq Name, NEW x, NEW s \in Positions(P),
         x \in LiveOut(P, A)[s]
  PROVE  /\ IntervalEnd(P, LiveIn(P, A), x, s) \in s .. Len(P)
         /\ \A j \in s .. Len(P) : StaysLive(LiveIn(P, A), x, s, j) =>
              j <= IntervalEnd(P, LiveIn(P, A), x, s)
<1> DEFINE I == LiveIn(P, A)
           e == IntervalEnd(P, I, x, s)
<1>0. P \in Seq(Instruction) /\ Positions(P) = 1 .. Len(P) /\ Len(P) \in Nat
  BY PositionsOf DEF Formed
<1>1. CASE StaysLive(I, x, s, Len(P))
  <2>1. s = 1 /\ Len(P) = 1
    BY <1>1, NothingLiveAtEnd
  <2>2. e = 1
    BY <1>0, <1>1, IntervalEndIs
  <2>. QED  BY <2>1, <2>2
<1>2. CASE ~StaysLive(I, x, s, Len(P))
  <2>1. e \in s .. Len(P) - 1 /\ x \notin I[e + 1]
    BY <1>0, <1>2, IntervalEndIs
  <2>. HIDE DEF e, I
  <2>2. ASSUME NEW j \in s .. Len(P), StaysLive(I, x, s, j), ~(j <= e)
        PROVE  FALSE
    <3>1. e + 1 \in s + 1 .. j
      BY <1>0, <2>1, <2>2
    <3>. QED  BY <2>1, <2>2, <3>1 DEF StaysLive
  <2>3. e \in s .. Len(P)
    BY <1>0, <2>1
  <2>. QED  BY <2>2, <2>3 DEF e, I
<1>. QED  BY <1>1, <1>2

(* A value in a live_out set has an interval as far as it stays live.      *)
LEMMA IntervalCovers ==
  ASSUME NEW P, Formed(P), NEW A, A \subseteq Name, NEW x \in Name,
         NEW s \in Positions(P), x \in LiveOut(P, A)[s],
         NEW j \in Positions(P), s <= j, StaysLive(LiveIn(P, A), x, s, j)
  PROVE  \E li \in LiveIntervals(P, LiveIn(P, A), LiveOut(P, A)) :
           li.name = x /\ li.start <= j /\ j <= li.end
<1> DEFINE I == LiveIn(P, A)
           O == LiveOut(P, A)
           Starts == {k \in 1 .. j : x \in O[k] /\ StaysLive(I, x, k, j)}
<1>0. P \in Seq(Instruction) /\ Positions(P) = 1 .. Len(P) /\ Len(P) \in Nat
  BY PositionsOf DEF Formed
<1>1. s \in Starts /\ Starts \subseteq Nat
  BY <1>0
<1>2. PICK k \in Starts : \A q \in Starts : k <= q
  <2>. HIDE DEF Starts
  <2>. QED  BY <1>1, LeastNatural
<1>3. k \in 1 .. j /\ k \in Positions(P) /\ x \in O[k] /\ StaysLive(I, x, k, j) /\ j \in k .. Len(P)
  BY <1>0
<1>4. StartsInterval(I, O, x, k)
  <2>1. ASSUME NEW q \in 1 .. k - 1, x \in O[q], StaysLive(I, x, q, k)
        PROVE  FALSE
    <3>1. q \in 1 .. j /\ ~(k <= q)
      BY <1>0, <1>3, <2>1
    <3>2. StaysLive(I, x, q, j)
      <4>. SUFFICES ASSUME NEW p \in q + 1 .. j  PROVE x \in I[p]
        BY DEF StaysLive
      <4>1. p \in q + 1 .. k \/ p \in k + 1 .. j
        BY <1>0, <1>3, <2>1
      <4>. QED  BY <1>3, <2>1, <4>1 DEF StaysLive
    <3>. QED  BY <1>2, <2>1, <3>1, <3>2
  <2>. QED  BY <1>3, <2>1 DEF StartsInterval
<1>5. IntervalFrom(P, I, x, k) \in LiveIntervals(P, I, O)
  BY <1>3, <1>4, IntervalsAre
<1>6. j <= IntervalEnd(P, I, x, k)
  BY <1>3, EndAfterStart
<1>7. k <= j
  BY <1>0, <1>3
<1>. HIDE DEF I, O, Starts
<1>8. /\ IntervalFrom(P, I, x, k).name = x
      /\ IntervalFrom(P, I, x, k).start = k
      /\ IntervalFrom(P, I, x, k).end = IntervalEnd(P, I, x, k)
  BY DEF IntervalFrom
<1>9. \E li \in LiveIntervals(P, I, O) : li.name = x /\ li.start <= j /\ j <= li.end
  BY <1>5, <1>6, <1>7, <1>8
<1>. QED  BY <1>9 DEF I, O

(* Of two intervals of a name the one that starts first ends first.        *)
LEMMA EndsBeforeNext ==
  ASSUME NEW P, Formed(P), NEW A, A \subseteq Name, NEW x, NEW s \in Positions(P),
         NEW t \in Positions(P), s < t, x \in LiveOut(P, A)[s],
         StartsInterval(LiveIn(P, A), LiveOut(P, A), x, t)
  PROVE  IntervalEnd(P, LiveIn(P, A), x, s) < t
<1> DEFINE I == LiveIn(P, A)
           O == LiveOut(P, A)
           e == IntervalEnd(P, I, x, s)
<1>0. P \in Seq(Instruction) /\ Positions(P) = 1 .. Len(P) /\ Len(P) \in Nat
  BY PositionsOf DEF Formed
<1>1. s \in 1 .. t - 1
  BY <1>0
<1>2. ~StaysLive(I, x, s, t)
  BY <1>1 DEF StartsInterval
<1>3. ~StaysLive(I, x, s, Len(P))
  <2>1. s + 1 .. t \subseteq s + 1 .. Len(P)
    BY <1>0
  <2>. QED  BY <1>2, <2>1 DEF StaysLive
<1>4. e \in s .. Len(P) - 1 /\ StaysLive(I, x, s, e)
  BY <1>0, <1>3, IntervalEndIs
<1>. HIDE DEF I, O, e
<1>5. ASSUME ~(e < t)  PROVE FALSE
  <2>1. s + 1 .. t \subseteq s + 1 .. e
    BY <1>0, <1>4, <1>5
  <2>. QED  BY <1>2, <1>4, <2>1 DEF StaysLive
<1>. QED  BY <1>5 DEF e, I

(* The live intervals of one name, or of several, are parts of lives.      *)
PartsApart(lis) ==
  /\ \A l \in lis : l.start <= l.end
  /\ \A l, m \in lis : l.name = m.name /\ l.start < m.start => l.end < m.start

(* The intervals that liveness leaves are parts of lives: those of a name  *)
(* do not meet, and none ends before it starts.                            *)
LEMMA LivePartsApart ==
  ASSUME NEW P, Formed(P), NEW A, A \subseteq Name
  PROVE  LET lis == LiveIntervals(P, LiveIn(P, A), LiveOut(P, A))
         IN  PartsApart(lis) /\ \A l, m \in lis : l.name = m.name /\ l.start = m.start => l = m
<1> DEFINE I == LiveIn(P, A)
           O == LiveOut(P, A)
           lis == LiveIntervals(P, I, O)
<1>0. P \in Seq(Instruction) /\ Positions(P) = 1 .. Len(P) /\ Len(P) \in Nat
  BY PositionsOf DEF Formed
<1>1. ASSUME NEW l \in lis
      PROVE  \E x \in Name : \E s \in Positions(P) :
               /\ StartsInterval(I, O, x, s) /\ x \in O[s] /\ l = IntervalFrom(P, I, x, s)
               /\ l.name = x /\ l.start = s /\ l.end = IntervalEnd(P, I, x, s)
  <2>1. PICK x \in Name, s \in Positions(P) :
               StartsInterval(I, O, x, s) /\ l = IntervalFrom(P, I, x, s)
    BY IntervalsAre
  <2>. HIDE DEF I, O
  <2>2. x \in O[s]
    BY <2>1 DEF StartsInterval
  <2>3. l.name = x /\ l.start = s /\ l.end = IntervalEnd(P, I, x, s)
    BY <2>1 DEF IntervalFrom
  <2>. QED  BY <2>1, <2>2, <2>3
<1>2. ASSUME NEW l \in lis  PROVE l.start <= l.end
  <2>1. PICK x \in Name, s \in Positions(P) :
               x \in O[s] /\ l.start = s /\ l.end = IntervalEnd(P, I, x, s)
    BY <1>1
  <2>2. IntervalEnd(P, I, x, s) \in s .. Len(P)
    BY <2>1, EndAfterStart
  <2>. HIDE DEF I, O
  <2>. QED  BY <1>0, <2>1, <2>2
<1>3. ASSUME NEW l \in lis, NEW m \in lis, l.name = m.name, l.start < m.start
      PROVE  l.end < m.start
  <2>1. PICK x \in Name, s \in Positions(P) :
               /\ StartsInterval(I, O, x, s) /\ x \in O[s]
               /\ l.name = x /\ l.start = s /\ l.end = IntervalEnd(P, I, x, s)
    BY <1>1
  <2>2. PICK y \in Name, t \in Positions(P) :
               /\ StartsInterval(I, O, y, t) /\ y \in O[t]
               /\ m.name = y /\ m.start = t /\ m.end = IntervalEnd(P, I, y, t)
    BY <1>1
  <2>3. x = y /\ s < t
    BY <1>3, <2>1, <2>2
  <2>4. IntervalEnd(P, I, x, s) < t
    BY <2>1, <2>2, <2>3, EndsBeforeNext
  <2>. QED  BY <2>1, <2>2, <2>4
<1>4. ASSUME NEW l \in lis, NEW m \in lis, l.name = m.name, l.start = m.start
      PROVE  l = m
  <2>1. PICK x \in Name, s \in Positions(P) :
               l.name = x /\ l.start = s /\ l = IntervalFrom(P, I, x, s)
    BY <1>1
  <2>2. PICK y \in Name, t \in Positions(P) :
               m.name = y /\ m.start = t /\ m = IntervalFrom(P, I, y, t)
    BY <1>1
  <2>. HIDE DEF I, O
  <2>. QED  BY <1>4, <2>1, <2>2
<1>. HIDE DEF lis
<1>5. PartsApart(lis)
  BY <1>2, <1>3 DEF PartsApart
<1>. QED  BY <1>4, <1>5 DEF lis

-----------------------------------------------------------------------------
(* What can run.                                                           *)

(* One round of Reachable.                                                 *)
MoreReached(P, r) == r \cup UNION {Successors(P, p) : p \in r}

ReachStep(P, g, n) ==
  IF n = 0 THEN {1} ELSE UNION {MoreReached(P, r) : r \in {g[n - 1]}}

(* An instruction that can run is the first or follows one.                *)
LEMMA ReachedFromOne ==
  ASSUME NEW P \in Seq(Instruction), P # <<>>, NEW k \in Reachable(P)
  PROVE  k \in Positions(P) /\ (k = 1 \/ \E p \in Positions(P) : k \in Successors(P, p))
<1> DEFINE m == Len(P)
           S == SUBSET Positions(P)
           F == [r \in S |-> MoreReached(P, r)]
           Solves(g) == g = [n \in 0 .. m |-> ReachStep(P, g, n)]
           reached == CHOOSE g : Solves(g)
           Fine(r) == \A q \in r : q \in Positions(P) /\ (q = 1 \/ \E p \in Positions(P) : q \in Successors(P, p))
           Wrong == {n \in 0 .. m : ~ Fine(reached[n])}
<1>0. m \in Nat /\ Positions(P) = 1 .. m /\ 1 \in Positions(P)
  BY PositionsOf
<1>1. {1} \in S /\ F \in [S -> S]
  <2>1. \A r \in S : MoreReached(P, r) \in S
    BY PositionsOf DEF MoreReached
  <2>. QED  BY <1>0, <2>1
<1>2. \A r : UNION {MoreReached(P, q) : q \in {r}} = MoreReached(P, r)
  <2>1. \A r : {MoreReached(P, q) : q \in {r}} = {MoreReached(P, r)}
    OBVIOUS
  <2>2. \A e : UNION {e} = e
    OBVIOUS
  <2>. QED  BY <2>1, <2>2
<1>3. \E g : Solves(g)
  <2>0. PICK g : Iterate(g, S, {1}, F, m)
    <3>. HIDE DEF F, S
    <3>. QED  BY <1>0, <1>1, IteratesExist
  <2>1. /\ g \in [0 .. m -> S] /\ g[0] = {1}
        /\ \A n \in 1 .. m : g[n] = F[g[n - 1]]
    <3>. HIDE DEF F, S
    <3>. QED  BY <2>0 DEF Iterate
  <2>2. \A n \in 1 .. m : F[g[n - 1]] = MoreReached(P, g[n - 1])
    <3>1. \A n \in 1 .. m : n - 1 \in 0 .. m
      BY <1>0
    <3>2. \A n \in 1 .. m : g[n - 1] \in S
      BY <2>1, <3>1
    <3>. QED  BY <3>2
  <2>3. \A n \in 0 .. m : g[n] = ReachStep(P, g, n)
    <3>. SUFFICES ASSUME NEW n \in 0 .. m  PROVE g[n] = ReachStep(P, g, n)
      OBVIOUS
    <3>1. CASE n = 0
      BY <2>1, <3>1 DEF ReachStep
    <3>2. CASE n # 0
      <4>1. n \in 1 .. m
        BY <1>0, <3>2
      <4>2. g[n] = MoreReached(P, g[n - 1])
        BY <2>1, <2>2, <4>1
      <4>. QED  BY <1>2, <3>2, <4>2 DEF ReachStep
    <3>. QED  BY <3>1, <3>2
  <2>4. g = [n \in 0 .. m |-> g[n]]
    BY <2>1
  <2>. QED  BY <2>3, <2>4
<1>4. Solves(reached)
  <2>. HIDE DEF Solves
  <2>. QED  BY <1>3
<1>5. Reachable(P) = reached[m]
  BY DEF Reachable, ReachStep, MoreReached
<1>. HIDE DEF reached
<1>6. \A n \in 0 .. m : reached[n] = IF n = 0 THEN {1} ELSE MoreReached(P, reached[n - 1])
  <2>1. \A n \in 0 .. m : reached[n] = ReachStep(P, reached, n)
    BY <1>4
  <2>. QED  BY <1>2, <2>1 DEF ReachStep
<1>7. Wrong = {}
  <2>. SUFFICES ASSUME Wrong # {}  PROVE FALSE
    OBVIOUS
  <2>1. Wrong \subseteq Nat
    OBVIOUS
  <2>2. PICK n \in Wrong : \A q \in Wrong : n <= q
    <3>. HIDE DEF Wrong
    <3>. QED  BY <2>1, LeastNatural
  <2>3. n \in 0 .. m /\ ~ Fine(reached[n])
    OBVIOUS
  <2>4. n # 0
    BY <1>0, <1>6, <2>3
  <2>5. n - 1 \in 0 .. m /\ ~(n <= n - 1)
    BY <1>0, <2>3, <2>4
  <2>6. Fine(reached[n - 1])
    <3>. HIDE DEF Fine
    <3>. QED  BY <2>2, <2>5
  <2>7. reached[n] = MoreReached(P, reached[n - 1])
    BY <1>6, <2>3, <2>4
  <2>8. \A q \in reached[n] : q \in reached[n - 1] \/ \E p \in reached[n - 1] : q \in Successors(P, p)
    BY <2>7 DEF MoreReached
  <2>9. Fine(reached[n])
    BY <2>6, <2>8, PositionsOf
  <2>. QED  BY <2>3, <2>9
<1>8. m \in 0 .. m /\ m \notin Wrong
  BY <1>0, <1>7
<1>. QED  BY <1>5, <1>8

(* What is live after an instruction has an interval there and at the next.*)
LEMMA EdgeCovered ==
  ASSUME NEW P, Formed(P), NEW A, A \subseteq Name, NEW k \in Positions(P),
         NEW s \in Successors(P, k), NEW x, x \in LiveBefore(P)[s]
  PROVE  /\ x \in Name
         /\ \E li \in LiveIntervals(P, LiveIn(P, A), LiveOut(P, A)) :
              li.name = x /\ li.start <= k /\ k <= li.end
         /\ \E li \in LiveIntervals(P, LiveIn(P, A), LiveOut(P, A)) :
              li.name = x /\ li.start <= s /\ s <= li.end
<1>0. P \in Seq(Instruction) /\ Positions(P) = 1 .. Len(P) /\ Len(P) \in Nat
  BY PositionsOf DEF Formed
<1>1. s \in Positions(P) /\ x \in Name
  BY <1>0, PositionsOf, LiveIsSolution DEF Sets
<1>2. x \in LiveOut(P, A)[k]
  BY <1>0, LiveSets
<1>3. ASSUME NEW p \in Positions(P)
      PROVE  p <= p /\ StaysLive(LiveIn(P, A), x, p, p)
  BY <1>0, <1>3 DEF StaysLive
<1>4. \E li \in LiveIntervals(P, LiveIn(P, A), LiveOut(P, A)) :
              li.name = x /\ li.start <= k /\ k <= li.end
  BY <1>1, <1>2, <1>3, IntervalCovers
<1>5. CASE FallsThrough(P[k]) /\ s = k + 1
  <2>1. x \in LiveIn(P, A)[s]
    BY <1>0, <1>1, LiveSets
  <2>2. k <= s
    BY <1>0, <1>1, <1>5
  <2>3. StaysLive(LiveIn(P, A), x, k, s)
    <3>1. \A q \in k + 1 .. s : q = s
      BY <1>0, <1>5
    <3>. QED  BY <2>1, <3>1 DEF StaysLive
  <2>4. \E li \in LiveIntervals(P, LiveIn(P, A), LiveOut(P, A)) :
              li.name = x /\ li.start <= s /\ s <= li.end
    BY <1>1, <1>2, <2>2, <2>3, IntervalCovers
  <2>. QED  BY <1>1, <1>4, <2>4
<1>6. CASE Branches(P[k]) /\ s = LabelPosition(P, P[k].label)
  <2>1. IsLabel(P[s])
    BY <1>6, BranchHasLabel
  <2>2. Uses(P[s]) = {}
    BY <1>1, <2>1 DEF Formed
  <2>3. x \in LiveOut(P, A)[s]
    BY <1>0, <1>1, <2>2, LiveIsSolution, LiveSets
  <2>. QED  BY <1>1, <1>3, <1>4, <2>3, IntervalCovers
<1>. QED  BY <1>5, <1>6 DEF Successors

(* Every operand of an instruction that can run has an interval there, when *)
(* the first instruction reads nothing but arguments.                      *)
LEMMA OperandCovered ==
  ASSUME NEW P, Formed(P), NEW A, A \subseteq Name, Uses(P[1]) \subseteq A,
         NEW k \in Reachable(P), NEW x \in Operands(P[k])
  PROVE  /\ k \in Positions(P) /\ x \in Name
         /\ \E li \in LiveIntervals(P, LiveIn(P, A), LiveOut(P, A)) :
              li.name = x /\ li.start <= k /\ k <= li.end
<1> DEFINE Covered == \E li \in LiveIntervals(P, LiveIn(P, A), LiveOut(P, A)) :
                        li.name = x /\ li.start <= k /\ k <= li.end
<1>0. P \in Seq(Instruction) /\ P # <<>> /\ Positions(P) = 1 .. Len(P) /\ Len(P) \in Nat
  BY PositionsOf DEF Formed
<1>1. k \in Positions(P) /\ (k = 1 \/ \E p \in Positions(P) : k \in Successors(P, p))
  BY <1>0, ReachedFromOne
<1>2. x \in Name
  BY <1>0, <1>1, PositionsOf DEF Operands
<1>3. ASSUME x \in LiveOut(P, A)[k]  PROVE Covered
  <2>1. k <= k /\ StaysLive(LiveIn(P, A), x, k, k)
    BY <1>0, <1>1 DEF StaysLive
  <2>. QED  BY <1>0, <1>1, <1>2, <1>3, <2>1, IntervalCovers
<1>4. CASE x \in P[k].writes \cup P[k].bases
  <2>1. x \in LiveOut(P, A)[k]
    BY <1>0, <1>1, <1>4, LiveSets
  <2>. QED  BY <1>1, <1>2, <1>3, <2>1
<1>5. CASE x \in P[k].reads
  <2>1. x \in Uses(P[k]) /\ x \in LiveBefore(P)[k]
    BY <1>0, <1>1, <1>5, LiveIsSolution DEF Uses
  <2>2. CASE k = 1
    <3>1. x \in LiveOut(P, A)[k]
      BY <1>0, <1>1, <2>1, <2>2, LiveSets
    <3>. QED  BY <1>1, <1>2, <1>3, <3>1
  <2>3. CASE k # 1
    BY <1>1, <2>1, <2>3, EdgeCovered
  <2>. QED  BY <2>2, <2>3
<1>6. Covered
  BY <1>4, <1>5 DEF Operands
<1>. QED  BY <1>1, <1>2, <1>6

=============================================================================
