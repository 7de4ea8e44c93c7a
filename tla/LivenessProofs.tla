--------------------------- MODULE LivenessProofs ---------------------------
(***************************************************************************)
(* Proofs about Liveness, for every list of instructions: the sweeps       *)
(* compute the textbook liveness, and the intervals made from it cover     *)
(* every value on every path.                                              *)
(*                                                                         *)
(* The textbook liveness is the least solution of its equations.  The      *)
(* sweeps never leave it, and when one changes nothing the live sets are   *)
(* a solution, of equations over edges that skip labels.                   *)
(***************************************************************************)
EXTENDS Liveness, InstructionProofs

-----------------------------------------------------------------------------
(* The edges the sweeps follow.                                            *)

(* The instruction after k is the first that is not a label.               *)
LEMMA NextInstrIs ==
  ASSUME NEW P \in Seq(Instruction), NEW k \in Positions(P)
  PROVE  /\ NextInstr(P, k) \in {0} \cup Positions(P)
         /\ NextInstr(P, k) = 0 => \A q \in Positions(P) : q > k => IsLabel(P[q])
         /\ NextInstr(P, k) # 0 =>
              /\ NextInstr(P, k) > k /\ ~IsLabel(P[NextInstr(P, k)])
              /\ \A q \in Positions(P) : q > k /\ ~IsLabel(P[q]) => NextInstr(P, k) <= q
<1> DEFINE after == {n \in Positions(P) : n > k /\ ~IsLabel(P[n])}
<1>1. Positions(P) \subseteq Nat /\ 0 \notin Positions(P)
  BY PositionsOf
<1>2. NextInstr(P, k) = IF after = {} THEN 0
                        ELSE CHOOSE n \in after : \A q \in after : n <= q
  BY DEF NextInstr
<1>3. CASE after = {}
  BY <1>2, <1>3
<1>4. CASE after # {}
  <2>1. \E n \in after : \A q \in after : n <= q
    <3>1. after \subseteq Nat
      BY <1>1
    <3>. HIDE DEF after
    <3>. QED  BY <1>4, <3>1, LeastNatural
  <2>2. NextInstr(P, k) \in after /\ \A q \in after : NextInstr(P, k) <= q
    <3>. HIDE DEF after
    <3>. QED  BY <1>2, <1>4, <2>1
  <2>. QED  BY <1>1, <2>2
<1>. QED  BY <1>3, <1>4

(* It is the next one, or the one after the label that is next.            *)
LEMMA NextInstrStep ==
  ASSUME NEW P \in Seq(Instruction), NEW k \in Positions(P), k + 1 \in Positions(P)
  PROVE  NextInstr(P, k) = IF IsLabel(P[k + 1]) THEN NextInstr(P, k + 1) ELSE k + 1
<1>1. Positions(P) = 1 .. Len(P) /\ Len(P) \in Nat
  BY PositionsOf
<1> DEFINE a == NextInstr(P, k)
           b == NextInstr(P, k + 1)
<1>2. /\ a \in {0} \cup Positions(P)
      /\ a = 0 => \A q \in Positions(P) : q > k => IsLabel(P[q])
      /\ a # 0 => /\ a > k /\ ~IsLabel(P[a])
                  /\ \A q \in Positions(P) : q > k /\ ~IsLabel(P[q]) => a <= q
  BY NextInstrIs
<1>3. /\ b \in {0} \cup Positions(P)
      /\ b = 0 => \A q \in Positions(P) : q > k + 1 => IsLabel(P[q])
      /\ b # 0 => /\ b > k + 1 /\ ~IsLabel(P[b])
                  /\ \A q \in Positions(P) : q > k + 1 /\ ~IsLabel(P[q]) => b <= q
  BY NextInstrIs
<1>. HIDE DEF a, b
<1>4. CASE IsLabel(P[k + 1])
  <2>1. \A q \in Positions(P) : q > k /\ ~IsLabel(P[q]) => q > k + 1
    BY <1>1, <1>4
  <2>2. a = 0 => b = 0
    BY <1>1, <1>2, <1>3
  <2>3. a # 0 => b # 0 /\ b <= a /\ a <= b
    BY <1>1, <1>2, <1>3, <2>1
  <2>4. a = b
    BY <1>1, <1>2, <1>3, <2>2, <2>3
  <2>. QED  BY <1>4, <2>4 DEF a, b
<1>5. CASE ~IsLabel(P[k + 1])
  <2>1. a # 0 /\ a <= k + 1 /\ a > k
    BY <1>1, <1>2, <1>5
  <2>2. a = k + 1
    BY <1>1, <1>2, <2>1
  <2>. QED  BY <1>5, <2>2 DEF a
<1>. QED  BY <1>4, <1>5

(* Sets that pass back through labels pass back to the next position.      *)
LEMMA ThroughLabels ==
  ASSUME NEW P \in Seq(Instruction), NEW F,
         \A k \in Positions(P) : IsLabel(P[k]) /\ k + 1 \in Positions(P) => F[k + 1] \subseteq F[k]
  PROVE  \A k \in Positions(P) : NextInstr(P, k) # 0 =>
           k + 1 \in Positions(P) /\ F[NextInstr(P, k)] \subseteq F[k + 1]
<1> DEFINE m == Len(P)
           Goal(k) == NextInstr(P, k) # 0 =>
                        k + 1 \in Positions(P) /\ F[NextInstr(P, k)] \subseteq F[k + 1]
           Wrong == {d \in Nat : m - d \in Positions(P) /\ ~ Goal(m - d)}
<1>1. m \in Nat /\ Positions(P) = 1 .. m
  BY PositionsOf
<1>2. ASSUME NEW k \in Positions(P), NextInstr(P, k) # 0
      PROVE  k + 1 \in Positions(P)
  BY <1>1, <1>2, NextInstrIs
<1>. HIDE DEF m
<1>3. Wrong = {}
  <2>. SUFFICES ASSUME Wrong # {}  PROVE FALSE
    OBVIOUS
  <2>1. Wrong \subseteq Nat
    OBVIOUS
  <2>2. PICK d \in Wrong : \A q \in Wrong : d <= q
    <3>. HIDE DEF Wrong
    <3>. QED  BY <2>1, LeastNatural
  <2>3. PICK k \in Positions(P) : k = m - d /\ ~ Goal(k)
    OBVIOUS
  <2>4. NextInstr(P, k) # 0 /\ k + 1 \in Positions(P)
    BY <1>2, <2>3
  <2>5. NextInstr(P, k) = IF IsLabel(P[k + 1]) THEN NextInstr(P, k + 1) ELSE k + 1
    BY <2>4, NextInstrStep
  <2>6. IsLabel(P[k + 1])
    BY <2>3, <2>4, <2>5
  <2>7. d \in Nat /\ d - 1 \in Nat /\ ~(d <= d - 1) /\ m - (d - 1) = k + 1
    BY <1>1, <2>1, <2>3, <2>4
  <2>8. d - 1 \notin Wrong
    <3>. HIDE DEF Wrong
    <3>. QED  BY <2>2, <2>7
  <2>9. Goal(k + 1)
    <3>. HIDE DEF Goal
    <3>. QED  BY <2>4, <2>7, <2>8
  <2>10. /\ (k + 1) + 1 \in Positions(P)
         /\ F[NextInstr(P, k + 1)] \subseteq F[(k + 1) + 1]
    BY <2>4, <2>5, <2>6, <2>9
  <2>11. F[(k + 1) + 1] \subseteq F[k + 1]
    BY <2>4, <2>6, <2>10
  <2>. QED  BY <2>3, <2>4, <2>5, <2>6, <2>10, <2>11
<1>4. ASSUME NEW k \in Positions(P)  PROVE Goal(k)
  <2>1. m - k \in Nat /\ m - (m - k) = k
    BY <1>1
  <2>2. m - k \notin Wrong
    BY <1>3
  <2>. HIDE DEF Goal
  <2>. QED  BY <2>1, <2>2
<1>. QED  BY <1>4

(* Every edge of a sweep leaves what is live to an edge of the program.    *)
LEMMA SweepEdges ==
  ASSUME NEW P, Formed(P), NEW k \in Positions(P), NEW s \in SweepSuccessors(P, k)
  PROVE  /\ s \in Positions(P) /\ s # 1
         /\ \E t \in Successors(P, k) : LiveBefore(P)[s] \subseteq LiveBefore(P)[t]
<1>0. P \in Seq(Instruction) /\ Positions(P) = 1 .. Len(P) /\ Len(P) \in Nat
  BY PositionsOf DEF Formed
<1>1. s \in Positions(P)
  BY DEF SweepSuccessors
<1>2. ASSUME NEW q \in Positions(P), IsLabel(P[q]), q + 1 \in Positions(P)
      PROVE  LiveBefore(P)[q + 1] \subseteq LiveBefore(P)[q]
  <2>1. P[q].writes = {}
    BY <1>2 DEF Formed
  <2>2. q + 1 \in Successors(P, q)
    BY <1>2, LabelKind DEF Successors
  <2>. QED  BY <1>0, <2>1, <2>2, LiveIsSolution
<1>3. CASE FallsThrough(P[k]) /\ s = NextInstr(P, k)
  <2>1. s # 0 /\ s > k
    BY <1>0, <1>1, <1>3, NextInstrIs
  <2>2. k + 1 \in Positions(P) /\ LiveBefore(P)[s] \subseteq LiveBefore(P)[k + 1]
    BY <1>0, <1>2, <1>3, <2>1, ThroughLabels
  <2>3. k + 1 \in Successors(P, k)
    BY <1>3, <2>2 DEF Successors
  <2>. QED  BY <1>0, <1>1, <2>1, <2>2, <2>3
<1>4. CASE Branches(P[k]) /\ s = LabelInstr(P, P[k].label)
  <2> DEFINE l == LabelPosition(P, P[k].label)
  <2>1. l \in Positions(P) /\ IsLabel(P[l]) /\ l \in Successors(P, k)
    BY <1>4, BranchHasLabel
  <2>2. s = IF l < Len(P) THEN l + 1 ELSE 0
    BY <1>4 DEF LabelInstr
  <2>. HIDE DEF l
  <2>3. s = l + 1 /\ s # 1
    BY <1>0, <1>1, <2>1, <2>2
  <2>. QED  BY <1>1, <1>2, <2>1, <2>3
<1>. QED  BY <1>3, <1>4 DEF SweepSuccessors

-----------------------------------------------------------------------------
(* The sets when a sweep changes nothing.                                  *)

(* What Visit adds is there already.                                       *)
StableAt(P, I, O, k) ==
  /\ P[k].reads \cup P[k].uses \cup (O[k] \ P[k].writes) \subseteq I[k]
  /\ P[k].writes \cup P[k].bases \cup UNION {I[s] : s \in SweepSuccessors(P, k)} \subseteq O[k]

Within(P, A, I, O) ==
  \A k \in Positions(P) : I[k] \subseteq LiveIn(P, A)[k] /\ O[k] \subseteq LiveOut(P, A)[k]

(* A visit leaves the sets within the textbook's.                          *)
LEMMA VisitStaysWithin ==
  ASSUME NEW P, Formed(P), NEW A, A \subseteq Name, NEW I \in Sets(P), NEW O \in Sets(P),
         Within(P, A, I, O), NEW k \in Positions(P),
         NEW a, a = I[k] \cup P[k].reads \cup P[k].uses \cup (O[k] \ P[k].writes),
         NEW b, b = O[k] \cup P[k].writes \cup P[k].bases
                      \cup UNION {[I EXCEPT ![k] = a][s] : s \in SweepSuccessors(P, k)}
  PROVE  /\ [I EXCEPT ![k] = a] \in Sets(P) /\ [O EXCEPT ![k] = b] \in Sets(P)
         /\ Within(P, A, [I EXCEPT ![k] = a], [O EXCEPT ![k] = b])
<1> DEFINE J == [I EXCEPT ![k] = a]
<1>0. P \in Seq(Instruction)
  BY DEF Formed
<1>1. a \subseteq LiveIn(P, A)[k]
  <2>1. P[k].reads \cup P[k].uses \cup P[k].bases \subseteq LiveBefore(P)[k]
    BY <1>0, LiveIsSolution DEF Uses
  <2>2. ASSUME NEW x \in O[k], x \notin P[k].writes
        PROVE  x \in LiveIn(P, A)[k]
    <3>1. x \in LiveOut(P, A)[k]
      BY DEF Within
    <3>2. \/ x \in P[k].bases \/ (x \in A /\ k = 1)
          \/ \E s \in Successors(P, k) : x \in LiveBefore(P)[s]
      BY <1>0, <2>2, <3>1, LiveSets
    <3>. QED  BY <1>0, <2>1, <2>2, <3>2, LiveSets, LiveIsSolution
  <2>3. I[k] \subseteq LiveIn(P, A)[k]
    BY DEF Within
  <2>4. P[k].reads \cup P[k].uses \subseteq LiveIn(P, A)[k]
    BY <1>0, <2>1, LiveSets
  <2>. QED  BY <2>2, <2>3, <2>4
<1>2. a \subseteq Name
  <2>1. I[k] \subseteq Name /\ O[k] \subseteq Name
    BY DEF Sets
  <2>. QED  BY <1>0, <2>1, PositionsOf
<1>3. J \in Sets(P) /\ \A q \in Positions(P) : J[q] \subseteq LiveIn(P, A)[q] /\ J[q] \subseteq Name
  <2>1. \A q \in Positions(P) : J[q] = IF q = k THEN a ELSE I[q]
    BY DEF Sets
  <2>. QED  BY <1>1, <1>2, <2>1 DEF Sets, Within
<1>. HIDE DEF J
<1>4. b \subseteq LiveOut(P, A)[k] /\ b \subseteq Name
  <2>1. ASSUME NEW s \in SweepSuccessors(P, k), NEW x \in J[s]
        PROVE  x \in LiveOut(P, A)[k] /\ x \in Name
    <3>1. s \in Positions(P) /\ s # 1
          /\ \E t \in Successors(P, k) : LiveBefore(P)[s] \subseteq LiveBefore(P)[t]
      BY SweepEdges
    <3>2. x \in LiveBefore(P)[s]
      BY <1>0, <1>3, <2>1, <3>1, LiveSets
    <3>. QED  BY <1>0, <1>3, <2>1, <3>1, <3>2, LiveSets
  <2>2. P[k].writes \cup P[k].bases \subseteq LiveOut(P, A)[k]
    BY <1>0, LiveSets
  <2>3. O[k] \subseteq LiveOut(P, A)[k] /\ O[k] \subseteq Name
    BY DEF Within, Sets
  <2>4. b = O[k] \cup P[k].writes \cup P[k].bases \cup UNION {J[s] : s \in SweepSuccessors(P, k)}
    BY DEF J
  <2>. QED  BY <1>0, <2>1, <2>2, <2>3, <2>4, PositionsOf
<1>5. \A q \in Positions(P) : [O EXCEPT ![k] = b][q] = IF q = k THEN b ELSE O[q]
  BY DEF Sets
<1>6. [O EXCEPT ![k] = b] \in Sets(P)
  BY <1>4 DEF Sets
<1>. QED  BY <1>3, <1>4, <1>5, <1>6 DEF Within, J

(* Sets that a sweep does not change are the textbook's.                   *)
LEMMA StableIsExact ==
  ASSUME NEW P, Formed(P), NEW A, A \subseteq Name, NEW I \in Sets(P), NEW O \in Sets(P),
         Within(P, A, I, O), A \subseteq O[1],
         \A k \in Positions(P) : StableAt(P, I, O, k)
  PROVE  I = LiveIn(P, A) /\ O = LiveOut(P, A)
<1> DEFINE after(k) == UNION {I[s] : s \in SweepSuccessors(P, k)}
           F == [k \in Positions(P) |-> Uses(P[k]) \cup (after(k) \ P[k].writes)]
<1>0. P \in Seq(Instruction) /\ Positions(P) = 1 .. Len(P) /\ Len(P) \in Nat
  BY PositionsOf DEF Formed
<1>1. \A k \in Positions(P) : F[k] \subseteq I[k] /\ after(k) \subseteq O[k]
  BY DEF StableAt, Uses, Formed
<1>2. \A k \in Positions(P) : IsLabel(P[k]) =>
        F[k] = UNION {I[s] : s \in {q \in Positions(P) : q = NextInstr(P, k)}}
  BY LabelKind DEF Formed, SweepSuccessors
<1>3. ASSUME NEW k \in Positions(P), NEW s \in Successors(P, k)
      PROVE  s \in Positions(P) /\ F[s] \subseteq after(k)
  <2>0. s \in Positions(P)
    BY <1>0, PositionsOf
  <2>1. CASE FallsThrough(P[k]) /\ s = k + 1
    <3>1. NextInstr(P, k) = IF IsLabel(P[s]) THEN NextInstr(P, s) ELSE s
      BY <1>0, <2>0, <2>1, NextInstrStep
    <3>2. \A q \in Positions(P) : q = NextInstr(P, k) => I[q] \subseteq after(k)
      BY <2>1 DEF SweepSuccessors
    <3>. HIDE DEF F, after
    <3>3. CASE IsLabel(P[s])
      BY <1>2, <2>0, <3>1, <3>2, <3>3
    <3>4. CASE ~IsLabel(P[s])
      BY <1>1, <2>0, <3>1, <3>2, <3>4
    <3>. QED  BY <2>0, <3>3, <3>4
  <2>2. CASE Branches(P[k]) /\ s = LabelPosition(P, P[k].label)
    <3>1. IsLabel(P[s])
      BY <2>2, BranchHasLabel
    <3>2. \A q \in Positions(P) : q = LabelInstr(P, P[k].label) => I[q] \subseteq after(k)
      BY <2>2 DEF SweepSuccessors
    <3>3. LabelInstr(P, P[k].label) = IF s < Len(P) THEN s + 1 ELSE 0
      BY <2>2 DEF LabelInstr
    <3>. HIDE DEF F, after
    <3>4. CASE s < Len(P)
      <4>1. s + 1 \in Positions(P) /\ I[s + 1] \subseteq after(k)
        BY <1>0, <2>0, <3>2, <3>3, <3>4
      <4>2. NextInstr(P, s) = IF IsLabel(P[s + 1]) THEN NextInstr(P, s + 1) ELSE s + 1
        BY <1>0, <2>0, <4>1, NextInstrStep
      <4>3. IsLabel(P[s + 1]) => F[s] = F[s + 1]
        BY <1>2, <2>0, <3>1, <4>1, <4>2
      <4>4. ~IsLabel(P[s + 1]) => F[s] = I[s + 1]
        BY <1>2, <2>0, <3>1, <4>1, <4>2
      <4>. QED  BY <1>1, <2>0, <4>1, <4>3, <4>4
    <3>5. CASE ~(s < Len(P))
      <4>1. NextInstr(P, s) \notin Positions(P)
        BY <1>0, <2>0, <3>5, NextInstrIs
      <4>. QED  BY <1>2, <2>0, <3>1, <4>1
    <3>. QED  BY <2>0, <3>4, <3>5
  <2>. QED  BY <2>1, <2>2 DEF Successors
<1>4. \A k \in Positions(P) : Solved(P, F, k)
  <2>. SUFFICES ASSUME NEW k \in Positions(P)  PROVE Solved(P, F, k)
    OBVIOUS
  <2>1. F[k] = Uses(P[k]) \cup (after(k) \ P[k].writes)
    OBVIOUS
  <2>2. \A s \in Successors(P, k) : F[s] \subseteq after(k)
    BY <1>3
  <2>. HIDE DEF F, after
  <2>. QED  BY <2>1, <2>2 DEF Solved
<1>. HIDE DEF F, after
<1>5. \A k \in Positions(P) : LiveBefore(P)[k] \subseteq F[k]
  BY <1>0, <1>4, LiveIsLeast
<1>6. ASSUME NEW k \in Positions(P)  PROVE LiveOut(P, A)[k] \subseteq O[k]
  <2>1. \A s \in Successors(P, k) : LiveBefore(P)[s] \subseteq O[k]
    BY <1>1, <1>3, <1>5
  <2>2. P[k].writes \cup P[k].bases \subseteq O[k]
    BY DEF StableAt
  <2>. QED  BY <1>0, <2>1, <2>2, LiveSets
<1>7. ASSUME NEW k \in Positions(P)  PROVE LiveIn(P, A)[k] \subseteq I[k]
  <2>1. O[k] \ P[k].writes \subseteq I[k]
    BY DEF StableAt
  <2>. QED  BY <1>0, <1>1, <1>5, <2>1, LiveSets
<1>8. /\ \A k \in Positions(P) : I[k] = LiveIn(P, A)[k] /\ O[k] = LiveOut(P, A)[k]
  BY <1>6, <1>7 DEF Within
<1>. QED  BY <1>0, <1>8, LiveSets DEF Sets

-----------------------------------------------------------------------------
(* The sweeps.                                                             *)

SweepInv ==
  /\ TypeOK
  /\ Formed(code) /\ Uses(code[1]) \subseteq args
  /\ Within(code, args, live_in, live_out)
  /\ args \subseteq live_out[1]
  /\ ~changed => \A k \in 1 .. i - 1 : StableAt(code, live_in, live_out, k)
  /\ phase = "done" => i = N + 1 /\ ~changed

(* Before the first sweep only the arguments are in a set.                 *)
LEMMA SweepInit == Init => SweepInv
<1>. SUFFICES ASSUME Init  PROVE SweepInv
  OBVIOUS
<1>0. PICK r \in Routines :
        /\ code = r.code
        /\ args = r.args
        /\ live_in = [k \in Positions(r.code) |-> {}]
        /\ live_out = [k \in Positions(r.code) |-> IF k = 1 THEN r.args ELSE {}]
        /\ i = 1
        /\ changed = FALSE
        /\ phase = "sweep"
  BY DEF Init
<1>1. Formed(code) /\ Uses(code[1]) \subseteq args /\ args \subseteq Name
  BY <1>0, RoutinesAssumption
<1>2. /\ code \in Seq(Instruction) /\ Positions(code) = 1 .. N /\ N \in Nat \ {0}
  BY <1>1, PositionsOf DEF Formed, N
<1>3. live_in \in Sets(code) /\ live_out \in Sets(code)
  BY <1>0, <1>1 DEF Sets
<1>4. TypeOK
  <2>1. i \in 1 .. N + 1
    BY <1>0, <1>2
  <2>. QED  BY <1>0, <1>1, <1>2, <1>3, <2>1 DEF TypeOK, Sets
<1>5. Within(code, args, live_in, live_out)
  <2>1. ASSUME NEW k \in Positions(code)
        PROVE  live_in[k] \subseteq LiveIn(code, args)[k] /\ live_out[k] \subseteq LiveOut(code, args)[k]
    BY <1>0, <1>1, <1>2, LiveSets
  <2>. QED  BY <2>1 DEF Within
<1>6. args \subseteq live_out[1]
  BY <1>0, <1>2
<1>. QED  BY <1>0, <1>1, <1>4, <1>5, <1>6 DEF SweepInv

(* A visit adds what the textbook has too, and is remembered if it adds.   *)
LEMMA SweepStep == SweepInv /\ [Next]_vars => SweepInv'
<1>. SUFFICES ASSUME SweepInv, [Next]_vars  PROVE SweepInv'
  OBVIOUS
<1>1. /\ code \in Seq(Instruction) /\ Positions(code) = 1 .. N /\ N \in Nat \ {0}
  BY PositionsOf DEF SweepInv, Formed, N
<1>2. CASE Visit
  <2> DEFINE in  == live_in[i] \cup code[i].reads \cup code[i].uses
                      \cup (live_out[i] \ code[i].writes)
             lin == [live_in EXCEPT ![i] = in]
             out == live_out[i] \cup code[i].writes \cup code[i].bases
                      \cup UNION {lin[s] : s \in SweepSuccessors(code, i)}
             lout == [live_out EXCEPT ![i] = out]
  <2>1. /\ phase = "sweep" /\ i \in Positions(code)
        /\ live_in' = lin /\ live_out' = lout
        /\ changed' = (changed \/ in # live_in[i] \/ out # live_out[i])
        /\ i' = i + 1 /\ code' = code /\ args' = args /\ phase' = phase
    BY <1>1, <1>2 DEF Visit, SweepInv, TypeOK
  <2>2. /\ lin \in Sets(code) /\ lout \in Sets(code)
        /\ Within(code, args, lin, lout)
    <3>1. /\ Formed(code) /\ args \subseteq Name
          /\ live_in \in Sets(code) /\ live_out \in Sets(code)
          /\ Within(code, args, live_in, live_out)
      BY DEF SweepInv, TypeOK, Sets
    <3>. QED  BY <2>1, <3>1, VisitStaysWithin
  <2>3. live_in \in Sets(code) /\ live_out \in Sets(code)
    BY DEF SweepInv, TypeOK, Sets
  <2>4. ASSUME NEW k \in Positions(code)
        PROVE  lout[k] = IF k = i THEN out ELSE live_out[k]
    BY <2>3 DEF Sets
  <2>5. args \subseteq lout[1]
    <3>1. live_out[1] \subseteq lout[1]
      BY <1>1, <2>4
    <3>. QED  BY <3>1 DEF SweepInv
  <2>6. ASSUME ~changed'  PROVE ~changed /\ lin = live_in /\ lout = live_out
    <3>1. ~changed /\ in = live_in[i] /\ out = live_out[i]
      BY <2>1, <2>6 DEF SweepInv, TypeOK
    <3>. QED  BY <2>1, <2>3, <3>1 DEF Sets
  <2>7. ASSUME ~changed', NEW k \in 1 .. i' - 1
        PROVE  StableAt(code, live_in', live_out', k)
    <3>1. CASE k = i
      <4>1. in = live_in[i] /\ out = live_out[i] /\ lin = live_in /\ lout = live_out
        BY <2>1, <2>6, <2>7 DEF SweepInv, TypeOK
      <4>2. /\ live_in[i] = live_in[i] \cup code[i].reads \cup code[i].uses
                              \cup (live_out[i] \ code[i].writes)
            /\ live_out[i] = live_out[i] \cup code[i].writes \cup code[i].bases
                               \cup UNION {live_in[s] : s \in SweepSuccessors(code, i)}
        BY <4>1
      <4>3. StableAt(code, live_in, live_out, i)
        BY <4>2 DEF StableAt
      <4>. QED  BY <2>1, <3>1, <4>1, <4>3
    <3>2. CASE k # i
      <4>1. k \in 1 .. i - 1
        BY <1>1, <2>1, <2>7, <3>2
      <4>2. StableAt(code, live_in, live_out, k)
        BY <2>6, <2>7, <4>1 DEF SweepInv
      <4>. QED  BY <2>1, <2>6, <2>7, <4>2
    <3>. QED  BY <3>1, <3>2
  <2>8. i' \in 1 .. N + 1
    BY <1>1, <2>1
  <2>9. changed' \in BOOLEAN
    BY <2>1 DEF SweepInv, TypeOK
  <2>. HIDE DEF lin, lout, in, out
  <2>10. TypeOK'
    BY <2>1, <2>2, <2>8, <2>9 DEF SweepInv, TypeOK, Sets, N, Positions
  <2>. QED  BY <2>1, <2>2, <2>5, <2>7, <2>10 DEF SweepInv, Within, Positions
<1>3. CASE SweepAgain
  <2>1. /\ code' = code /\ args' = args /\ live_in' = live_in /\ live_out' = live_out
        /\ i' = 1 /\ changed' = FALSE /\ phase' = phase /\ phase = "sweep"
    BY <1>3 DEF SweepAgain
  <2>2. TypeOK'
    <3>1. i' \in 1 .. N + 1
      BY <1>1, <2>1
    <3>2. TypeOK
      BY DEF SweepInv
    <3>. QED  BY ONLY <2>1, <3>1, <3>2 DEF TypeOK, N, Positions
  <2>. QED  BY <2>1, <2>2 DEF SweepInv, Within, Positions, StableAt
<1>4. CASE Finish
  <2>1. /\ code' = code /\ args' = args /\ live_in' = live_in /\ live_out' = live_out
        /\ i' = i /\ changed' = changed /\ phase' = "done" /\ i > N /\ ~changed
    BY <1>4 DEF Finish
  <2>2. TypeOK'
    BY <1>1, <2>1 DEF SweepInv, TypeOK, N, Positions
  <2>3. i = N + 1
    BY <1>1, <2>1 DEF SweepInv, TypeOK
  <2>. QED  BY <2>1, <2>2, <2>3 DEF SweepInv, Within, Positions, StableAt, N
<1>5. CASE UNCHANGED vars
  BY <1>5 DEF vars, SweepInv, TypeOK, Within, Positions, StableAt, N
<1>. QED  BY <1>2, <1>3, <1>4, <1>5 DEF Next

(* The live sets and the position of the sweep keep their types, and what  *)
(* is found never exceeds the textbook's sets.                             *)
THEOREM LivenessInvariance == Spec => []SweepInv
<1>1. Init => SweepInv
  BY SweepInit
<1>2. SweepInv /\ [Next]_vars => SweepInv'
  BY SweepStep
<1>. QED  BY <1>1, <1>2, PTL DEF Spec

(* When no sweep changes anything the sets are the textbook's.             *)
LEMMA DoneIsExact == SweepInv => LiveSetsExact
<1>. SUFFICES ASSUME SweepInv, phase = "done"
             PROVE  live_in = LiveIn(code, args) /\ live_out = LiveOut(code, args)
  BY DEF LiveSetsExact
<1>1. /\ Formed(code) /\ args \subseteq Name
      /\ live_in \in Sets(code) /\ live_out \in Sets(code)
      /\ Within(code, args, live_in, live_out) /\ args \subseteq live_out[1]
  BY DEF SweepInv, TypeOK, Sets
<1>2. Positions(code) = 1 .. i - 1 /\ ~changed
  BY <1>1, PositionsOf DEF SweepInv, Formed, N
<1>3. \A k \in Positions(code) : StableAt(code, live_in, live_out, k)
  BY <1>2 DEF SweepInv
<1>. QED  BY <1>1, <1>3, StableIsExact

(* LiveSetsExact, for every routine Selection may emit: sweeping in place  *)
(* along edges that skip labels ends with the least solution of the        *)
(* textbook's equations, no more and no less.                              *)
THEOREM LiveSetsAreExact == Spec => []LiveSetsExact
BY LivenessInvariance, DoneIsExact, PTL

(* The intervals of one name do not meet, whatever the routine.            *)
LEMMA DoneIsApart == SweepInv => IntervalsApart
<1>. SUFFICES ASSUME SweepInv, phase = "done"
             PROVE  /\ \A li \in Intervals : li.start <= li.end
                    /\ \A a, b \in Intervals : a.name = b.name /\ a # b =>
                         a.end < b.start \/ b.end < a.start
  BY DEF IntervalsApart
<1>1. Formed(code) /\ args \subseteq Name /\ code \in Seq(Instruction)
  BY DEF SweepInv, TypeOK, Formed
<1>2. Intervals = LiveIntervals(code, LiveIn(code, args), LiveOut(code, args))
  BY DoneIsExact DEF LiveSetsExact, Intervals
<1>3. /\ PartsApart(Intervals)
      /\ \A a, b \in Intervals : a.name = b.name /\ a.start = b.start => a = b
  BY <1>1, <1>2, LivePartsApart
<1>4. \A a \in Intervals : a.start \in Nat
  <2>1. ASSUME NEW a \in Intervals  PROVE a.start \in Positions(code)
    <3>1. PICK x \in Name, s \in Positions(code) :
                 a = IntervalFrom(code, LiveIn(code, args), x, s)
      BY <1>2, IntervalsAre
    <3>. QED  BY <3>1 DEF IntervalFrom
  <2>. QED  BY <1>1, <2>1, PositionsOf
<1>5. ASSUME NEW a \in Intervals, NEW b \in Intervals, a.name = b.name, a # b
      PROVE  a.end < b.start \/ b.end < a.start
  <2>1. a.start < b.start \/ b.start < a.start
    BY <1>3, <1>4, <1>5
  <2>. QED  BY <1>3, <1>5, <2>1 DEF PartsApart
<1>. QED  BY <1>3, <1>5 DEF PartsApart

(* IntervalsApart: the linear scan never sees two intervals of a name      *)
(* that meet, and none that ends before it starts; that StaysLive can run  *)
(* to the end of the list, where li.end would keep its 0, happens only in  *)
(* an empty routine.                                                       *)
THEOREM IntervalsNeverMeet == Spec => []IntervalsApart
BY LivenessInvariance, DoneIsApart, PTL

(* The intervals cover what flows through the routine.                     *)
LEMMA DoneIsCovered == SweepInv => FlowStaysCovered
<1> DEFINE L == LiveBefore(code)
<1>. SUFFICES ASSUME SweepInv, phase = "done", NEW k \in Reachable(code)
             PROVE  /\ \A x \in Operands(code[k]) : HasInterval(x, k)
                    /\ \A s \in Successors(code, k) : \A x \in L[s] :
                         HasInterval(x, k) /\ HasInterval(x, s)
  BY DEF FlowStaysCovered
<1>0. /\ Formed(code) /\ args \subseteq Name /\ code \in Seq(Instruction) /\ code # <<>>
      /\ Positions(code) = 1 .. Len(code) /\ Len(code) \in Nat
      /\ Uses(code[1]) \subseteq args
  BY PositionsOf DEF SweepInv, TypeOK, Formed
<1>1. Intervals = LiveIntervals(code, LiveIn(code, args), LiveOut(code, args))
  BY DoneIsExact DEF LiveSetsExact, Intervals
<1>2. k \in Positions(code) /\ (k = 1 \/ \E p \in Positions(code) : k \in Successors(code, p))
  BY <1>0, ReachedFromOne
<1>3. \A p \in Positions(code) : \A s \in Successors(code, p) : \A x \in L[s] :
        HasInterval(x, p) /\ HasInterval(x, s)
  BY <1>0, <1>1, EdgeCovered DEF HasInterval
<1>4. \A x \in Operands(code[k]) : HasInterval(x, k)
  BY <1>0, <1>1, OperandCovered DEF HasInterval
<1>. QED  BY <1>2, <1>3, <1>4

(* FlowStaysCovered: whatever the routine and its jumps, a value has one   *)
(* interval over each edge it is live on, and every operand of an          *)
(* instruction that can run has an interval there, so the allocator finds  *)
(* a register or a slot for it.                                            *)
THEOREM FlowIsCovered == Spec => []FlowStaysCovered
BY LivenessInvariance, DoneIsCovered, PTL

=============================================================================
