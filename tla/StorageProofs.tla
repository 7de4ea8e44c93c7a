---------------------------- MODULE StorageProofs ----------------------------
(***************************************************************************)
(* Proofs about what hands things out: the arena, the pool of registers    *)
(* and the hash table.  They share no state; each part proves that one     *)
(* component's invariant is inductive and what follows from it.            *)
(***************************************************************************)
EXTENDS Arena, RegAlloc, HashTable, Lemmas, SequenceTheorems, FiniteSetTheorems

-----------------------------------------------------------------------------
(* The arena: for all sizes of blocks, requests and addresses, allocations *)
(* in use never overlap and an allocation never fails.  The invariant says *)
(* where the allocations are: below the tops of blocks that lie apart.     *)
(* What is pushed lies above a top, and only what ends at a top is taken   *)
(* back.                                                                   *)

ArenaInv == TypeOK /\ BlocksApart /\ LiveBelowTop /\ AllocationsApart /\ NeverNull

(* A new block holds the request it is made for.                           *)
LEMMA NewBlockFits ==
  ASSUME NEW r \in Requests, NEW base \in Addresses
  PROVE  /\ NewBlock(r, base) \in Block
         /\ Fits(NewBlock(r, base), r)
         /\ NewBlock(r, base).base = base
         /\ NewBlock(r, base).size = NewBlockSize(r)
         /\ NewBlock(r, base).top = base
<1>1. r.size \in Nat /\ r.alignment \in Nat \ {0} /\ base \in Nat
  BY RequestAssumption, AddressAssumption
<1>2. r.size + r.alignment \in Nat
  BY <1>1
<1>3. /\ Align(r.size + r.alignment, Page) \in Nat
      /\ Align(r.size + r.alignment, Page) >= r.size + r.alignment
  BY <1>2, SizeAssumption, AlignRoundsUp
<1>4. NewBlockSize(r) \in Nat /\ NewBlockSize(r) >= r.size + r.alignment
  BY <1>2, <1>3, SizeAssumption DEF NewBlockSize
<1>5. Align(base, r.alignment) \in Nat /\ Align(base, r.alignment) < base + r.alignment
  BY <1>1, AlignRoundsUp
<1>. QED  BY <1>1, <1>4, <1>5 DEF NewBlock, Block, Fits, Limit

(* What lies below the top of one block is not what lies above the top of  *)
(* another.                                                                *)
LEMMA OtherBlock ==
  ASSUME NEW b \in Block, NEW c \in Block, NEW a \in [lo : Nat, hi : Nat],
         NEW new \in [lo : Nat, hi : Nat],
         Apart(b.base, b.size, c), b.top <= Limit(b), c.base <= c.top,
         b.base <= a.lo, a.hi <= b.top, c.top <= new.lo, new.hi <= Limit(c)
  PROVE  a.hi <= new.lo \/ new.hi <= a.lo
<1>1. HeaderSize \in Nat
  BY SizeAssumption
<1>2. /\ b.base \in Nat /\ b.size \in Nat /\ b.top \in Nat
      /\ c.base \in Nat /\ c.size \in Nat /\ c.top \in Nat
  BY DEF Block
<1>. QED  BY <1>1, <1>2 DEF Apart, Limit

(* Taking a request from the last block that has room for it keeps the     *)
(* invariant, whether the block is old or new.                             *)
LEMMA TakeKeepsArena ==
  ASSUME NEW bs \in Seq(Block), bs # <<>>, NEW r \in Requests, NEW inUse, NEW apart \in Block,
         apart = bs[Len(bs)], Fits(apart, r),
         inUse \subseteq [lo : Nat, hi : Nat],
         \A i \in DOMAIN bs : bs[i].base <= bs[i].top /\ bs[i].top <= Limit(bs[i]),
         \A i, j \in DOMAIN bs : i # j => Apart(bs[i].base, bs[i].size, bs[j]),
         \A a \in inUse : /\ a.lo < a.hi
                          /\ \E i \in DOMAIN bs : bs[i].base <= a.lo /\ a.hi <= bs[i].top,
         \A a, b \in inUse : a # b => a.hi <= b.lo \/ b.hi <= a.lo,
         blocks' = Taken(bs, r), live' = inUse \cup Handed(bs, r),
         pushed' \in Nat, null' = FALSE
  PROVE  ArenaInv'
<1> DEFINE lo == Align(apart.top, r.alignment)
           new == [lo |-> lo, hi |-> lo + r.size]
<1>1. r.size \in Nat /\ r.alignment \in Nat \ {0}
  BY RequestAssumption
<1>2. apart.base \in Nat /\ apart.size \in Nat /\ apart.top \in Nat
  BY DEF Block
<1>3. lo \in Nat /\ lo >= apart.top
  BY <1>1, <1>2, AlignRoundsUp
<1>4. lo + r.size <= apart.base + apart.size
  BY DEF Fits, Limit
<1>5. Handed(bs, r) = IF r.size = 0 THEN {} ELSE {new}
  BY DEF Handed
<1>6. PICK h \in DOMAIN bs : h = Len(bs)
  OBVIOUS
<1>7. /\ DOMAIN blocks' = DOMAIN bs
      /\ \A i \in DOMAIN bs : i # h => blocks'[i] = bs[i]
      /\ blocks'[h] = [apart EXCEPT !.top = lo + r.size]
  <2>1. bs \in [1 .. Len(bs) -> Block] /\ DOMAIN bs = 1 .. Len(bs)
    OBVIOUS
  <2>2. blocks' = [bs EXCEPT ![h] = [apart EXCEPT !.top = lo + r.size]]
    BY <1>6, Zenon DEF Taken
  <2>. QED  BY <2>1, <2>2, <1>6
<1>17. new.lo = lo /\ new.hi = lo + r.size /\ new \in [lo : Nat, hi : Nat]
  BY <1>1, <1>3
<1> HIDE DEF lo, new
<1>8. /\ [apart EXCEPT !.top = lo + r.size] \in Block
      /\ [apart EXCEPT !.top = lo + r.size].base = apart.base
      /\ [apart EXCEPT !.top = lo + r.size].size = apart.size
      /\ [apart EXCEPT !.top = lo + r.size].top = lo + r.size
  <2>1. lo + r.size \in Nat
    BY <1>1, <1>3
  <2>. QED  BY <2>1 DEF Block
<1>9. blocks' \in Seq(Block)
  BY <1>6, <1>7, <1>8 DEF Taken
<1>10. /\ blocks'[h].base = apart.base
       /\ blocks'[h].size = apart.size
       /\ blocks'[h].top = lo + r.size
  BY <1>7, <1>8
<1>11. \A i \in DOMAIN bs : bs[i] \in Block
  OBVIOUS
<1>12. \A i \in DOMAIN bs : /\ bs[i].base \in Nat /\ bs[i].size \in Nat /\ bs[i].top \in Nat
                            /\ blocks'[i].base = bs[i].base
                            /\ blocks'[i].size = bs[i].size
                            /\ blocks'[i].top >= bs[i].top
                            /\ blocks'[i].top \in Nat
  <2> SUFFICES ASSUME NEW i \in DOMAIN bs
               PROVE  /\ bs[i].base \in Nat /\ bs[i].size \in Nat /\ bs[i].top \in Nat
                      /\ blocks'[i].base = bs[i].base
                      /\ blocks'[i].size = bs[i].size
                      /\ blocks'[i].top >= bs[i].top
                      /\ blocks'[i].top \in Nat
    OBVIOUS
  <2>1. bs[i].base \in Nat /\ bs[i].size \in Nat /\ bs[i].top \in Nat
    BY <1>11 DEF Block
  <2>2. CASE i = h
    BY <2>1, <2>2, <1>1, <1>2, <1>3, <1>6, <1>10
  <2>3. CASE i # h
    BY <2>1, <2>3, <1>7
  <2>. QED  BY <2>1, <2>2, <2>3
<1>13. TypeOK'
  <2>1. live' \subseteq [lo : Nat, hi : Nat]
    BY <1>5, <1>17
  <2>. QED  BY <1>9, <2>1 DEF TypeOK
<1>14. BlocksApart'
  <2>1. \A i \in DOMAIN bs : blocks'[i].base <= blocks'[i].top /\ blocks'[i].top <= Limit(blocks'[i])
    <3> SUFFICES ASSUME NEW i \in DOMAIN bs
                 PROVE  blocks'[i].base <= blocks'[i].top /\ blocks'[i].top <= Limit(blocks'[i])
      OBVIOUS
    <3>1. CASE i = h
      BY <3>1, <1>1, <1>2, <1>3, <1>4, <1>6, <1>10 DEF Limit
    <3>2. CASE i # h
      BY <3>2, <1>7
    <3>. QED  BY <3>1, <3>2
  <2>2. \A i, j \in DOMAIN bs : i # j => Apart(blocks'[i].base, blocks'[i].size, blocks'[j])
    BY <1>12 DEF Apart, Limit
  <2>. QED  BY <1>7, <2>1, <2>2 DEF BlocksApart
<1>15. LiveBelowTop'
  <2>1. \A a \in inUse : \E i \in DOMAIN bs : blocks'[i].base <= a.lo /\ a.hi <= blocks'[i].top
    <3> SUFFICES ASSUME NEW a \in inUse
                 PROVE  \E i \in DOMAIN bs : blocks'[i].base <= a.lo /\ a.hi <= blocks'[i].top
      OBVIOUS
    <3>1. PICK i \in DOMAIN bs : bs[i].base <= a.lo /\ a.hi <= bs[i].top
      OBVIOUS
    <3>2. a.hi \in Nat
      OBVIOUS
    <3>. QED  BY <3>1, <3>2, <1>12
  <2>2. ASSUME r.size # 0
        PROVE  new.lo < new.hi /\ blocks'[h].base <= new.lo /\ new.hi <= blocks'[h].top
    BY <2>2, <1>1, <1>2, <1>3, <1>6, <1>10, <1>17
  <2>3. ASSUME NEW a \in live'
        PROVE  a.lo < a.hi /\ \E i \in DOMAIN bs : blocks'[i].base <= a.lo /\ a.hi <= blocks'[i].top
    <3>1. CASE a \in inUse
      BY <3>1, <2>1
    <3>2. CASE r.size # 0 /\ a = new
      BY <3>2, <2>2
    <3>. QED  BY <3>1, <3>2, <1>5
  <2>. QED  BY <1>7, <2>3 DEF LiveBelowTop
<1>16. AllocationsApart'
  <2>1. ASSUME NEW a \in inUse, r.size # 0
        PROVE  a.hi <= new.lo \/ new.hi <= a.lo
    <3>1. PICK i \in DOMAIN bs : bs[i].base <= a.lo /\ a.hi <= bs[i].top
      OBVIOUS
    <3>2. a.lo \in Nat /\ a.hi \in Nat
      OBVIOUS
    <3>3. CASE i = h
      BY <3>1, <3>2, <3>3, <1>2, <1>3, <1>6, <1>17
    <3>4. CASE i # h
      <4>1. Apart(bs[i].base, bs[i].size, apart) /\ bs[i].top <= Limit(bs[i])
        BY <3>4, <1>6
      <4>3. apart.base <= apart.top
        BY <1>6
      <4>4. a \in [lo : Nat, hi : Nat] /\ bs[i] \in Block /\ new.hi <= Limit(apart)
        BY <1>4, <1>11, <1>17 DEF Limit
      <4>. QED  BY <3>1, <4>1, <4>3, <4>4, <1>3, <1>17, OtherBlock
    <3>. QED  BY <3>3, <3>4
  <2>. QED  BY <1>5, <2>1 DEF AllocationsApart
<1>. QED  BY <1>13, <1>14, <1>15, <1>16 DEF ArenaInv, NeverNull

(* NewMemoryArena hands out nothing.                                       *)
LEMMA InitArena == Init => ArenaInv
<1>. SUFFICES ASSUME Init PROVE ArenaInv
  OBVIOUS
<1>1. blocks \in Seq(Block) /\ DOMAIN blocks = {} /\ live = {} /\ pushed = 0 /\ null = FALSE
  BY DEF Init
<1>2. TypeOK
  BY <1>1 DEF TypeOK
<1>. QED  BY <1>1, <1>2 DEF ArenaInv, BlocksApart, LiveBelowTop, AllocationsApart, NeverNull

(* From the newest block.                                                  *)
LEMMA PushHereKeepsArena ==
  ASSUME ArenaInv, NEW r \in Requests, PushHere(r)
  PROVE  ArenaInv'
<1>1. blocks \in Seq(Block) /\ blocks # <<>> /\ Fits(Newest, r)
  BY DEF ArenaInv, TypeOK, PushHere, HasRoom
<1>2. Newest \in Block /\ Newest = blocks[Len(blocks)]
  BY <1>1 DEF Newest
<1>3. /\ \A i \in DOMAIN blocks : blocks[i].base <= blocks[i].top /\ blocks[i].top <= Limit(blocks[i])
      /\ \A i, j \in DOMAIN blocks : i # j => Apart(blocks[i].base, blocks[i].size, blocks[j])
  BY DEF ArenaInv, BlocksApart
<1>4. /\ live \subseteq [lo : Nat, hi : Nat]
      /\ \A a \in live : /\ a.lo < a.hi
                         /\ \E i \in DOMAIN blocks : blocks[i].base <= a.lo /\ a.hi <= blocks[i].top
      /\ \A a, b \in live : a # b => a.hi <= b.lo \/ b.hi <= a.lo
  BY DEF ArenaInv, TypeOK, LiveBelowTop, AllocationsApart
<1>5. blocks' = Taken(blocks, r) /\ live' = live \cup Handed(blocks, r)
  BY DEF PushHere
<1>6. pushed' \in Nat /\ null' = FALSE
  BY DEF ArenaInv, TypeOK, NeverNull, PushHere
<1>. QED  BY <1>1, <1>2, <1>3, <1>4, <1>5, <1>6, TakeKeepsArena

(* From a new block, which is apart from the others and never too small.   *)
LEMMA PushInNewBlockKeepsArena ==
  ASSUME ArenaInv, NEW r \in Requests, NEW base \in Addresses, PushInNewBlock(r, base)
  PROVE  ArenaInv'
<1> DEFINE new == NewBlock(r, base)
           bs == Append(blocks, new)
<1>1. /\ new \in Block /\ Fits(new, r)
      /\ new.base = base /\ new.size = NewBlockSize(r) /\ new.top = base
  BY NewBlockFits
<1>2. blocks \in Seq(Block)
  BY DEF ArenaInv, TypeOK
<1>3. \A i \in DOMAIN blocks : Apart(base, NewBlockSize(r), blocks[i])
  BY DEF PushInNewBlock
<1>4. blocks' = Taken(bs, r) /\ live' = live \cup Handed(bs, r)
  BY <1>1 DEF PushInNewBlock
<1>5. pushed' \in Nat /\ null' = FALSE
  BY <1>1 DEF ArenaInv, TypeOK, NeverNull, PushInNewBlock
<1>6. /\ live \subseteq [lo : Nat, hi : Nat]
      /\ \A a \in live : /\ a.lo < a.hi
                         /\ \E i \in DOMAIN blocks : blocks[i].base <= a.lo /\ a.hi <= blocks[i].top
      /\ \A a, b \in live : a # b => a.hi <= b.lo \/ b.hi <= a.lo
  BY DEF ArenaInv, TypeOK, LiveBelowTop, AllocationsApart
<1>7. /\ \A i \in DOMAIN blocks : blocks[i].base <= blocks[i].top /\ blocks[i].top <= Limit(blocks[i])
      /\ \A i, j \in DOMAIN blocks : i # j => Apart(blocks[i].base, blocks[i].size, blocks[j])
  BY DEF ArenaInv, BlocksApart
<1> HIDE DEF new
<1>8. /\ bs \in Seq(Block) /\ bs # <<>> /\ new = bs[Len(bs)]
      /\ \A i \in DOMAIN bs : (i \in DOMAIN blocks /\ bs[i] = blocks[i]) \/ i = Len(bs)
      /\ \A i \in DOMAIN blocks : i \in DOMAIN bs /\ bs[i] = blocks[i]
  <2>1. Len(blocks) \in Nat /\ DOMAIN blocks = 1 .. Len(blocks)
    BY <1>2
  <2>2. /\ bs \in Seq(Block) /\ Len(bs) = Len(blocks) + 1
        /\ \A i \in 1 .. Len(blocks) : bs[i] = blocks[i]
        /\ bs[Len(blocks) + 1] = new
    BY <1>1, <1>2, AppendProperties
  <2>3. DOMAIN bs = 1 .. (Len(blocks) + 1)
    BY <2>1, <2>2
  <2> HIDE DEF bs
  <2>4. bs # <<>> /\ new = bs[Len(bs)]
    BY <2>1, <2>2
  <2>5. \A i \in DOMAIN bs : i \in DOMAIN blocks \/ i = Len(bs)
    BY <2>1, <2>2, <2>3
  <2>6. \A i \in DOMAIN blocks : i \in DOMAIN bs /\ bs[i] = blocks[i]
    BY <2>1, <2>2, <2>3
  <2>. QED  BY <2>2, <2>4, <2>5, <2>6
<1> HIDE DEF bs
<1>9. \A i \in DOMAIN bs : bs[i].base <= bs[i].top /\ bs[i].top <= Limit(bs[i])
  <2>1. new.base <= new.top /\ new.top <= Limit(new)
    BY <1>1 DEF Limit, Block
  <2>. QED  BY <2>1, <1>7, <1>8
<1>10. \A i, j \in DOMAIN bs : i # j => Apart(bs[i].base, bs[i].size, bs[j])
  <2>1. ASSUME NEW i \in DOMAIN blocks
        PROVE  Apart(new.base, new.size, blocks[i]) /\ Apart(blocks[i].base, blocks[i].size, new)
    <3>1. Apart(new.base, new.size, blocks[i])
      BY <1>1, <1>3
    <3>2. blocks[i] \in Block
      BY <1>2
    <3>3. /\ blocks[i].base \in Nat /\ blocks[i].size \in Nat
          /\ new.base \in Nat /\ new.size \in Nat /\ HeaderSize \in Nat
      BY <3>2, <1>1, SizeAssumption DEF Block
    <3>. QED  BY <3>1, <3>3 DEF Apart, Limit
  <2> SUFFICES ASSUME NEW i \in DOMAIN bs, NEW j \in DOMAIN bs, i # j
               PROVE  Apart(bs[i].base, bs[i].size, bs[j])
    OBVIOUS
  <2>2. CASE i = Len(bs)
    BY <2>1, <2>2, <1>8
  <2>3. CASE j = Len(bs)
    BY <2>1, <2>3, <1>8
  <2>4. CASE i # Len(bs) /\ j # Len(bs)
    BY <2>4, <1>7, <1>8
  <2>. QED  BY <2>2, <2>3, <2>4
<1>11. \A a \in live : /\ a.lo < a.hi
                       /\ \E i \in DOMAIN bs : bs[i].base <= a.lo /\ a.hi <= bs[i].top
  BY <1>6, <1>8
<1>. QED  BY <1>1, <1>4, <1>5, <1>6, <1>8, <1>9, <1>10, <1>11, TakeKeepsArena

(* An allocation that is taken back was the last one in the newest block.  *)
LEMMA TryToFreeDataKeepsArena ==
  ASSUME ArenaInv, NEW a \in live, TryToFreeData(a)
  PROVE  ArenaInv'
<1> USE DEF ArenaInv
<1>1. blocks \in Seq(Block) /\ live \subseteq [lo : Nat, hi : Nat]
  BY DEF TypeOK
<1>2. live' = live \ {a} /\ pushed' \in Nat /\ null' = FALSE
  BY DEF TypeOK, TryToFreeData, NeverNull
<1>3. AllocationsApart' /\ NeverNull'
  BY <1>2 DEF AllocationsApart, NeverNull
<1>4. CASE blocks' = blocks
  BY <1>1, <1>2, <1>3, <1>4 DEF TypeOK, BlocksApart, LiveBelowTop
<1>5. CASE blocks' # blocks
  <2>1. /\ Newest.top - (a.hi - a.lo) = a.lo
        /\ blocks' = [blocks EXCEPT ![Len(blocks)].top = a.lo]
    BY <1>5 DEF TryToFreeData
  <2>2. PICK h \in DOMAIN blocks : blocks[h].base <= a.lo /\ a.hi <= blocks[h].top
    BY DEF LiveBelowTop
  <2>3. \A i \in DOMAIN blocks :
          /\ blocks[i] \in Block
          /\ blocks[i].base \in Nat /\ blocks[i].size \in Nat /\ blocks[i].top \in Nat
          /\ blocks[i].base <= blocks[i].top /\ blocks[i].top <= Limit(blocks[i])
    <3>1. \A i \in DOMAIN blocks : blocks[i] \in Block
      BY <1>1
    <3>. QED  BY <3>1 DEF Block, BlocksApart
  <2>4. a.lo \in Nat /\ a.hi \in Nat /\ a.lo < a.hi
    BY <1>1 DEF LiveBelowTop
  <2>5. PICK n \in DOMAIN blocks : n = Len(blocks)
    BY <1>1, <2>2
  <2>6. blocks[n].top = a.hi
    BY <2>1, <2>3, <2>4, <2>5 DEF Newest
  <2>7. h = n
    <3>1. HeaderSize \in Nat \ {0}
      BY SizeAssumption
    <3>2. h # n => Apart(blocks[h].base, blocks[h].size, blocks[n])
      BY DEF BlocksApart
    <3>. QED  BY <2>2, <2>3, <2>4, <2>6, <3>1, <3>2 DEF Apart, Limit
  <2>8. /\ DOMAIN blocks' = DOMAIN blocks
        /\ \A i \in DOMAIN blocks : i # n => blocks'[i] = blocks[i]
        /\ blocks'[n] = [blocks[n] EXCEPT !.top = a.lo]
        /\ blocks' = [blocks EXCEPT ![n] = [blocks[n] EXCEPT !.top = a.lo]]
    <3>1. blocks' = [blocks EXCEPT ![n] = [blocks[n] EXCEPT !.top = a.lo]]
      BY <2>1, <2>5, Zenon
    <3>. QED  BY <1>1, <3>1
  <2>9. /\ [blocks[n] EXCEPT !.top = a.lo] \in Block
        /\ blocks'[n].base = blocks[n].base
        /\ blocks'[n].size = blocks[n].size
        /\ blocks'[n].top = a.lo
    BY <2>3, <2>4, <2>8 DEF Block
  <2>10. TypeOK'
    <3>1. blocks' \in Seq(Block)
      BY <1>1, <2>8, <2>9
    <3>. QED  BY <1>1, <1>2, <3>1 DEF TypeOK
  <2>11. BlocksApart'
    <3>1. \A i \in DOMAIN blocks : blocks'[i].base = blocks[i].base /\ blocks'[i].size = blocks[i].size
      BY <2>8, <2>9
    <3>2. ASSUME NEW i \in DOMAIN blocks
          PROVE  blocks'[i].base <= blocks'[i].top /\ blocks'[i].top <= Limit(blocks'[i])
      <4>1. CASE i = n
        BY <4>1, <2>2, <2>3, <2>4, <2>6, <2>7, <2>9 DEF Limit
      <4>2. CASE i # n
        BY <4>2, <2>3, <2>8
      <4>. QED  BY <4>1, <4>2
    <3>3. \A i, j \in DOMAIN blocks : i # j => Apart(blocks'[i].base, blocks'[i].size, blocks'[j])
      BY <3>1 DEF BlocksApart, Apart, Limit
    <3>. QED  BY <2>8, <3>2, <3>3 DEF BlocksApart
  <2>12. LiveBelowTop'
    <3> SUFFICES ASSUME NEW b \in live, b # a
                 PROVE  b.lo < b.hi /\ \E i \in DOMAIN blocks : blocks'[i].base <= b.lo /\ b.hi <= blocks'[i].top
      BY <1>2, <2>8 DEF LiveBelowTop
    <3>1. b.lo \in Nat /\ b.hi \in Nat /\ b.lo < b.hi
      BY <1>1 DEF LiveBelowTop
    <3>2. PICK i \in DOMAIN blocks : blocks[i].base <= b.lo /\ b.hi <= blocks[i].top
      BY DEF LiveBelowTop
    <3>3. CASE i # n
      BY <3>1, <3>2, <3>3, <2>8
    <3>4. CASE i = n
      <4>1. b.hi <= a.lo \/ a.hi <= b.lo
        BY DEF AllocationsApart
      <4>2. b.hi <= a.lo
        BY <4>1, <3>1, <3>2, <3>4, <2>4, <2>6
      <4>. QED  BY <4>2, <3>1, <3>2, <3>4, <2>9
    <3>. QED  BY <3>3, <3>4
  <2>. QED  BY <1>3, <2>10, <2>11, <2>12
<1>. QED  BY <1>4, <1>5

(* Freeing the arena takes back every block and every allocation.          *)
LEMMA FreeMemoryArenaKeepsArena ==
  ASSUME ArenaInv, FreeMemoryArena
  PROVE  ArenaInv'
<1>1. blocks' = <<>> /\ live' = {} /\ pushed' \in Nat /\ null' = FALSE
  BY DEF ArenaInv, TypeOK, NeverNull, FreeMemoryArena
<1>2. blocks' \in Seq(Block) /\ DOMAIN blocks' = {}
  BY <1>1
<1>. QED  BY <1>1, <1>2 DEF ArenaInv, TypeOK, BlocksApart, LiveBelowTop, AllocationsApart, NeverNull

(* ArenaInv is inductive.                                                      *)
THEOREM ArenaInvariance == Spec => []ArenaInv
<1>1. ArenaInv /\ [Next]_vars => ArenaInv'
  <2> SUFFICES ASSUME ArenaInv, [Next]_vars PROVE ArenaInv'
    OBVIOUS
  <2>1. ASSUME NEW r \in Requests, PushHere(r) PROVE ArenaInv'
    BY <2>1, PushHereKeepsArena
  <2>2. ASSUME NEW r \in Requests, NEW base \in Addresses, PushInNewBlock(r, base) PROVE ArenaInv'
    BY <2>2, PushInNewBlockKeepsArena
  <2>3. ASSUME NEW a \in live, TryToFreeData(a) PROVE ArenaInv'
    BY <2>3, TryToFreeDataKeepsArena
  <2>4. CASE FreeMemoryArena
    BY <2>4, FreeMemoryArenaKeepsArena
  <2>5. CASE UNCHANGED vars
    BY <2>5 DEF vars, ArenaInv, TypeOK, BlocksApart, LiveBelowTop, AllocationsApart, NeverNull
  <2>. QED  BY <2>1, <2>2, <2>3, <2>4, <2>5 DEF Next
<1>. QED  BY InitArena, <1>1, PTL DEF Spec

(* However the passes push and free, no two allocations in use overlap:    *)
(* PushData and TryToFreeData of memory.cpp.                               *)
THEOREM AllocationsStayApart == Spec => []AllocationsApart
<1>1. ArenaInv => AllocationsApart
  BY DEF ArenaInv
<1>. QED  BY ArenaInvariance, <1>1, PTL

(* The blocks in the list of the arena lie apart, and none is used beyond  *)
(* its end: AllocateNewMemoryBlock and PushData of memory.cpp.             *)
THEOREM BlocksStayApart == Spec => []BlocksApart
<1>1. ArenaInv => BlocksApart
  BY DEF ArenaInv
<1>. QED  BY ArenaInvariance, <1>1, PTL

(* What is in use lies below the top of its block.                         *)
THEOREM LiveStaysBelowTop == Spec => []LiveBelowTop
<1>1. ArenaInv => LiveBelowTop
  BY DEF ArenaInv
<1>. QED  BY ArenaInvariance, <1>1, PTL

(* PushData always finds room: the block that AllocateNewMemoryBlock makes *)
(* for a request holds it whatever padding the block's address calls for.  *)
THEOREM PushesSucceed == Spec => []NeverNull
<1>1. ArenaInv => NeverNull
  BY DEF ArenaInv
<1>. QED  BY ArenaInvariance, <1>1, PTL

-----------------------------------------------------------------------------
(* The pool, for any register file that lists each register once: the type *)
(* invariant and the conservation of the registers.                        *)

-----------------------------------------------------------------------------
(* PoolConserved is inductive together with the type of the state.         *)
PoolInv == PoolTypeOK /\ PoolConserved

(* TryRemoveFromFreeRegs finds one entry of a register and erases it.      *)
LEMMA RemoveTakesOne ==
  ASSUME NEW s \in Seq(Reg), Distinct(s), NEW r \in Elements(s)
  PROVE  /\ RemoveFromFreeRegs(s, r) \in Seq(Reg)
         /\ Distinct(RemoveFromFreeRegs(s, r))
         /\ Elements(RemoveFromFreeRegs(s, r)) = Elements(s) \ {r}
<1> DEFINE i == CHOOSE j \in DOMAIN s : s[j] = r
<1>1. i \in DOMAIN s /\ s[i] = r
  BY DEF Elements
<1>2. RemoveFromFreeRegs(s, r) = EraseBySwap(s, i)
  BY DEF RemoveFromFreeRegs
<1>. HIDE DEF i
<1>. QED  BY <1>1, <1>2, EraseBySwapRemoves

(* The arrays a reset builds list every allocatable register of the class. *)
LEMMA FreshIsWhole ==
  ASSUME NEW first \in BOOLEAN
  PROVE  /\ FreshFreeRegs(first) \in [Class -> Seq(Reg)]
         /\ \A c \in Class : /\ Distinct(FreshFreeRegs(first)[c])
                             /\ Elements(FreshFreeRegs(first)[c]) = RegsOf(c)
<1>1. SUFFICES ASSUME NEW c \in Class
               PROVE  /\ FreshFreeRegs(first)[c] \in Seq(Reg)
                      /\ Distinct(FreshFreeRegs(first)[c])
                      /\ Elements(FreshFreeRegs(first)[c]) = RegsOf(c)
  BY DEF FreshFreeRegs
<1>2. /\ CallerSaved[c] \in Seq(Reg)
      /\ CalleeSaved[c] \in Seq(Reg)
      /\ Distinct(CallerSaved[c]) /\ Distinct(CalleeSaved[c])
      /\ Elements(CallerSaved[c]) \cap Elements(CalleeSaved[c]) = {}
  BY RegInfoAssumption DEF RegInfo
<1>3. CASE first
  <2>1. FreshFreeRegs(first)[c] = CallerSaved[c] \o CalleeSaved[c]
    BY <1>3 DEF FreshFreeRegs
  <2>. QED  BY <1>2, <2>1, ConcatJoins DEF RegsOf
<1>4. CASE ~first
  <2>1. FreshFreeRegs(first)[c] = CalleeSaved[c] \o CallerSaved[c]
    BY <1>4 DEF FreshFreeRegs
  <2>. QED  BY <1>2, <2>1, ConcatJoins DEF RegsOf
<1>. QED  BY <1>3, <1>4

(* A fresh pool with an idle client satisfies the invariant.               *)
LEMMA FreshConserved ==
  ASSUME NEW first \in BOOLEAN,
         free_regs = FreshFreeRegs(first), dirty_regs = {}, held = {}
  PROVE  PoolInv
BY FreshIsWhole DEF PoolInv, PoolTypeOK, PoolConserved, FreeOnce, HeldNotFree, NoneLost

(* What the pool conserves, as a fact about its arrays.                    *)
LEMMA ConservedIsShared ==
  ASSUME NEW free, NEW h
  PROVE  Shared(Class, [c \in Class |-> RegsOf(c)], free, h) <=>
           \A c \in Class : /\ Distinct(free[c])
                           /\ Elements(free[c]) \cap h = {}
                           /\ Elements(free[c]) \cup (h \cap RegsOf(c)) = RegsOf(c)
BY DEF Shared

(* Both ways of taking a register: any new array of class c that lacks     *)
(* exactly x conserves the registers when the client holds x.              *)
LEMMA TakeConservesPool ==
  ASSUME PoolInv, NEW c \in Class, NEW x \in Elements(free_regs[c]),
         NEW s \in Seq(Reg), Distinct(s), Elements(s) = Elements(free_regs[c]) \ {x},
         free_regs' = [free_regs EXCEPT ![c] = s],
         held' = held \cup {x}, dirty_regs' = dirty_regs
  PROVE  PoolInv'
<1>1. x \in Reg
  BY DEF PoolInv, PoolConserved, NoneLost, Reg
<1>2. PoolTypeOK'
  BY <1>1 DEF PoolInv, PoolTypeOK
<1> DEFINE regs == [d \in Class |-> RegsOf(d)]
<1>3. Shared(Class, regs, free_regs, held)
  BY ConservedIsShared DEF PoolInv, PoolConserved, FreeOnce, HeldNotFree, NoneLost
<1>4. /\ \A a, b \in Class : a # b => regs[a] \cap regs[b] = {}
      /\ free_regs \in [Class -> Seq(Reg)]
  BY RegInfoAssumption DEF RegInfo, PoolInv, PoolTypeOK
<1>5. Shared(Class, regs, [free_regs EXCEPT ![c] = s], held \cup {x})
  <2>. HIDE DEF regs
  <2>. QED  BY <1>3, <1>4, TakeConserves
<1>6. Shared(Class, regs, free_regs', held')
  BY <1>5
<1>7. \A d \in Class : /\ Distinct(free_regs'[d])
                        /\ Elements(free_regs'[d]) \cap held' = {}
                        /\ Elements(free_regs'[d]) \cup (held' \cap RegsOf(d)) = RegsOf(d)
  BY ONLY <1>6, ConservedIsShared
<1>8. PoolConserved'
  BY <1>7 DEF PoolConserved, FreeOnce, HeldNotFree, NoneLost, RegsOf
<1>. QED  BY <1>2, <1>8 DEF PoolInv

(* Allocating takes the last free register.                                *)
LEMMA AllocateConserves ==
  ASSUME PoolInv, NEW c \in Class, AllocateFreeRegister(c)
  PROVE  PoolInv'
<1> DEFINE s == free_regs[c]
<1>1. s \in Seq(Reg) /\ Distinct(s) /\ s # <<>>
  BY DEF PoolInv, PoolTypeOK, PoolConserved, FreeOnce, AllocateFreeRegister, HasFreeRegisters
<1>2. /\ Back(s) \in Elements(s)
      /\ Pop(s) \in Seq(Reg)
      /\ Distinct(Pop(s))
      /\ Elements(Pop(s)) = Elements(s) \ {Back(s)}
  BY <1>1, PopRemovesBack
<1>3. /\ free_regs' = [free_regs EXCEPT ![c] = Pop(s)]
      /\ held' = held \cup {Back(s)}
      /\ dirty_regs' = dirty_regs
  BY DEF AllocateFreeRegister
<1>. QED  BY <1>2, <1>3, TakeConservesPool

(* Allocating by name takes that register.                                 *)
LEMMA TryAllocateConserves ==
  ASSUME PoolInv, NEW c \in Class, NEW r \in RegsOf(c), TryAllocateRegister(c, r)
  PROVE  PoolInv'
<1> DEFINE s == free_regs[c]
           t == RemoveFromFreeRegs(s, r)
<1>1. s \in Seq(Reg) /\ Distinct(s) /\ r \in Elements(s)
  BY DEF PoolInv, PoolTypeOK, PoolConserved, FreeOnce, TryAllocateRegister
<1>2. t \in Seq(Reg) /\ Distinct(t) /\ Elements(t) = Elements(s) \ {r}
  BY <1>1, RemoveTakesOne
<1>3. /\ free_regs' = [free_regs EXCEPT ![c] = t]
      /\ held' = held \cup {r}
      /\ dirty_regs' = dirty_regs
  BY DEF TryAllocateRegister
<1>. QED  BY <1>1, <1>2, <1>3, TakeConservesPool

(* Releasing needs HeldNotFree: a register pushed while it is already free *)
(* would be handed out twice.                                              *)
LEMMA ReleaseConserves ==
  ASSUME PoolInv, NEW c \in Class, NEW r \in RegsOf(c), ReleaseRegister(c, r)
  PROVE  PoolInv'
<1> DEFINE regs == [d \in Class |-> RegsOf(d)]
<1>1. /\ r \in held /\ r \in Reg
      /\ free_regs' = [free_regs EXCEPT ![c] = Append(free_regs[c], r)]
      /\ held' = held \ {r}
      /\ dirty_regs' = dirty_regs
  BY DEF PoolInv, PoolTypeOK, ReleaseRegister
<1>2. PoolTypeOK'
  BY <1>1 DEF PoolInv, PoolTypeOK
<1>3. Shared(Class, regs, free_regs, held)
  BY ConservedIsShared DEF PoolInv, PoolConserved, FreeOnce, HeldNotFree, NoneLost
<1>4. /\ \A a, b \in Class : a # b => regs[a] \cap regs[b] = {}
      /\ free_regs \in [Class -> Seq(Reg)]
      /\ r \in regs[c]
  BY RegInfoAssumption DEF RegInfo, PoolInv, PoolTypeOK
<1>5. Shared(Class, regs, [free_regs EXCEPT ![c] = Append(free_regs[c], r)], held \ {r})
  <2>. HIDE DEF regs
  <2>. QED  BY <1>1, <1>3, <1>4, ReturnConserves
<1>6. Shared(Class, regs, free_regs', held')
  BY <1>1, <1>5
<1>7. \A d \in Class : /\ Distinct(free_regs'[d])
                        /\ Elements(free_regs'[d]) \cap held' = {}
                        /\ Elements(free_regs'[d]) \cup (held' \cap RegsOf(d)) = RegsOf(d)
  BY ONLY <1>6, ConservedIsShared
<1>8. PoolConserved'
  BY <1>7 DEF PoolConserved, FreeOnce, HeldNotFree, NoneLost, RegsOf
<1>. QED  BY <1>2, <1>8 DEF PoolInv

(* Every call keeps PoolInv.                                                  *)
LEMMA PoolStepConserves ==
  ASSUME PoolInv, [PoolNext]_pool_vars
  PROVE  PoolInv'
<1>1. ASSUME NEW first \in BOOLEAN, ResetRegAlloc(first)  PROVE PoolInv'
  BY <1>1, FreshIsWhole
     DEF ResetRegAlloc, PoolInv, PoolTypeOK, PoolConserved, FreeOnce, HeldNotFree, NoneLost, RegsOf
<1>2. ASSUME NEW c \in Class, AllocateFreeRegister(c)  PROVE PoolInv'
  BY <1>2, AllocateConserves
<1>3. ASSUME NEW c \in Class, NEW r \in RegsOf(c), TryAllocateRegister(c, r)  PROVE PoolInv'
  BY <1>3, TryAllocateConserves
<1>4. ASSUME NEW c \in Class, NEW r \in RegsOf(c), ReleaseRegister(c, r)  PROVE PoolInv'
  BY <1>4, ReleaseConserves
<1>5. ASSUME NEW r \in Reg, DirtyRegister(r)  PROVE PoolInv'
  BY <1>5 DEF DirtyRegister, PoolInv, PoolTypeOK, PoolConserved, FreeOnce, HeldNotFree, NoneLost, RegsOf
<1>6. CASE UNCHANGED pool_vars
  BY <1>6 DEF pool_vars, PoolInv, PoolTypeOK, PoolConserved, FreeOnce, HeldNotFree, NoneLost, RegsOf
<1>. QED  BY <1>1, <1>2, <1>3, <1>4, <1>5, <1>6 DEF PoolNext

(* PoolInv is an inductive invariant of the pool.                             *)
LEMMA PoolInvariance == PoolSpec => []PoolInv
<1>1. PoolInit => PoolInv
  BY FreshConserved DEF PoolInit
<1>2. PoolInv /\ [PoolNext]_pool_vars => PoolInv'
  BY PoolStepConserves
<1>. QED  BY <1>1, <1>2, PTL DEF PoolSpec

(* The free arrays hold registers of the machine whatever the client does. *)
THEOREM PoolTypeCorrect == PoolSpec => []PoolTypeOK
BY PoolInvariance, PTL DEF PoolInv

(* For every register file and every sequence of calls of the allocator,   *)
(* each allocatable register is either held by the client or free exactly  *)
(* once in the array of its class.                                         *)
THEOREM RegistersConserved == PoolSpec => []PoolConserved
BY PoolInvariance, PTL DEF PoolInv

-----------------------------------------------------------------------------
(* The hash table, for any names, values, hashes and sizes: it implements  *)
(* the map of names.                                                       *)

(* A table of a size.                                                      *)
Table(size) == [0 .. size - 1 -> Entry \cup {None}]

(* The entries that lie in it.                                             *)
Entries(t) == {t[i] : i \in DOMAIN t} \ {None}

(* Every entry lies on the probe of its name, behind slots that are taken. *)
Reached(t) ==
  \A i \in DOMAIN t : t[i] # None =>
    \E k \in 0 .. Size(t) - 1 :
      Slot(t, t[i].name, k) = i /\ \A j \in 0 .. k - 1 : t[Slot(t, t[i].name, j)] # None

-----------------------------------------------------------------------------
(* The arithmetic of the probe.                                            *)

(* The remainder of a multiple and a smaller number.                       *)
LEMMA Remainder ==
  ASSUME NEW s \in Nat \ {0}, NEW q \in Nat, NEW r \in 0 .. s - 1
  PROVE  (s * q + r) % s = r
OBVIOUS

(* A probe stays in the table.                                             *)
LEMMA SlotInTable ==
  ASSUME NEW s \in Nat \ {0}, NEW t \in Table(s), NEW n \in Names, NEW k \in Nat
  PROVE  Size(t) = s /\ DOMAIN t = 0 .. s - 1 /\ Slot(t, n, k) \in 0 .. s - 1
<1>1. DOMAIN t = 0 .. s - 1
  BY DEF Table
<1>2. Cardinality(0 .. s - 1) = s
  BY FS_Interval
<1>3. Hash[n] + k \in Nat
  BY TableAssumption
<1>4. (Hash[n] + k) % s \in 0 .. s - 1
  BY <1>3
<1>. QED  BY <1>1, <1>2, <1>4 DEF Size, Slot

(* The probe of a name comes by every slot.                                *)
LEMMA ProbeIsWhole ==
  ASSUME NEW s \in Nat \ {0}, NEW t \in Table(s), NEW n \in Names, NEW i \in 0 .. s - 1
  PROVE  \E k \in 0 .. s - 1 : Slot(t, n, k) = i
<1> DEFINE h == Hash[n]
           q == h \div s
           r == h % s
           k == IF i >= r THEN i - r ELSE i - r + s
<1>1. h \in Nat
  BY TableAssumption
<1>. HIDE DEF h
<1>2. q \in Nat /\ r \in 0 .. s - 1 /\ h = s * q + r
  BY <1>1
<1>. HIDE DEF q, r
<1>3. k \in 0 .. s - 1
  BY <1>2
<1>4. h + k = s * q + i \/ h + k = s * (q + 1) + i
  BY <1>2
<1>5. (s * q + i) % s = i /\ (s * (q + 1) + i) % s = i
  BY <1>2, Remainder
<1>6. (h + k) % s = i
  BY <1>4, <1>5
<1>7. Slot(t, n, k) = i
  BY <1>6, SlotInTable DEF Slot, h
<1>. QED  BY <1>3, <1>7

-----------------------------------------------------------------------------
(* Put finds the first free slot on the probe of the name.                 *)
LEMMA FirstFree ==
  ASSUME NEW s \in Nat \ {0}, NEW t \in Table(s), NEW n \in Names,
         NEW i \in 0 .. s - 1, t[i] = None
  PROVE  /\ FreeOffset(t, n) \in 0 .. s - 1
         /\ t[Slot(t, n, FreeOffset(t, n))] = None
         /\ \A j \in 0 .. FreeOffset(t, n) - 1 : t[Slot(t, n, j)] # None
<1> DEFINE hits == {k \in 0 .. Size(t) - 1 : t[Slot(t, n, k)] = None}
<1>1. Size(t) = s
  BY SlotInTable
<1>2. hits # {} /\ hits \subseteq Nat
  BY <1>1, ProbeIsWhole
<1>3. FreeOffset(t, n) = CHOOSE k \in hits : \A j \in hits : k <= j
  BY <1>2 DEF FreeOffset, FirstOffset
<1>4. \E k \in hits : \A j \in hits : k <= j
  <2>. HIDE DEF hits
  <2>. QED  BY <1>2, LeastNatural
<1>5. FreeOffset(t, n) \in hits /\ \A j \in hits : FreeOffset(t, n) <= j
  <2>. HIDE DEF hits
  <2>. QED  BY <1>3, <1>4
<1>6. ASSUME NEW j \in 0 .. FreeOffset(t, n) - 1  PROVE t[Slot(t, n, j)] # None
  <2>1. j \in 0 .. s - 1 /\ ~(FreeOffset(t, n) <= j)
    BY <1>1, <1>5
  <2>. QED  BY <1>1, <1>5, <2>1
<1>. QED  BY <1>1, <1>5, <1>6

(* It puts the entry there: nothing that was reached is hidden by it.      *)
LEMMA InsertedKeeps ==
  ASSUME NEW s \in Nat \ {0}, NEW t \in Table(s), Reached(t), NEW e \in Entry, ~ IsFull(t)
  PROVE  /\ Inserted(t, e) \in Table(s)
         /\ Reached(Inserted(t, e))
         /\ Entries(Inserted(t, e)) = Entries(t) \cup {e}
         /\ \E x \in 0 .. s - 1 : t[x] = None /\ Inserted(t, e) = [t EXCEPT ![x] = e]
<1> DEFINE k == FreeOffset(t, e.name)
           x == Slot(t, e.name, k)
           t2 == [t EXCEPT ![x] = e]
<1>1. e.name \in Names /\ e # None
  BY NoneAssumption DEF Entry
<1>2. /\ k \in 0 .. s - 1 /\ t[x] = None
      /\ \A j \in 0 .. k - 1 : t[Slot(t, e.name, j)] # None
  <2>1. PICK i \in 0 .. s - 1 : t[i] = None
    BY DEF Table, IsFull
  <2>. QED  BY <1>1, <2>1, FirstFree
<1>3. Inserted(t, e) = t2
  BY DEF Inserted
<1>. HIDE DEF k
<1>4. x \in 0 .. s - 1 /\ DOMAIN t = 0 .. s - 1 /\ Size(t) = s
  BY <1>1, <1>2, SlotInTable
<1>5. t2 \in Table(s) /\ DOMAIN t2 = 0 .. s - 1 /\ Size(t2) = s
  BY <1>4, SlotInTable DEF Table, Size
<1>6. \A n, j : Slot(t2, n, j) = Slot(t, n, j)
  BY <1>4, <1>5 DEF Slot
<1>. HIDE DEF x
<1>7. t2[x] = e /\ \A j \in 0 .. s - 1 : j # x => t2[j] = t[j]
  BY <1>4 DEF Table
<1>. HIDE DEF t2
<1>8. \A j \in 0 .. s - 1 : t[j] # None => t2[j] = t[j]
  BY <1>2, <1>7
<1>9. Entries(t2) = Entries(t) \cup {e}
  <2>1. Entries(t2) \subseteq Entries(t) \cup {e}
    BY <1>4, <1>5, <1>7 DEF Entries
  <2>2. e \in Entries(t2)
    BY <1>1, <1>4, <1>5, <1>7 DEF Entries
  <2>3. Entries(t) \subseteq Entries(t2)
    BY <1>4, <1>5, <1>8 DEF Entries
  <2>. QED  BY <2>1, <2>2, <2>3
<1>10. Reached(t2)
  <2> SUFFICES ASSUME NEW y \in 0 .. s - 1, t2[y] # None
               PROVE  \E l \in 0 .. s - 1 :
                        /\ Slot(t2, t2[y].name, l) = y
                        /\ \A j \in 0 .. l - 1 : t2[Slot(t2, t2[y].name, j)] # None
    BY <1>5 DEF Reached
  <2>1. CASE y = x
    <3>1. \A j \in 0 .. k - 1 : Slot(t, e.name, j) \in 0 .. s - 1
      BY <1>1, <1>2, SlotInTable
    <3>2. \A j \in 0 .. k - 1 : t2[Slot(t, e.name, j)] # None
      BY <1>2, <1>8, <3>1
    <3>3. Slot(t, e.name, k) = x
      BY DEF x
    <3>. QED  BY <1>2, <1>6, <1>7, <2>1, <3>2, <3>3
  <2>2. CASE y # x
    <3>1. t2[y] = t[y] /\ t[y] # None
      BY <1>7, <2>2
    <3>2. PICK l \in 0 .. s - 1 :
            /\ Slot(t, t[y].name, l) = y
            /\ \A j \in 0 .. l - 1 : t[Slot(t, t[y].name, j)] # None
      BY <1>4, <3>1 DEF Reached
    <3>3. t[y].name \in Names
      BY <3>1 DEF Table, Entry
    <3>4. \A j \in 0 .. l - 1 : Slot(t, t[y].name, j) \in 0 .. s - 1
      BY <3>2, <3>3, SlotInTable
    <3>5. \A j \in 0 .. l - 1 : t2[Slot(t, t[y].name, j)] # None
      BY <1>8, <3>2, <3>4
    <3>. QED  BY <1>6, <3>1, <3>2, <3>5
  <2>. QED  BY <2>1, <2>2
<1>11. t2 = [t EXCEPT ![x] = e]
  BY DEF t2
<1>. QED  BY <1>2, <1>3, <1>4, <1>5, <1>9, <1>10, <1>11

(* Lookup finds a name exactly if an entry of the table has it.            *)
LEMMA FoundIsEntry ==
  ASSUME NEW s \in Nat \ {0}, NEW t \in Table(s), Reached(t), NEW n \in Names
  PROVE  \/ \E e \in Entries(t) : e.name = n /\ Found(t, n) = e.value
         \/ Found(t, n) = None /\ \A e \in Entries(t) : e.name # n
<1> DEFINE Ends(k) == t[Slot(t, n, k)] = None \/ t[Slot(t, n, k)].name = n
           hits == {k \in 0 .. s - 1 : Ends(k)}
           first == IF hits = {} THEN s ELSE CHOOSE k \in hits : \A j \in hits : k <= j
           last == t[Slot(t, n, first)]
<1>1. Size(t) = s /\ DOMAIN t = 0 .. s - 1
  BY SlotInTable
<1>2. Found(t, n) = IF first = s \/ last = None THEN None ELSE last.value
  BY <1>1 DEF Found, FirstOffset
<1>3. hits # {} => first \in hits /\ \A j \in hits : first <= j
  <2>1. hits \subseteq Nat
    OBVIOUS
  <2>. HIDE DEF hits
  <2>. QED  BY <2>1, LeastNatural
<1>4. ASSUME NEW e \in Entries(t), e.name = n
      PROVE  hits # {} /\ last # None
  <2>1. PICK i \in 0 .. s - 1 : t[i] = e /\ e # None
    BY <1>1 DEF Entries
  <2>2. PICK k \in 0 .. s - 1 :
          Slot(t, n, k) = i /\ \A j \in 0 .. k - 1 : t[Slot(t, n, j)] # None
    BY <1>1, <1>4, <2>1 DEF Reached
  <2>3. k \in hits
    BY <1>4, <2>1, <2>2
  <2>4. first <= k /\ first \in 0 .. s - 1
    BY <1>3, <2>3
  <2>. HIDE DEF first
  <2>5. CASE first = k
    BY <2>1, <2>2, <2>3, <2>5
  <2>6. CASE first # k
    <3>1. first \in 0 .. k - 1
      BY <2>4, <2>6
    <3>. QED  BY <2>2, <2>3, <3>1
  <2>. QED  BY <2>3, <2>5, <2>6
<1>5. ASSUME hits # {}, last # None
      PROVE  last \in Entries(t) /\ last.name = n /\ first # s
  <2>1. first \in 0 .. s - 1 /\ Ends(first)
    BY <1>3, <1>5
  <2>. HIDE DEF first
  <2>2. Slot(t, n, first) \in 0 .. s - 1
    BY <2>1, SlotInTable
  <2>. QED  BY <1>1, <1>5, <2>1, <2>2 DEF Entries
<1>6. CASE hits # {} /\ last # None
  BY <1>2, <1>5, <1>6
<1>7. CASE ~(hits # {} /\ last # None)
  <2>1. \A e \in Entries(t) : e.name # n
    BY <1>4, <1>7
  <2>2. hits = {} => first = s
    OBVIOUS
  <2>. QED  BY <1>2, <1>7, <2>1, <2>2
<1>. QED  BY <1>6, <1>7

-----------------------------------------------------------------------------
(* Grow copies a full table into a larger one.                             *)

(* The slots that are taken: the first i entries of the old table take i.  *)
Filled(t) == {x \in DOMAIN t : t[x] # None}

(* An empty table holds nothing and loses nothing.                         *)
LEMMA EmptyTable ==
  ASSUME NEW s \in Nat \ {0}
  PROVE  /\ Empty(s) \in Table(s) /\ Reached(Empty(s))
         /\ Entries(Empty(s)) = {} /\ Filled(Empty(s)) = {}
         /\ Empty(s)[0] = None
BY DEF Empty, Table, Reached, Entries, Filled

(* A table that is larger than the number of slots taken has a free one.   *)
LEMMA FreeSlotExists ==
  ASSUME NEW s \in Nat \ {0}, NEW t \in Table(s), Cardinality(Filled(t)) < s
  PROVE  ~ IsFull(t)
<1>1. DOMAIN t = 0 .. s - 1 /\ Cardinality(0 .. s - 1) = s
  BY FS_Interval DEF Table
<1>2. IsFull(t) => Filled(t) = 0 .. s - 1
  BY <1>1 DEF Filled, IsFull
<1>. QED  BY <1>1, <1>2

(* The copy of the first i slots: the entries copied can be found in it.   *)
CopyOf(t, size, c, i) ==
  /\ c \in Table(size)
  /\ Reached(c)
  /\ Entries(c) = {t[j] : j \in 0 .. i - 1}
  /\ IsFiniteSet(Filled(c)) /\ Cardinality(Filled(c)) = i

CopyStep(t, g, i) ==
  IF i = 0 THEN Empty(Size(t) + GrowSize) ELSE Inserted(g[i - 1], t[i - 1])

(* That the copying function is one with its equation is an induction over *)
(* the number of slots copied.                                             *)
LEMMA CopyExists ==
  ASSUME NEW t, NEW m \in Nat
  PROVE  \E g : g = [i \in 0 .. m |-> CopyStep(t, g, i)]
<1> DEFINE Solves(g, k) == g = [i \in 0 .. k |-> CopyStep(t, g, i)]
           Unsolved == {k \in Nat : ~ \E g : Solves(g, k)}
<1>1. \E g : Solves(g, 0)
  <2>1. Solves([i \in 0 .. 0 |-> Empty(Size(t) + GrowSize)], 0)
    BY DEF CopyStep
  <2>. QED  BY <2>1
<1>2. ASSUME NEW k \in Nat, NEW g, Solves(g, k)
      PROVE  \E h : Solves(h, k + 1)
  <2>. DEFINE h == [i \in 0 .. k + 1 |-> IF i = k + 1 THEN CopyStep(t, g, i) ELSE g[i]]
  <2>1. \A i \in 0 .. k : g[i] = CopyStep(t, g, i)
    BY <1>2
  <2>2. \A i \in 1 .. k + 1 : h[i - 1] = g[i - 1]
    OBVIOUS
  <2>3. ASSUME NEW i \in 0 .. k + 1  PROVE CopyStep(t, h, i) = CopyStep(t, g, i)
    <3>. HIDE DEF h
    <3>1. i # 0 => h[i - 1] = g[i - 1]
      BY <2>2
    <3>. QED  BY <3>1 DEF CopyStep
  <2>4. \A i \in 0 .. k + 1 : h[i] = CopyStep(t, h, i)
    BY <2>1, <2>3
  <2>5. h = [i \in 0 .. k + 1 |-> h[i]]
    OBVIOUS
  <2>6. Solves(h, k + 1)
    <3>. HIDE DEF h
    <3>. QED  BY <2>4, <2>5
  <2>. QED  BY <2>6
<1>3. Unsolved = {}
  <2>. SUFFICES ASSUME Unsolved # {}  PROVE FALSE
    OBVIOUS
  <2>1. PICK k \in Unsolved : \A j \in Unsolved : k <= j
    <3>1. Unsolved \subseteq Nat
      OBVIOUS
    <3>. HIDE DEF Unsolved
    <3>. QED  BY <3>1, LeastNatural
  <2>2. k \in Nat /\ k # 0 /\ ~ \E g : Solves(g, k)
    BY <1>1
  <2>3. k - 1 \in Nat /\ k - 1 \notin Unsolved /\ (k - 1) + 1 = k
    <3>. HIDE DEF Unsolved
    <3>. QED  BY <2>1, <2>2
  <2>4. PICK g : Solves(g, k - 1)
    <3>. HIDE DEF Solves
    <3>. QED  BY <2>3
  <2>5. \E h : Solves(h, (k - 1) + 1)
    <3>. HIDE DEF Solves, Unsolved
    <3>. QED  BY <1>2, <2>3, <2>4
  <2>. QED  BY <2>2, <2>3, <2>5
<1>4. m \notin Unsolved
  BY <1>3
<1>. QED  BY <1>4

(* One entry is copied.                                                    *)
LEMMA CopyGoesOn ==
  ASSUME NEW s \in Nat \ {0}, NEW t \in Table(s), IsFull(t), NEW i \in 0 .. s - 1, NEW c,
         CopyOf(t, s + GrowSize, c, i)
  PROVE  CopyOf(t, s + GrowSize, Inserted(c, t[i]), i + 1)
<1> DEFINE size == s + GrowSize
           d == Inserted(c, t[i])
<1>1. size \in Nat \ {0} /\ i < size
  BY TableAssumption
<1>. HIDE DEF size
<1>2. c \in Table(size) /\ Reached(c) /\ Cardinality(Filled(c)) = i
  BY DEF CopyOf, size
<1>3. t[i] \in Entry /\ t[i] # None
  BY DEF Table, IsFull
<1>4. ~ IsFull(c)
  BY <1>1, <1>2, FreeSlotExists
<1>5. /\ d \in Table(size) /\ Reached(d)
      /\ Entries(d) = Entries(c) \cup {t[i]}
      /\ \E y \in 0 .. size - 1 : c[y] = None /\ d = [c EXCEPT ![y] = t[i]]
  BY <1>1, <1>2, <1>3, <1>4, InsertedKeeps
<1>. HIDE DEF d
<1>6. Entries(d) = {t[j] : j \in 0 .. (i + 1) - 1}
  <2>1. Entries(c) = {t[j] : j \in 0 .. i - 1}
    BY DEF CopyOf
  <2>2. \A j : j \in 0 .. (i + 1) - 1 <=> j \in 0 .. i - 1 \/ j = i
    OBVIOUS
  <2>. QED  BY <1>5, <2>1, <2>2
<1>7. PICK y \in 0 .. size - 1 : c[y] = None /\ d = [c EXCEPT ![y] = t[i]]
  BY <1>5
<1>8. Filled(d) = Filled(c) \cup {y} /\ y \notin Filled(c)
  BY <1>2, <1>3, <1>7 DEF Filled, Table
<1>9. IsFiniteSet(Filled(d)) /\ Cardinality(Filled(d)) = i + 1
  BY <1>2, <1>8, FS_AddElement DEF CopyOf
<1>. QED  BY <1>5, <1>6, <1>9 DEF CopyOf, size, d

(* Nothing is lost when a table grows, and it has a free slot then.        *)
LEMMA GrownKeeps ==
  ASSUME NEW s \in Nat \ {0}, NEW t \in Table(s), IsFull(t)
  PROVE  /\ s + GrowSize \in Nat \ {0}
         /\ Grown(t) \in Table(s + GrowSize)
         /\ Reached(Grown(t))
         /\ Entries(Grown(t)) = Entries(t)
         /\ ~ IsFull(Grown(t))
<1> DEFINE Unfolds(g) == g = [i \in 0 .. Size(t) |->
                             IF i = 0 THEN Empty(Size(t) + GrowSize)
                             ELSE Inserted(g[i - 1], t[i - 1])]
           Copied == CHOOSE g : Unfolds(g)
           Wrong == {i \in 0 .. s : ~ CopyOf(t, s + GrowSize, Copied[i], i)}
<1>1. Size(t) = s /\ DOMAIN t = 0 .. s - 1 /\ s + GrowSize \in Nat \ {0}
  <2>1. DOMAIN t = 0 .. s - 1 /\ Cardinality(0 .. s - 1) = s
    BY FS_Interval DEF Table
  <2>. QED  BY <2>1, TableAssumption DEF Size
<1>2. Grown(t) = Copied[s]
  BY <1>1 DEF Grown
<1>3. \E g : Unfolds(g)
  <2>1. PICK g : g = [i \in 0 .. Size(t) |-> CopyStep(t, g, i)]
    BY <1>1, CopyExists
  <2>2. Unfolds(g)
    BY <2>1 DEF CopyStep
  <2>. QED  BY <2>2
<1>4. Unfolds(Copied)
  <2>. HIDE DEF Unfolds
  <2>. QED  BY <1>3
<1>. HIDE DEF Copied
<1>5. \A i \in 0 .. s : Copied[i] = IF i = 0 THEN Empty(s + GrowSize)
                                    ELSE Inserted(Copied[i - 1], t[i - 1])
  BY <1>1, <1>4
<1>. HIDE DEF Unfolds
<1>6. CopyOf(t, s + GrowSize, Copied[0], 0)
  <2>1. Copied[0] = Empty(s + GrowSize)
    BY <1>5
  <2>2. {t[j] : j \in 0 .. 0 - 1} = {}
    OBVIOUS
  <2>3. IsFiniteSet({}) /\ Cardinality({}) = 0
    BY FS_EmptySet
  <2>. QED  BY <1>1, <2>1, <2>2, <2>3, EmptyTable DEF CopyOf
<1>7. Wrong = {}
  <2>. SUFFICES ASSUME Wrong # {}  PROVE FALSE
    OBVIOUS
  <2>1. PICK i \in Wrong : \A j \in Wrong : i <= j
    <3>1. Wrong \subseteq Nat
      OBVIOUS
    <3>. HIDE DEF Wrong
    <3>. QED  BY <3>1, LeastNatural
  <2>2. i \in 0 .. s /\ i # 0
    BY <1>6
  <2>3. i - 1 \in 0 .. s - 1 /\ ~(i <= i - 1) /\ (i - 1) + 1 = i
    BY <2>2
  <2>4. CopyOf(t, s + GrowSize, Copied[i - 1], i - 1)
    BY <2>1, <2>3
  <2>5. CopyOf(t, s + GrowSize, Inserted(Copied[i - 1], t[i - 1]), (i - 1) + 1)
    BY <2>3, <2>4, CopyGoesOn
  <2>6. Copied[i] = Inserted(Copied[i - 1], t[i - 1])
    BY <1>5, <2>2
  <2>. QED  BY <2>1, <2>3, <2>5, <2>6
<1>8. CopyOf(t, s + GrowSize, Grown(t), s)
  BY <1>2, <1>7
<1>9. Entries(t) = {t[j] : j \in 0 .. s - 1}
  BY <1>1 DEF Entries, IsFull
<1>10. ~ IsFull(Grown(t))
  <2>1. Cardinality(Filled(Grown(t))) < s + GrowSize
    BY <1>8, TableAssumption DEF CopyOf
  <2>2. Grown(t) \in Table(s + GrowSize)
    BY <1>8 DEF CopyOf
  <2>. QED  BY <1>1, <2>1, <2>2, FreeSlotExists
<1>. QED  BY <1>1, <1>8, <1>9, <1>10 DEF CopyOf

-----------------------------------------------------------------------------
(* The table and what was put: its entries are the values put, each found  *)
(* by the probe of its name.                                               *)
TableTyped ==
  /\ \E s \in Nat \ {0} : slots \in Table(s)
  /\ put \in [Names -> SUBSET Values]

Holds(t, p) == \A e : e \in Entries(t) <=> e \in Entry /\ e.value \in p[e.name]

Kept == Holds(slots, put)

TableInv == TableTyped /\ Reached(slots) /\ Kept

(* The table a scope is opened with holds what was put: nothing.           *)
LEMMA InitTable == TableInit => TableInv
<1> SUFFICES ASSUME TableInit  PROVE TableInv
  OBVIOUS
<1>1. FirstSize \in Nat \ {0}
  BY TableAssumption
<1>2. slots = Empty(FirstSize) /\ put = [n \in Names |-> {}]
  BY DEF TableInit
<1>3. slots \in Table(FirstSize) /\ Reached(slots) /\ Entries(slots) = {}
  BY <1>1, <1>2, EmptyTable
<1>4. Kept
  BY <1>2, <1>3 DEF Kept, Holds, Entry
<1>. QED  BY <1>1, <1>2, <1>3, <1>4 DEF TableInv, TableTyped

(* Putting an entry, into a table that is grown first when it is full,     *)
(* keeps every other entry where lookup finds it.                          *)
LEMMA PutKeepsTable ==
  ASSUME TableInv, NEW n \in Names, NEW v \in Values, Put(n, v)
  PROVE  TableInv'
<1> DEFINE e == [name |-> n, value |-> v]
           old == IF IsFull(slots) THEN Grown(slots) ELSE slots
<1>1. PICK s \in Nat \ {0} : slots \in Table(s)
  BY DEF TableInv, TableTyped
<1>2. e \in Entry
  BY DEF Entry
<1>3. slots' = Inserted(old, e) /\ put' = [put EXCEPT ![n] = @ \cup {v}]
  BY DEF Put
<1>4. \E size \in Nat \ {0} : old \in Table(size)
  BY <1>1, GrownKeeps
<1>5. Reached(old) /\ Entries(old) = Entries(slots) /\ ~ IsFull(old)
  BY <1>1, GrownKeeps DEF TableInv
<1>. HIDE DEF old, e
<1>6. PICK size \in Nat \ {0} : /\ slots' \in Table(size) /\ Reached(slots')
                                /\ Entries(slots') = Entries(slots) \cup {e}
  BY <1>2, <1>3, <1>4, <1>5, InsertedKeeps
<1>. USE DEF e
<1>7. put \in [Names -> SUBSET Values] /\ put' \in [Names -> SUBSET Values]
  BY <1>3 DEF TableInv, TableTyped
<1>8. Kept'
  <2> SUFFICES ASSUME NEW d
               PROVE  d \in Entries(slots)' <=> d \in Entry /\ d.value \in put'[d.name]
    BY DEF Kept, Holds
  <2>1. d \in Entries(slots) <=> d \in Entry /\ d.value \in put[d.name]
    BY DEF TableInv, Kept, Holds
  <2>2. Entries(slots)' = Entries(slots) \cup {e}
    BY <1>6 DEF Entries
  <2>3. d \in Entry => d.name \in Names /\ (d.name = n /\ d.value = v <=> d = e)
    BY DEF Entry
  <2>4. d \in Entry => (d.value \in put'[d.name] <=> d.value \in put[d.name] \/ d = e)
    BY <1>3, <1>7, <2>3
  <2>. QED  BY <1>2, <2>1, <2>2, <2>4
<1>9. Reached(slots)'
  BY <1>6 DEF Reached, Slot, Size
<1>. QED  BY <1>6, <1>7, <1>8, <1>9 DEF TableInv, TableTyped, Table

(* Every step keeps the entries reachable.                                 *)
LEMMA NextKeepsTable ==
  ASSUME TableInv, [TableNext]_table_vars
  PROVE  TableInv'
<1>1. CASE UNCHANGED table_vars
  BY <1>1 DEF table_vars, TableInv, TableTyped, Kept, Holds, Reached, Entries, Slot, Size, Table
<1>2. ASSUME NEW n \in Names, NEW v \in Values, Put(n, v)  PROVE TableInv'
  BY <1>2, PutKeepsTable
<1>. QED  BY <1>1, <1>2 DEF TableNext

(* What Lookup finds in a table that holds the values put.                 *)
LEMMA FoundIsPut ==
  ASSUME NEW s \in Nat \ {0}, NEW t \in Table(s), Reached(t),
         NEW p \in [Names -> SUBSET Values], Holds(t, p), NEW n \in Names
  PROVE  IF p[n] = {} THEN Found(t, n) = None ELSE Found(t, n) \in p[n]
<1>1. CASE \E e \in Entries(t) : e.name = n /\ Found(t, n) = e.value
  BY <1>1 DEF Holds
<1>2. CASE Found(t, n) = None /\ \A e \in Entries(t) : e.name # n
  <2>1. ASSUME NEW v \in p[n]  PROVE FALSE
    <3>1. [name |-> n, value |-> v] \in Entry
      BY DEF Entry
    <3>2. [name |-> n, value |-> v] \in Entries(t)
      BY <3>1 DEF Holds
    <3>. QED  BY <1>2, <3>2
  <2>. QED  BY <1>2, <2>1
<1>. QED  BY <1>1, <1>2, FoundIsEntry

-----------------------------------------------------------------------------
(* The results.                                                            *)

(* The entries of the table are the values put, however often it has grown *)
(* and whatever collided.                                                  *)
THEOREM TableInvariance == TableSpec => []TableInv
<1>1. TableInv /\ [TableNext]_table_vars => TableInv'
  BY NextKeepsTable
<1>. QED  BY <1>1, InitTable, PTL DEF TableSpec

(* Every call of Put is a step of the map, as Lookup sees it.              *)
LEMMA PutIsMapPut ==
  ASSUME TableInv, TableInv', NEW n \in Names, NEW v \in Values, Put(n, v)
  PROVE  Map!Put(n, v)
<1> DEFINE map == [m \in Names |-> Found(slots, m)]
<1>1. put' = [put EXCEPT ![n] = @ \cup {v}]
  BY DEF Put
<1>2. \A m \in Names : IF put'[m] = {} THEN Found(slots', m) = None
                       ELSE Found(slots', m) \in put'[m]
  <2>1. PICK s \in Nat \ {0} : slots' \in Table(s)
    BY DEF TableInv, TableTyped, Table
  <2>2. put' \in [Names -> SUBSET Values] /\ Reached(slots') /\ Holds(slots', put')
    BY DEF TableInv, TableTyped, Kept, Reached, Holds, Entries, Slot, Size
  <2>. QED  BY <2>1, <2>2, FoundIsPut
<1>3. \A m \in Names : put'[m] \subseteq Values
  BY DEF TableInv, TableTyped
<1>4. map' = [m \in Names |-> Found(slots', m)]
  OBVIOUS
<1>5. map' \in [Names -> Values \cup {None}]
  BY <1>2, <1>3, <1>4
<1>. QED  BY <1>1, <1>2, <1>4, <1>5 DEF Map!Put

(* The table implements the map: probing, wrapping and growing are not     *)
(* seen, no name is lost or hidden by others, none is found that was not   *)
(* put, for any hash function and any sizes.                               *)
THEOREM TableIsMap == TableSpec => IsMap
<1>1. TableInit => Map!Init
  <2> SUFFICES ASSUME TableInit  PROVE Map!Init
    OBVIOUS
  <2>1. put = [n \in Names |-> {}] /\ TableInv
    BY InitTable DEF TableInit
  <2>2. \A n \in Names : Found(slots, n) = None
    <3>1. PICK s \in Nat \ {0} : slots \in Table(s)
      BY <2>1 DEF TableInv, TableTyped
    <3>2. put \in [Names -> SUBSET Values] /\ Reached(slots) /\ Holds(slots, put)
      BY <2>1 DEF TableInv, TableTyped, Kept
    <3>. QED  BY <2>1, <3>1, <3>2, FoundIsPut
  <2>. QED  BY <2>1, <2>2 DEF Map!Init
<1>2. TableInv /\ TableInv' /\ [TableNext]_table_vars => [Map!Next]_(Map!vars)
  <2>1. CASE UNCHANGED table_vars
    BY <2>1 DEF table_vars, Map!vars
  <2>2. ASSUME TableInv, TableInv', NEW n \in Names, NEW v \in Values, Put(n, v)  PROVE Map!Next
    BY <2>2, PutIsMapPut DEF Map!Next
  <2>. QED  BY <2>1, <2>2 DEF TableNext
<1>. QED  BY <1>1, <1>2, TableInvariance, PTL DEF TableSpec, IsMap, Map!Spec

=============================================================================
