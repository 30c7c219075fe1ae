---------------------------- MODULE PollProofs ------------------------------
(***************************************************************************)
(* Proofs about BlockPlanner, Reading and Entities.  The plan is right for *)
(* every set of addresses and every limits: the loop invariant, and the    *)
(* properties of the plan that follow.  What the entities show is true for *)
(* every content of the registers.                                         *)
(***************************************************************************)
EXTENDS Entities, FiniteSetTheorems, SequenceTheorems, TLAPS

(* The planner. *)

Visited == Addresses \ wanted

\* What the iteration knows of the block being extended.
LoopInv ==
  pc = "loop" =>
    /\ start \in Visited /\ previous \in Visited /\ start <= previous
    /\ \A a \in Visited : a <= previous
    /\ \A a \in wanted : previous < a
    /\ \A a \in Visited : start <= a \/ \E b \in blocks : contains(b, a)
    /\ \A b \in blocks : end(b) < start /\ ~ Legal(b.start, start)
    /\ Legal(start, previous)

\* The blocks do not touch.
Apart == \A b, c \in blocks : b = c \/ end(b) < c.start \/ end(c) < b.start

\* Before the loop there is no block, after it every address is in one.
Ends == /\ pc = "begin" => blocks = {} /\ wanted = Addresses
        /\ pc = "done" => \A a \in Addresses : \E b \in blocks : contains(b, a)

PlanInv == TypeOK /\ LoopInv /\ Apart /\ Ends /\ BlocksAreLegal /\ EachSplitForced

\* The limits are positive numbers and the addresses are numbers.
LEMMA ArgsTyped ==
  ASSUME TypeOK
  PROVE  /\ Addresses \subseteq Nat
         /\ args.max_gap \in Nat /\ args.max_block \in Nat
         /\ 1 <= args.max_block
  BY CallsAssumption DEF TypeOK, Addresses

\* Dropping the tail of a legal run leaves a legal run: what cannot reach an
\* address cannot reach a later one.
LEMMA LegalShorter ==
  ASSUME TypeOK, NEW l \in Nat, NEW h \in Addresses, NEW k \in Nat, h <= k, Legal(l, k)
  PROVE  Legal(l, h)
<1>1. h - l + 1 <= args.max_block
  BY ArgsTyped DEF Legal
<1>2. ASSUME NEW a \in Addresses, l <= a, a < h
      PROVE  \E b \in Addresses : a < b /\ b <= h /\ b - a - 1 <= args.max_gap
  <2>1. PICK b \in Addresses : a < b /\ b <= k /\ b - a - 1 <= args.max_gap
    BY <1>2, ArgsTyped DEF Legal
  <2>2. CASE b <= h
    BY <2>1, <2>2
  <2>3. CASE ~ (b <= h)
    BY <1>2, <2>1, <2>3, ArgsTyped
  <2> QED BY <2>2, <2>3
<1> QED BY <1>1, <1>2 DEF Legal

\* What is true of the blocks once the one being extended is emitted.
WellEmitted(new) ==
  /\ new \subseteq [start : Nat, count : Nat \ {0}]
  /\ \A b \in new : end(b) <= previous
  /\ \A b, c \in new : b = c \/ end(b) < c.start \/ end(c) < b.start
  /\ \A b \in new : b.start \in Addresses /\ end(b) \in Addresses /\ Legal(b.start, end(b))
  /\ \A b, c \in new : b.start < c.start => ~ Legal(b.start, c.start)
  /\ \A a \in Visited : \E b \in new : contains(b, a)

\* Emitting the block being extended keeps the blocks apart, legal and forced.
LEMMA Emit ==
  ASSUME PlanInv, pc = "loop",
         NEW new, new = blocks \cup {ReadBlock(start, previous - start + 1)}
  PROVE  WellEmitted(new)
<1> DEFINE n == ReadBlock(start, previous - start + 1)
<1>1. /\ Addresses \subseteq Nat /\ start \in Addresses /\ previous \in Addresses
      /\ start \in Nat /\ previous \in Nat /\ start <= previous
  BY ArgsTyped DEF PlanInv, LoopInv, Visited
<1>2. n.start = start /\ end(n) = previous /\ n \in [start : Nat, count : Nat \ {0}]
  BY <1>1 DEF ReadBlock, end
<1>3. \A b \in blocks : b.start \in Nat /\ end(b) \in Nat /\ b.start <= end(b)
  BY DEF PlanInv, TypeOK, end
<1>4. \A b \in blocks : end(b) < start /\ ~ Legal(b.start, start)
  BY DEF PlanInv, LoopInv
<1>5. \A b \in new : b \in blocks \/ b = n
  OBVIOUS
<1>6. new \subseteq [start : Nat, count : Nat \ {0}]
  BY <1>2, <1>5 DEF PlanInv, TypeOK
<1>7. \A b \in new : end(b) <= previous
  BY <1>1, <1>2, <1>3, <1>4, <1>5
<1>8. \A b, c \in new : b = c \/ end(b) < c.start \/ end(c) < b.start
  BY <1>2, <1>4, <1>5 DEF PlanInv, Apart
<1>9. \A b \in new : b.start \in Addresses /\ end(b) \in Addresses /\ Legal(b.start, end(b))
  BY <1>1, <1>2, <1>5 DEF PlanInv, LoopInv, BlocksAreLegal
<1>10. ASSUME NEW b \in new, NEW c \in new, b.start < c.start
       PROVE  ~ Legal(b.start, c.start)
  <2>1. CASE b \in blocks /\ c \in blocks
    BY <1>10, <2>1 DEF PlanInv, EachSplitForced
  <2>2. CASE b \in blocks /\ c = n
    BY <1>2, <1>4, <2>2
  <2>3. CASE b = n /\ c \in blocks
    BY <1>1, <1>2, <1>3, <1>4, <1>10, <2>3
  <2>4. CASE b = n /\ c = n
    BY <1>1, <1>2, <1>10, <2>4
  <2> QED BY <1>5, <2>1, <2>2, <2>3, <2>4
<1>11. ASSUME NEW a \in Visited
       PROVE  \E b \in new : contains(b, a)
  <2>1. CASE start <= a
    <3>1. a <= previous
      BY DEF PlanInv, LoopInv
    <3> QED BY <1>2, <2>1, <3>1 DEF contains
  <2>2. CASE \E b \in blocks : contains(b, a)
    BY <2>2
  <2> QED BY <2>1, <2>2 DEF PlanInv, LoopInv
<1> QED BY <1>6, <1>7, <1>8, <1>9, <1>10, <1>11 DEF WellEmitted

\* A run that must be split is not legal up to the next address; one that need not
\* be is.
LEMMA SplitIffIllegal ==
  ASSUME PlanInv, pc = "loop", NEW address \in wanted, IsNext(address)
  PROVE  /\ MustSplit(address) => ~ Legal(start, address)
         /\ ~ MustSplit(address) => Legal(start, address)
<1>1. /\ Addresses \subseteq Nat /\ start \in Nat /\ previous \in Addresses
      /\ address \in Addresses /\ start <= previous /\ previous < address
      /\ args.max_gap \in Nat /\ args.max_block \in Nat
      /\ \A a \in Addresses : previous < a => address <= a
  BY ArgsTyped DEF PlanInv, LoopInv, Visited, TypeOK, IsNext
<1>2. ASSUME MustSplit(address) PROVE ~ Legal(start, address)
  BY <1>1, <1>2 DEF MustSplit, Legal
<1>3. ASSUME ~ MustSplit(address) PROVE Legal(start, address)
  <2>1. address - start + 1 <= args.max_block
    BY <1>1, <1>3 DEF MustSplit
  <2>2. ASSUME NEW a \in Addresses, start <= a, a < address
        PROVE  \E b \in Addresses : a < b /\ b <= address /\ b - a - 1 <= args.max_gap
    <3>1. CASE a < previous
      <4>1. PICK b \in Addresses : a < b /\ b <= previous /\ b - a - 1 <= args.max_gap
        BY <2>2, <3>1 DEF PlanInv, LoopInv, Legal
      <4> QED BY <1>1, <4>1
    <3>2. CASE a = previous
      BY <1>1, <1>3, <3>2 DEF MustSplit
    <3>3. CASE previous < a
      BY <1>1, <2>2, <3>3
    <3> QED BY <1>1, <3>1, <3>2, <3>3
  <2> QED BY <2>1, <2>2 DEF Legal
<1> QED BY <1>2, <1>3

\* The first address opens a block of its own.
LEMMA FirstAddressStep ==
  ASSUME PlanInv, NEW address \in wanted, FirstAddress(address)
  PROVE  PlanInv'
<1> USE DEF FirstAddress
<1>1. /\ wanted = Addresses /\ blocks = {} /\ blocks' = {} /\ args' = args
      /\ Addresses \subseteq Nat /\ address \in Addresses
      /\ args.max_gap \in Nat /\ args.max_block \in Nat /\ 1 <= args.max_block
      /\ Addresses' = Addresses
  BY ArgsTyped DEF PlanInv, Ends, Addresses
<1>2. TypeOK'
  BY <1>1 DEF PlanInv, TypeOK
<1>3. Visited' = {address}
  BY <1>1 DEF Visited
<1>4. Legal(address, address)'
  BY <1>1 DEF Legal
<1>5. LoopInv'
  BY <1>1, <1>3, <1>4 DEF LoopInv, IsNext, Legal
<1> QED BY <1>1, <1>2, <1>5 DEF PlanInv, Apart, Ends, BlocksAreLegal, EachSplitForced

\* One iteration, which extends the block or emits it and starts the next.
LEMMA NextAddressStep ==
  ASSUME PlanInv, NEW address \in wanted, NextAddress(address)
  PROVE  PlanInv'
<1> USE DEF NextAddress
<1>1. /\ args' = args /\ Addresses' = Addresses /\ previous' = address
      /\ pc = "loop" /\ pc' = "loop" /\ IsNext(address)
      /\ wanted' = wanted \ {address}
  BY DEF Addresses
<1>2. /\ Addresses \subseteq Nat /\ start \in Addresses /\ previous \in Addresses
      /\ address \in Addresses /\ start <= previous /\ previous < address
      /\ \A a \in wanted : address <= a
      /\ \A a \in Visited : a <= previous
  BY <1>1, ArgsTyped DEF PlanInv, LoopInv, Visited, TypeOK, IsNext
<1>3. Visited' = Visited \cup {address}
  BY <1>1, <1>2 DEF Visited
<1>4. (\A a \in Visited' : a <= address) /\ \A a \in wanted' : address < a
  <2>1. ASSUME NEW a \in Visited PROVE a <= address
    BY <1>2 DEF Visited
  <2>2. ASSUME NEW a \in wanted, a # address PROVE address < a
    BY <1>2, <2>2 DEF PlanInv, TypeOK
  <2> QED BY <1>1, <1>2, <1>3, <2>1, <2>2
<1>5. CASE ~ MustSplit(address)
  <2>1. blocks' = blocks /\ start' = start
    BY <1>5
  <2>2. TypeOK'
    BY <1>1, <1>2, <2>1 DEF PlanInv, TypeOK
  <2>3. Legal(start, address)
    BY <1>1, <1>5, SplitIffIllegal
  <2>4. LoopInv'
    BY <1>1, <1>2, <1>3, <1>4, <2>1, <2>3 DEF PlanInv, LoopInv, Legal
  <2> QED BY <1>1, <2>1, <2>2, <2>4
        DEF PlanInv, Apart, Ends, BlocksAreLegal, EachSplitForced, Legal
<1>6. CASE MustSplit(address)
  <2>1. blocks' = blocks \cup {ReadBlock(start, previous - start + 1)} /\ start' = address
    BY <1>6
  <2>2. /\ blocks' \subseteq [start : Nat, count : Nat \ {0}]
        /\ \A b \in blocks' : end(b) <= previous
        /\ \A b, c \in blocks' : b = c \/ end(b) < c.start \/ end(c) < b.start
        /\ \A b \in blocks' : /\ b.start \in Addresses /\ end(b) \in Addresses
                              /\ Legal(b.start, end(b))
        /\ \A b, c \in blocks' : b.start < c.start => ~ Legal(b.start, c.start)
        /\ \A a \in Visited : \E b \in blocks' : contains(b, a)
    <3>1. WellEmitted(blocks')
      BY <1>1, <2>1, Emit
    <3> QED BY <3>1 DEF WellEmitted
  <2>3. TypeOK'
    BY <1>1, <1>2, <2>1, <2>2 DEF PlanInv, TypeOK
  <2>4. ASSUME NEW b \in blocks' PROVE ~ Legal(b.start, address)
    <3>1. b.start \in Nat /\ b.start <= end(b) /\ end(b) \in Nat
      BY <2>2 DEF end
    <3>2. CASE b \in blocks
      <4>1. ~ Legal(b.start, start)
        BY <1>1, <3>2 DEF PlanInv, LoopInv
      <4> QED BY <1>2, <3>1, <4>1, LegalShorter DEF PlanInv
    <3>3. CASE b = ReadBlock(start, previous - start + 1)
      BY <1>1, <1>6, <3>3, SplitIffIllegal DEF ReadBlock
    <3> QED BY <2>1, <3>2, <3>3
  <2>5. Legal(address, address)
    BY <1>2, ArgsTyped DEF Legal, PlanInv
  <2>6. \A b \in blocks' : end(b) < address
    BY <1>2, <2>2 DEF end
  <2>7. LoopInv'
    BY <1>1, <1>2, <1>3, <1>4, <2>1, <2>2, <2>4, <2>5, <2>6 DEF LoopInv, Legal
  <2> QED BY <1>1, <2>2, <2>3, <2>7
        DEF PlanInv, Apart, Ends, BlocksAreLegal, EachSplitForced, Legal
<1> QED BY <1>5, <1>6

\* The block still open is emitted after the loop.
LEMMA LastBlockStep ==
  ASSUME PlanInv, LastBlock
  PROVE  PlanInv'
<1> USE DEF LastBlock
<1>1. args' = args /\ Addresses' = Addresses /\ Visited = Addresses
  BY DEF Addresses, Visited
<1>2. /\ blocks' \subseteq [start : Nat, count : Nat \ {0}]
      /\ \A b, c \in blocks' : b = c \/ end(b) < c.start \/ end(c) < b.start
      /\ \A b \in blocks' : /\ b.start \in Addresses /\ end(b) \in Addresses
                            /\ Legal(b.start, end(b))
      /\ \A b, c \in blocks' : b.start < c.start => ~ Legal(b.start, c.start)
      /\ \A a \in Visited : \E b \in blocks' : contains(b, a)
  <2>1. WellEmitted(blocks')
    BY Emit
  <2> QED BY <2>1 DEF WellEmitted
<1>3. TypeOK'
  BY <1>1, <1>2 DEF PlanInv, TypeOK
<1> QED BY <1>1, <1>2, <1>3
      DEF PlanInv, LoopInv, Apart, Ends, BlocksAreLegal, EachSplitForced, Legal

\* The loop invariant holds throughout every call.
THEOREM PlanInvariant == Spec => []PlanInv
<1>1. Init => PlanInv
  BY CallsAssumption
     DEF Init, PlanInv, TypeOK, LoopInv, Apart, Ends, BlocksAreLegal, EachSplitForced, Addresses
<1>2. PlanInv /\ [Next]_vars => PlanInv'
  <2> SUFFICES ASSUME PlanInv, [Next]_vars PROVE PlanInv'
    OBVIOUS
  <2>1. CASE NothingWanted
    BY <2>1 DEF NothingWanted, PlanInv, TypeOK, LoopInv, Apart, Ends, BlocksAreLegal,
                EachSplitForced, Addresses, Legal
  <2>2. CASE LastBlock
    BY <2>2, LastBlockStep
  <2>3. ASSUME NEW address \in wanted, FirstAddress(address) PROVE PlanInv'
    BY <2>3, FirstAddressStep
  <2>4. ASSUME NEW address \in wanted, NextAddress(address) PROVE PlanInv'
    BY <2>4, NextAddressStep
  <2>5. CASE UNCHANGED vars
    BY <2>5 DEF vars, PlanInv, TypeOK, LoopInv, Apart, Ends, BlocksAreLegal,
                EachSplitForced, Addresses, Legal, Visited
  <2> QED BY <2>1, <2>2, <2>3, <2>4, <2>5 DEF Next
<1> QED BY <1>1, <1>2, PTL DEF Spec

\* Whatever the addresses and the limits, the plan fetches each address exactly
\* once (registers.py:118-120).
THEOREM PlanCovers == Spec => []EachAddressOnce
<1>1. PlanInv => EachAddressOnce
  <2> SUFFICES ASSUME PlanInv, pc = "done", NEW a \in Addresses
               PROVE  /\ \E b \in blocks : contains(b, a)
                      /\ \A b, c \in blocks : contains(b, a) /\ contains(c, a) => b = c
    BY DEF EachAddressOnce
  <2>1. \E b \in blocks : contains(b, a)
    BY DEF PlanInv, Ends
  <2>2. ASSUME NEW b \in blocks, NEW c \in blocks, contains(b, a), contains(c, a)
        PROVE  b = c
    BY <2>2, ArgsTyped DEF PlanInv, Apart, TypeOK, contains, end
  <2> QED BY <2>1, <2>2
<1> QED BY <1>1, PlanInvariant, PTL

\* No block of any plan breaks its limits, and each is split from the one before
\* only where it must be (registers.py:111-114).
THEOREM PlanIsLegal == Spec => [](BlocksAreLegal /\ EachSplitForced)
<1>1. PlanInv => BlocksAreLegal /\ EachSplitForced
  BY DEF PlanInv
<1> QED BY <1>1, PlanInvariant, PTL

-----------------------------------------------------------------------------
(* The number of blocks. *)

\* Only finitely many addresses have been visited, and at the end it is all of them.
FiniteInv == /\ IsFiniteSet(Visited) /\ IsFiniteSet(blocks)
             /\ pc = "done" => wanted = {}

LEMMA FiniteStep == PlanInv /\ FiniteInv /\ [Next]_vars => FiniteInv'
<1> SUFFICES ASSUME PlanInv, FiniteInv, [Next]_vars PROVE FiniteInv'
  OBVIOUS
<1>1. ASSUME NEW address \in wanted, FirstAddress(address) \/ NextAddress(address)
      PROVE  FiniteInv'
  <2>1. /\ args' = args /\ wanted' = wanted \ {address} /\ address \in Addresses
        /\ pc' = "loop"
        /\ \/ blocks' = blocks
           \/ \E b : blocks' = blocks \cup {b}
    BY <1>1 DEF FirstAddress, NextAddress, PlanInv, TypeOK
  <2>2. Visited' = Visited \cup {address}
    BY <2>1 DEF Visited, Addresses
  <2> QED BY <2>1, <2>2, FS_AddElement DEF FiniteInv
<1>2. CASE NothingWanted \/ LastBlock
  <2>1. /\ args' = args /\ wanted' = wanted /\ wanted = {}
        /\ \/ blocks' = blocks
           \/ \E b : blocks' = blocks \cup {b}
    BY <1>2 DEF NothingWanted, LastBlock
  <2>2. Visited' = Visited
    BY <2>1 DEF Visited, Addresses
  <2> QED BY <2>1, <2>2, FS_AddElement DEF FiniteInv
<1>3. CASE UNCHANGED vars
  BY <1>3 DEF vars, FiniteInv, Visited, Addresses
<1> QED BY <1>1, <1>2, <1>3 DEF Next

LEMMA FiniteInvariant == Spec => []FiniteInv
<1>1. Init => FiniteInv
  <2> SUFFICES ASSUME Init PROVE FiniteInv
    OBVIOUS
  <2>1. Visited = {} /\ blocks = {} /\ pc = "begin"
    BY DEF Init, Visited, Addresses
  <2> QED BY <2>1, FS_EmptySet DEF FiniteInv
<1> QED BY <1>1, FiniteStep, PlanInvariant, PTL DEF Spec

\* A legal run that reaches the start of one block does not reach the start of
\* another: two blocks never share a read of another plan.
LEMMA OneStartEach ==
  ASSUME PlanInv, NEW b \in blocks, NEW c \in blocks, NEW s \in Addresses,
         s <= b.start, Legal(s, b.start), s <= c.start, Legal(s, c.start)
  PROVE  b = c
<1>1. /\ \A d \in blocks : d.start \in Addresses /\ d.start \in Nat /\ d.start <= end(d)
      /\ Addresses \subseteq Nat /\ s \in Nat
      /\ args.max_gap \in Nat /\ args.max_block \in Nat
  BY ArgsTyped DEF PlanInv, BlocksAreLegal, TypeOK, end
<1>2. ASSUME NEW d \in blocks, NEW e \in blocks, s <= d.start, Legal(s, e.start)
      PROVE  ~ (d.start < e.start)
  <2>1. SUFFICES ASSUME d.start < e.start PROVE Legal(d.start, e.start)
    BY DEF PlanInv, EachSplitForced
  <2>2. e.start - d.start + 1 <= args.max_block
    BY <1>1, <1>2 DEF Legal
  <2>3. \A a \in Addresses : d.start <= a => s <= a
    BY <1>1, <1>2
  <2> QED BY <1>2, <2>2, <2>3 DEF Legal
<1>3. b.start = c.start
  BY <1>1, <1>2
<1>4. /\ end(b) \in Nat /\ end(c) \in Nat
  BY <1>1 DEF PlanInv, BlocksAreLegal
<1> QED BY <1>1, <1>3, <1>4 DEF PlanInv, Apart

\* Each block thus takes a read of its own from any other plan.
LEMMA PlanIsMinimal == PlanInv /\ FiniteInv => FewestBlocks
<1> SUFFICES ASSUME PlanInv, FiniteInv, pc = "done",
                    NEW starts \in SUBSET Addresses, IsPlan(starts)
             PROVE  Cardinality(blocks) <= Cardinality(starts)
  BY DEF FewestBlocks, NoneSmaller
<1>1. IsFiniteSet(starts)
  <2>1. Visited = Addresses
    BY DEF FiniteInv, Visited
  <2> QED BY <2>1, FS_Subset DEF FiniteInv
<1> DEFINE reaches(b, s) == s <= b.start /\ Legal(s, b.start)
           reading == [b \in blocks |-> CHOOSE s \in starts : reaches(b, s)]
<1>2. \A b \in blocks : \E s \in starts : reaches(b, s)
  BY DEF IsPlan, PlanInv, BlocksAreLegal
<1>3. \A b \in blocks : reading[b] \in starts /\ reaches(b, reading[b])
  BY <1>2
<1> HIDE DEF reading
<1>4. \A b, c \in blocks : reading[b] = reading[c] => b = c
  BY <1>3, OneStartEach
<1>5. reading \in [blocks -> starts]
  BY <1>3 DEF reading
<1>6. reading \in Injection(blocks, starts)
  BY <1>4, <1>5 DEF Injection, IsInjective
<1> QED BY <1>1, <1>6, FS_Injection

\* Whatever the addresses and the limits, no set of legal reads that fetches the same
\* addresses is smaller than the plan (registers.py:111).
THEOREM PlanIsSmallest == Spec => []FewestBlocks
  BY PlanInvariant, FiniteInvariant, PlanIsMinimal, PTL

\* A poll only uses the plan.
LEMMA PollPlans == PollSpec => Spec
<1>1. PollInit => Init
  BY DEF PollInit
<1>2. [PollNext]_<< vars, PollVars >> => [Next]_vars
  BY DEF PollNext, BeginPoll, ReadNextBlock, Derive, BlockFails, MachineChanges
<1> QED BY <1>1, <1>2, PTL DEF PollSpec, Spec

\* The plan of the polls is among them: the real register map needs no more
\* transactions than any other way to read it (registers.py:111).
THEOREM PollsAreShort == PollSpec => [](FewestBlocks /\ FewestTransactions)
<1>1. FewestBlocks => FewestTransactions
  BY DEF FewestBlocks, FewestTransactions
<1> QED BY <1>1, PollPlans, PlanIsSmallest, PTL
-----------------------------------------------------------------------------
(* The poll. *)

\* READ_BLOCKS lists every block once.
LEMMA BlocksListed ==
  ASSUME PlanInv, FiniteInv
  PROVE  /\ Cardinality(blocks) \in Nat
         /\ Plan \in [1 .. Cardinality(blocks) -> blocks] /\ Len(Plan) = Cardinality(blocks)
         /\ \A b \in blocks : \E i \in 1 .. Cardinality(blocks) : Plan[i] = b
         /\ \A i, j \in 1 .. Cardinality(blocks) : Plan[i] = Plan[j] => i = j
<1> DEFINE n == Cardinality(blocks)
           before(b) == {c \in blocks : c.start < b.start}
           rank == [b \in blocks |-> Cardinality(before(b))]
<1>1. IsFiniteSet(blocks) /\ n \in Nat
  BY FS_CardinalityType DEF FiniteInv
<1>2. \A b \in blocks : b.start \in Nat /\ end(b) \in Nat /\ b.start <= end(b)
  BY DEF PlanInv, TypeOK, end
<1>3. ASSUME NEW b \in blocks
      PROVE  IsFiniteSet(before(b)) /\ Cardinality(before(b)) \in 0 .. n - 1
  <2>1. before(b) \in SUBSET blocks /\ b \notin before(b)
    BY <1>2
  <2>2. /\ IsFiniteSet(before(b)) /\ Cardinality(before(b)) <= n
        /\ n = Cardinality(before(b)) => blocks = before(b)
    BY <1>1, <2>1, FS_Subset
  <2>3. Cardinality(before(b)) \in Nat
    BY <2>2, FS_CardinalityType
  <2> HIDE DEF before
  <2> QED BY <1>1, <2>1, <2>2, <2>3
<1>4. ASSUME NEW b \in blocks, NEW c \in blocks, b.start < c.start
      PROVE  Cardinality(before(b)) < Cardinality(before(c))
  <2>1. before(b) \in SUBSET before(c)
    BY <1>2, <1>4
  <2>2. b \in before(c) /\ b \notin before(b)
    BY <1>2, <1>4
  <2>3. /\ Cardinality(before(b)) <= Cardinality(before(c))
        /\ Cardinality(before(c)) = Cardinality(before(b)) => before(c) = before(b)
    BY <1>3, <2>1, FS_Subset
  <2>4. Cardinality(before(b)) \in Nat /\ Cardinality(before(c)) \in Nat
    BY <1>3, FS_CardinalityType
  <2> HIDE DEF before
  <2> QED BY <2>2, <2>3, <2>4
<1>5. ASSUME NEW b \in blocks, NEW c \in blocks, rank[b] = rank[c]
      PROVE  b = c
  <2>1. Cardinality(before(b)) = Cardinality(before(c))
    BY <1>5
  <2>2. ~ (b.start < c.start) /\ ~ (c.start < b.start)
    BY <1>3, <1>4, <2>1
  <2> QED BY <1>2, <2>2 DEF PlanInv, Apart
<1>6. rank \in [blocks -> 0 .. n - 1]
  BY <1>3
<1>7. rank \in Injection(blocks, 0 .. n - 1)
  BY <1>5, <1>6 DEF Injection, IsInjective
<1>8. IsFiniteSet(0 .. n - 1) /\ Cardinality(0 .. n - 1) = n
  <2>1. 0 \in Int /\ n - 1 \in Int /\ (IF 0 > n - 1 THEN 0 ELSE n - 1 - 0 + 1) = n
    BY <1>1
  <2> QED BY <2>1, FS_Interval
<1>9. rank \in Surjection(blocks, 0 .. n - 1)
  BY <1>7, <1>8, FS_Injection
<1>10. \A k \in 0 .. n - 1 : \E b \in blocks : rank[b] = k
  BY <1>9 DEF Surjection
<1>11. Plan = [i \in 1 .. n |-> CHOOSE b \in blocks : Cardinality(before(b)) = i - 1]
  BY DEF Plan, READ_BLOCKS
<1>12. ASSUME NEW i \in 1 .. n
       PROVE  Plan[i] \in blocks /\ rank[Plan[i]] = i - 1
  <2>1. i - 1 \in 0 .. n - 1
    BY <1>1
  <2>2. \E b \in blocks : Cardinality(before(b)) = i - 1
    BY <1>10, <2>1
  <2>3. Plan[i] = CHOOSE b \in blocks : Cardinality(before(b)) = i - 1
    BY <1>11
  <2>4. Plan[i] \in blocks /\ Cardinality(before(Plan[i])) = i - 1
    BY <2>2, <2>3
  <2> QED BY <2>4
<1>13. Plan \in [1 .. n -> blocks]
  BY <1>11, <1>12
<1>14. Len(Plan) = n
  <2>1. Plan \in Seq(blocks)
    BY <1>1, <1>13, IsASeq
  <2>2. DOMAIN Plan = 1 .. Len(Plan) /\ Len(Plan) \in Nat
    BY <2>1, LenProperties
  <2>3. DOMAIN Plan = 1 .. n
    BY <1>11
  <2>4. \A k \in Nat : k \in 1 .. Len(Plan) <=> k \in 1 .. n
    BY <2>2, <2>3
  <2>5. Len(Plan) <= n /\ n <= Len(Plan)
    BY <1>1, <2>2, <2>4
  <2> QED BY <1>1, <2>2, <2>5
<1>15. ASSUME NEW b \in blocks
       PROVE  \E i \in 1 .. n : Plan[i] = b
  <2>1. rank[b] \in 0 .. n - 1
    BY <1>6
  <2>2. rank[b] + 1 \in 1 .. n /\ (rank[b] + 1) - 1 = rank[b]
    BY <1>1, <2>1
  <2>3. rank[Plan[rank[b] + 1]] = rank[b] /\ Plan[rank[b] + 1] \in blocks
    BY <1>12, <2>2
  <2> QED BY <1>5, <2>2, <2>3
<1>16. ASSUME NEW i \in 1 .. n, NEW j \in 1 .. n, Plan[i] = Plan[j]
       PROVE  i = j
  <2>1. i - 1 = j - 1
    BY <1>12, <1>16
  <2> QED BY <2>1
<1> QED BY <1>1, <1>13, <1>14, <1>15, <1>16

\* The blocks do not overlap, so an address is in one place of the list.
LEMMA OnePlace ==
  ASSUME PlanInv, FiniteInv, NEW i \in 1 .. Cardinality(blocks),
         NEW j \in 1 .. Cardinality(blocks), NEW a \in Int,
         contains(Plan[i], a), contains(Plan[j], a)
  PROVE  i = j
<1>1. Plan[i] \in blocks /\ Plan[j] \in blocks
  BY BlocksListed
<1>2. Plan[i] = Plan[j]
  BY <1>1 DEF PlanInv, Apart, TypeOK, contains, end
<1> QED BY <1>2, BlocksListed

Blocks == 1 .. Cardinality(blocks)
Whole == next <= Cardinality(blocks) + 1   \* no transaction has failed

\* What is in "raw" came from the blocks read so far; each of them from one moment of
\* the machine; and, unless a reply was short, with all its registers.
FromBlocks == \A a \in DOMAIN raw : a \in Int /\ \E i \in Blocks : i < next /\ contains(Plan[i], a)

OneMoment ==
  \A i \in Blocks : i < next =>
    \E m \in moments : \A a \in DOMAIN raw :
      contains(Plan[i], a) => raw[a] = Signed(Shows(m, a))

Complete ==
  ~ short => \A i \in Blocks : i < next => \A a \in Int : contains(Plan[i], a) => a \in DOMAIN raw

PollInv ==
  /\ next \in Nat /\ short \in BOOLEAN /\ moments \subseteq Memories
  /\ next = 0 => DOMAIN raw = {} /\ data = None
  /\ next > 0 => pc = "done" /\ args = RealCall /\ memory \in moments
  /\ Whole => FromBlocks /\ OneMoment /\ Complete
  /\ data # None => data = ReadAll(raw) /\ next = Cardinality(blocks) + 1

\* The invariants of the planner and the poll together.
ReadInv == PlanInv /\ FiniteInv /\ PollInv

LEMMA PollInit0 == PollInit => PollInv
<1> SUFFICES ASSUME PollInit PROVE PollInv
  OBVIOUS
<1>1. next = 0 /\ short = FALSE /\ moments = {} /\ raw = << >> /\ data = None
  BY DEF PollInit
<1>2. DOMAIN raw = {}
  BY <1>1
<1>3. \A i \in Blocks : ~ (i < 0)
  BY DEF Blocks
<1>4. FromBlocks /\ OneMoment /\ Complete
  BY <1>1, <1>2, <1>3 DEF FromBlocks, OneMoment, Complete
<1>5. next \in Nat /\ short \in BOOLEAN /\ moments \subseteq Memories
  BY <1>1
<1> QED BY <1>1, <1>2, <1>4, <1>5 DEF PollInv

\* While the plan is made nothing has been read, and nothing of it changes afterwards.
LEMMA PlanningStep ==
  ASSUME ReadInv, Next, UNCHANGED PollVars
  PROVE  PollInv'
<1>1. next = 0
  BY DEF ReadInv, PollInv, FiniteInv, Next, NothingWanted, LastBlock, FirstAddress, NextAddress
<1>2. /\ next' = 0 /\ short' \in BOOLEAN /\ moments' \subseteq Memories
      /\ DOMAIN raw' = {} /\ data' = None
  BY <1>1 DEF PollVars, ReadInv, PollInv
<1>3. \A i \in Blocks' : ~ (i < 0)
  BY DEF Blocks
<1>4. FromBlocks' /\ OneMoment' /\ Complete'
  BY <1>2, <1>3 DEF FromBlocks, OneMoment, Complete
<1> QED BY <1>2, <1>4 DEF PollInv

LEMMA BeginPollStep ==
  ASSUME ReadInv, BeginPoll
  PROVE  PollInv'
<1>1. /\ pc' = "done" /\ args' = RealCall /\ next' = 1 /\ blocks' = blocks
      /\ memory' \in Memories /\ moments' = {memory'}
      /\ DOMAIN raw' = {} /\ data' = None /\ short' \in BOOLEAN
  BY DEF BeginPoll, vars, ReadInv, PollInv
<1>2. \A i \in Blocks' : ~ (i < 1)
  BY DEF Blocks
<1>3. FromBlocks' /\ OneMoment' /\ Complete'
  BY <1>1, <1>2 DEF FromBlocks, OneMoment, Complete
<1> QED BY <1>1, <1>3 DEF PollInv

\* One transaction: what it adds to "raw".
LEMMA ReadBlockAdds ==
  ASSUME ReadInv, ReadNextBlock
  PROVE  \E added \in SUBSET Int :
           /\ DOMAIN raw' = DOMAIN raw \cup added
           /\ \A a \in DOMAIN raw : raw'[a] = raw[a]
           /\ \A a \in added : /\ contains(Plan[next], a)
                               /\ a \notin DOMAIN raw => raw'[a] = Signed(Shows(memory, a))
           /\ ~ short' => \A a \in Int : contains(Plan[next], a) => a \in added
           /\ short' \in BOOLEAN /\ (~ short' => ~ short)
<1> DEFINE block == Plan[next]
<1>0. MaxDropped \in Nat
  BY ReadingAssumption
<1>1. PICK dropped \in 0 .. MaxDropped :
        LET kept == block.count - dropped
        IN /\ kept >= 0 /\ (dropped > 0 => ~ short)
           /\ raw' = [a \in DOMAIN raw \cup (block.start .. block.start + kept - 1) |->
                        IF a \in DOMAIN raw THEN raw[a] ELSE Fetch(block, kept)[a - block.start]]
           /\ short' = (short \/ dropped > 0)
  BY DEF ReadNextBlock
<1> DEFINE kept == block.count - dropped
           added == block.start .. block.start + kept - 1
<1>2. next \in Blocks
  BY BlocksListed DEF ReadInv, PollInv, ReadNextBlock, Polling, Blocks
<1>3. block.start \in Nat /\ block.count \in Nat \ {0} /\ dropped \in Nat /\ kept \in Int
  <2>1. block \in blocks
    BY <1>2, BlocksListed DEF ReadInv, Blocks
  <2>2. block \in [start : Nat, count : Nat \ {0}]
    BY <2>1 DEF ReadInv, PlanInv, TypeOK
  <2>3. dropped \in Nat
    <3>1. MaxDropped \in Nat /\ dropped \in 0 .. MaxDropped
      BY <1>0
    <3> QED BY <3>1
  <2> QED BY <2>2, <2>3
<1> HIDE DEF block
<1>4. \A a \in added : contains(block, a)
  BY <1>3 DEF contains, end
<1>5. ASSUME NEW a \in added, a \notin DOMAIN raw
      PROVE  raw'[a] = Signed(Shows(memory, a))
  <2>1. a - block.start \in 0 .. kept - 1 /\ block.start + (a - block.start) = a
    BY <1>3
  <2>2. raw'[a] = Fetch(block, kept)[a - block.start]
    BY <1>1, <1>5
  <2> QED BY <2>1, <2>2 DEF Fetch, Shows
<1>6. ASSUME ~ short', NEW a \in Int, contains(block, a)
      PROVE  a \in added
  <2>1. dropped = 0
    <3>1. ~ (dropped > 0)
      BY <1>1, <1>6
    <3> QED BY <1>3, <3>1
  <2> QED BY <1>3, <1>6, <2>1 DEF contains, end
<1>7. DOMAIN raw' = DOMAIN raw \cup added /\ \A a \in DOMAIN raw : raw'[a] = raw[a]
  BY <1>1
<1>8. added \in SUBSET Int
  BY <1>3
<1>9. short' \in BOOLEAN
  <2>1. CASE short \/ dropped > 0
    BY <1>1, <2>1
  <2>2. CASE ~ (short \/ dropped > 0)
    BY <1>1, <2>2
  <2> QED BY <2>1, <2>2
<1>10. ~ short' => ~ short
  BY <1>1
<1> HIDE DEF added
<1> QED BY <1>4, <1>5, <1>6, <1>7, <1>8, <1>9, <1>10 DEF block

LEMMA ReadNextBlockStep ==
  ASSUME ReadInv, ReadNextBlock
  PROVE  PollInv'
<1>1. /\ next \in Blocks /\ next \in Nat /\ Cardinality(blocks) \in Nat
      /\ next' = next + 1 /\ blocks' = blocks
      /\ UNCHANGED << args, pc, memory, moments, data >>
      /\ Plan' = Plan /\ Blocks' = Blocks
  BY BlocksListed
     DEF ReadInv, PollInv, ReadNextBlock, Polling, Blocks, vars, Plan, READ_BLOCKS
<1>2. /\ FromBlocks /\ OneMoment /\ Complete /\ data = None
      /\ moments \subseteq Memories /\ memory \in moments /\ pc = "done" /\ args = RealCall
  BY <1>1 DEF ReadInv, PollInv, Whole, Blocks
<1>3. PICK added \in SUBSET Int :
        /\ DOMAIN raw' = DOMAIN raw \cup added
        /\ \A a \in DOMAIN raw : raw'[a] = raw[a]
        /\ \A a \in added : /\ contains(Plan[next], a)
                            /\ a \notin DOMAIN raw => raw'[a] = Signed(Shows(memory, a))
        /\ ~ short' => \A a \in Int : contains(Plan[next], a) => a \in added
        /\ short' \in BOOLEAN /\ (~ short' => ~ short)
  BY ReadBlockAdds
<1>4. \A i, j \in Blocks, a \in Int : contains(Plan[i], a) /\ contains(Plan[j], a) => i = j
  BY OnePlace DEF ReadInv, Blocks
<1>5. FromBlocks'
  <2> SUFFICES ASSUME NEW a \in DOMAIN raw'
               PROVE  a \in Int /\ \E i \in Blocks : i < next + 1 /\ contains(Plan[i], a)
    BY <1>1 DEF FromBlocks
  <2>1. CASE a \in DOMAIN raw
    BY <1>1, <1>2, <2>1 DEF FromBlocks, Blocks
  <2>2. CASE a \in added
    <3>1. a \in Int /\ contains(Plan[next], a)
      BY <1>3, <2>2
    <3>2. next < next + 1
      BY <1>1
    <3> QED BY <1>1, <3>1, <3>2
  <2> QED BY <1>3, <2>1, <2>2
<1>6. OneMoment'
  <2> SUFFICES ASSUME NEW i \in Blocks, i < next + 1
               PROVE  \E m \in moments : \A a \in DOMAIN raw' :
                        contains(Plan[i], a) => raw'[a] = Signed(Shows(m, a))
    BY <1>1 DEF OneMoment
  <2>1. CASE i < next
    <3>1. PICK m \in moments : \A a \in DOMAIN raw :
                                 contains(Plan[i], a) => raw[a] = Signed(Shows(m, a))
      BY <1>2, <2>1 DEF OneMoment
    <3>2. ASSUME NEW a \in DOMAIN raw', contains(Plan[i], a)
          PROVE  a \in DOMAIN raw
      <4>1. CASE a \in added
        <5>1. a \in Int /\ contains(Plan[next], a)
          BY <1>3, <4>1
        <5>2. i = next
          BY <1>1, <1>4, <3>2, <5>1
        <5> QED BY <1>1, <2>1, <5>2
      <4> QED BY <1>3, <4>1, <3>2
    <3> QED BY <1>3, <3>1, <3>2
  <2>2. CASE i = next
    <3>1. ASSUME NEW a \in DOMAIN raw', contains(Plan[next], a)
          PROVE  a \in added /\ a \notin DOMAIN raw
      <4>1. a \notin DOMAIN raw
        BY <1>1, <1>2, <1>4, <3>1 DEF FromBlocks, Blocks
      <4> QED BY <1>3, <4>1
    <3> QED BY <1>2, <1>3, <2>2, <3>1
  <2> QED BY <1>1, <2>1, <2>2 DEF Blocks
<1>7. Complete'
  <2> SUFFICES ASSUME ~ short', NEW i \in Blocks, i < next + 1, NEW a \in Int,
                      contains(Plan[i], a)
               PROVE  a \in DOMAIN raw'
    BY <1>1 DEF Complete
  <2>1. CASE i < next
    BY <1>2, <1>3, <2>1 DEF Complete
  <2>2. CASE i = next
    BY <1>3, <2>2
  <2> QED BY <1>1, <2>1, <2>2 DEF Blocks
<1>8. next' \in Nat /\ next' # 0 /\ short' \in BOOLEAN
  BY <1>1, <1>3
<1> QED BY <1>1, <1>2, <1>5, <1>6, <1>7, <1>8 DEF PollInv

\* The rest: the result, a failed transaction, and a change of the machine.
LEMMA DeriveStep ==
  ASSUME ReadInv, Derive
  PROVE  PollInv'
<1>1. /\ UNCHANGED << args, blocks, pc, memory, moments, next, raw, short >>
      /\ data' = ReadAll(raw) /\ next > 0 /\ next = Len(Plan) + 1
      /\ Plan' = Plan /\ Blocks' = Blocks
  <2>1. UNCHANGED << vars, memory, moments, next, raw, short >>
    BY DEF Derive
  <2>2. data' = ReadAll(raw) /\ next > 0 /\ next = Len(Plan) + 1
    BY DEF Derive
  <2>3. blocks' = blocks
    BY <2>1 DEF vars
  <2>4. Plan' = Plan /\ Blocks' = Blocks
    BY <2>3 DEF Plan, READ_BLOCKS, Blocks
  <2> QED BY <2>1, <2>2, <2>4 DEF vars
<1>2. next = Cardinality(blocks) + 1
  BY <1>1, BlocksListed DEF ReadInv
<1>3. ReadAll(raw') = ReadAll(raw)
  BY <1>1
<1> QED BY <1>1, <1>2, <1>3
        DEF ReadInv, PollInv, Whole, FromBlocks, OneMoment, Complete

LEMMA BlockFailsStep ==
  ASSUME ReadInv, BlockFails
  PROVE  PollInv'
<1>1. /\ UNCHANGED << args, blocks, pc, memory, moments, raw, data, short >>
      /\ next' = Len(Plan) + 2 /\ 1 <= next /\ next <= Len(Plan)
  BY DEF BlockFails, Polling, vars
<1>2. Cardinality(blocks) \in Nat /\ Len(Plan) = Cardinality(blocks)
  BY BlocksListed DEF ReadInv
<1>3. next \in Nat /\ next' = Cardinality(blocks') + 2 /\ next' \in Nat
  BY <1>1, <1>2 DEF ReadInv, PollInv
<1>4. next' \in Nat /\ ~ Whole' /\ next' # 0 /\ next # Cardinality(blocks) + 1
      /\ next > 0 /\ next \in Nat
  BY <1>1, <1>2, <1>3 DEF Whole
<1> QED BY <1>1, <1>4 DEF ReadInv, PollInv

LEMMA MachineChangesStep ==
  ASSUME ReadInv, MachineChanges
  PROVE  PollInv'
<1>1. /\ UNCHANGED << args, blocks, pc, next, raw, data, short >>
      /\ memory' \in Memories /\ moments' = moments \cup {memory'}
      /\ Plan' = Plan /\ Blocks' = Blocks
  BY DEF MachineChanges, vars, Plan, READ_BLOCKS, Blocks
<1>2. OneMoment => OneMoment'
  BY <1>1 DEF OneMoment
<1>3. (FromBlocks => FromBlocks') /\ (Complete => Complete')
  BY <1>1 DEF FromBlocks, Complete
<1>4. ReadAll(raw') = ReadAll(raw)
  BY <1>1
<1> QED BY <1>1, <1>2, <1>3, <1>4 DEF ReadInv, PollInv, Whole

LEMMA PollStep == ReadInv /\ [PollNext]_<< vars, PollVars >> => PollInv'
<1> SUFFICES ASSUME ReadInv, [PollNext]_<< vars, PollVars >> PROVE PollInv'
  OBVIOUS
<1>1. CASE UNCHANGED << vars, PollVars >>
  <2>1. /\ UNCHANGED << args, blocks, pc, memory, moments, next, raw, data, short >>
        /\ Plan' = Plan /\ Blocks' = Blocks
    BY <1>1 DEF vars, PollVars, Plan, READ_BLOCKS, Blocks
  <2>2. ReadAll(raw') = ReadAll(raw)
    BY <2>1
  <2> QED BY <2>1, <2>2 DEF ReadInv, PollInv, Whole, FromBlocks, OneMoment, Complete
<1> QED BY <1>1, PlanningStep, BeginPollStep, ReadNextBlockStep, DeriveStep, BlockFailsStep,
           MachineChangesStep DEF PollNext

LEMMA ReadInvariant == PollSpec => []ReadInv
<1>1. PlanInv /\ FiniteInv /\ PollInv => ReadInv
  BY DEF ReadInv
<1> QED BY <1>1, PollPlans, PlanInvariant, FiniteInvariant, PollInit0, PollStep, PTL DEF PollSpec

-----------------------------------------------------------------------------
(* What a poll that has ended shows. *)

LEMMA Required ==
  REQUIRED_ADDRESSES = {200, 253, 254, 305, 400, 401, 405, 406, 414, 422, 428, 433, 444,
                        950, 951, 952, 7000, 7001, 7202, 7203, 7204, 7205, 7214, 7216}
  BY DEF REQUIRED_ADDRESSES, READ_REGISTERS, STATUS_REGISTERS, Temperature, Pressure, Plain,
         ALARM_REGISTERS, COMMAND_REGISTER, DEFROST_REGISTER, LEGIONELLA_REGISTER

\* A word is a number of sixteen bits.
LEMMA WordIsNat ==
  ASSUME NEW w \in Words
  PROVE  w \in Nat /\ w >= 0 /\ w <= 65535
  BY DEF Words

\* What "& 0xFFFF" and the sign make of such a number.
LEMMA SixteenBits ==
  ASSUME NEW w \in Nat, w <= 65535
  PROVE  /\ w % 65536 = w /\ (w - 65536) % 65536 = w
         /\ w > 32767 => w \div 32768 = 1
         /\ ~ (w > 32767) => w \div 32768 = 0
<1>1. w = 65536 * 0 + w /\ w - 65536 = 65536 * (0 - 1) + w
  OBVIOUS
<1>2. w % 65536 = w
  BY <1>1
<1>3. (w - 65536) % 65536 = w
  BY <1>1
<1>4. ASSUME w > 32767 PROVE w \div 32768 = 1
  BY <1>4
<1>5. ASSUME ~ (w > 32767) PROVE w \div 32768 = 0
  BY <1>5
<1> QED BY <1>2, <1>3, <1>4, <1>5

\* The words of the two signs, and the sentinels among them: 65535 is none, once signed.
LEMMA SignedWord ==
  ASSUME NEW w \in Words
  PROVE  /\ Signed(w) \in Int /\ Unsigned(Signed(w)) = w /\ Signed(w) = TwosComplement(w)
         /\ Signed(w) \in SENTINELS <=> w \in AbsentWords /\ w # 65535
         /\ w = 65535 => Signed(w) = -1
<1>1. w \in Nat /\ w <= 65535
  BY WordIsNat
<1>2. CASE w > 32767
  <2>1. Signed(w) = w - 65536
    BY <1>2 DEF Signed
  <2>2. Unsigned(Signed(w)) = w
    BY <1>1, <2>1, SixteenBits DEF Unsigned
  <2>3. Signed(w) = TwosComplement(w)
    BY <1>1, <1>2, <2>1, SixteenBits DEF TwosComplement
  <2>4. Signed(w) \in SENTINELS <=> w \in AbsentWords /\ w # 65535
    BY <1>1, <1>2, <2>1 DEF SENTINELS, AbsentWords
  <2>5. Signed(w) \in Int
    BY <1>1, <2>1
  <2>6. w = 65535 => Signed(w) = -1
    BY <1>1, <2>1
  <2> QED BY <2>2, <2>3, <2>4, <2>5, <2>6
<1>3. CASE ~ (w > 32767)
  <2>1. Signed(w) = w
    BY <1>3 DEF Signed
  <2>2. Unsigned(Signed(w)) = w
    BY <1>1, <2>1, SixteenBits DEF Unsigned
  <2>3. Signed(w) = TwosComplement(w)
    BY <1>1, <1>3, <2>1, SixteenBits DEF TwosComplement
  <2>4. Signed(w) \in SENTINELS <=> w \in AbsentWords /\ w # 65535
    BY <1>1, <1>3, <2>1 DEF SENTINELS, AbsentWords
  <2>5. Signed(w) \in Int
    BY <1>1, <2>1
  <2>6. w = 65535 => Signed(w) = -1
    BY <1>1, <1>3
  <2> QED BY <2>2, <2>3, <2>4, <2>5, <2>6
<1> QED BY <1>2, <1>3

LEMMA ShownIsWord ==
  ASSUME ReadInv, NEW m \in moments, NEW a
  PROVE  Shows(m, a) \in Words
<1>1. 0 \in Words
  BY DEF Words
<1>2. m \in Memories
  BY DEF ReadInv, PollInv
<1> QED BY <1>1, <1>2, ReadingAssumption DEF Shows

LEMMA WholePoll ==
  ASSUME ReadInv, Polled
  PROVE  /\ data = ReadAll(raw) /\ moments # {}
         /\ pc = "done" /\ Addresses = REQUIRED_ADDRESSES
         /\ args.max_gap = MAX_GAP /\ args.max_block = MAX_BLOCK
         /\ FromBlocks /\ OneMoment /\ Complete
         /\ \A i \in Blocks : i < next
<1>1. data = ReadAll(raw) /\ next = Cardinality(blocks) + 1 /\ Cardinality(blocks) \in Nat
  BY BlocksListed DEF ReadInv, PollInv, Polled
<1>2. next > 0 /\ Whole /\ \A i \in Blocks : i < next
  BY <1>1 DEF Whole, Blocks
<1>3. pc = "done" /\ args = RealCall /\ memory \in moments /\ FromBlocks /\ OneMoment /\ Complete
  BY <1>2 DEF ReadInv, PollInv
<1> QED BY <1>1, <1>2, <1>3 DEF Addresses, RealCall

LEMMA DataFields ==
  ASSUME ReadInv, Polled
  PROVE  /\ data.registers = [key \in DOMAIN READ_REGISTERS |-> Measured(raw, key)]
         /\ data.alarm_registers = AlarmWords(raw)
         /\ data.active_alarms = decode(AlarmWords(raw))
         /\ data.alarm_count = count(AlarmWords(raw))
         /\ data.command = Word(raw, COMMAND_REGISTER)
         /\ data.delta_t = DeltaT(Measured(raw, "water_inlet"), Measured(raw, "water_outlet"))
         /\ data.thermal_power = ThermalPower(Measured(raw, "flow_rate"), data.delta_t)
<1>1. data = ReadAll(raw)
  BY WholePoll
<1> QED BY <1>1 DEF ReadAll

\* The registers of one block show one moment.
LEMMA ReadTogether ==
  ASSUME ReadInv, Polled, NEW b \in blocks, NEW S \in SUBSET Int, \A a \in S : contains(b, a)
  PROVE  /\ \E m \in moments : \A a \in S : a \in DOMAIN raw => raw[a] = Signed(Shows(m, a))
         /\ ~ short => S \subseteq DOMAIN raw
<1>1. PICK i \in Blocks : Plan[i] = b
  BY BlocksListed DEF ReadInv, Blocks
<1>2. i < next
  BY WholePoll
<1>3. \E m \in moments : \A a \in DOMAIN raw : contains(b, a) => raw[a] = Signed(Shows(m, a))
  BY <1>1, <1>2, WholePoll DEF OneMoment
<1>4. ~ short => \A a \in S : a \in DOMAIN raw
  BY <1>1, <1>2, WholePoll DEF Complete
<1> QED BY <1>3, <1>4

\* A register on its own does.
LEMMA OneRegister ==
  ASSUME ReadInv, Polled, NEW a \in REQUIRED_ADDRESSES
  PROVE  /\ a \in Int /\ (~ short => a \in DOMAIN raw)
         /\ a \in DOMAIN raw => \E m \in moments : raw[a] = Signed(Shows(m, a))
<1>1. a \in Int
  BY Required
<1>2. PICK b \in blocks : contains(b, a)
  BY WholePoll DEF ReadInv, PlanInv, Ends
<1> QED BY <1>1, <1>2, ReadTogether

\* The units are numbers.
LEMMA UnitIsInt ==
  ASSUME NEW key \in DOMAIN READ_REGISTERS
  PROVE  /\ READ_REGISTERS[key].unit \in Int
         /\ (-1) * READ_REGISTERS[key].unit = - READ_REGISTERS[key].unit
<1>1. READ_REGISTERS[key].unit \in {1, 10, 100}
  BY DEF READ_REGISTERS, Temperature, Pressure, Plain
<1> QED BY <1>1

\* A register that has been read means what its word means, but for the word that slips.
LEMMA MeasuredMeans ==
  ASSUME NEW r, NEW key \in DOMAIN READ_REGISTERS, NEW w \in Words,
         READ_REGISTERS[key].address \in DOMAIN r, r[READ_REGISTERS[key].address] = Signed(w)
  PROVE  /\ Slips(key, w) => Measured(r, key) = - READ_REGISTERS[key].unit
         /\ ~ Slips(key, w) => Measured(r, key) = Meaning(key, w)
<1>1. ASSUME Slips(key, w) PROVE Measured(r, key) = - READ_REGISTERS[key].unit
  <2>1. Signed(w) = -1 /\ ~ (Signed(w) \in SENTINELS)
    BY <1>1, SignedWord DEF Slips
  <2>2. Measured(r, key) = r[READ_REGISTERS[key].address] * READ_REGISTERS[key].unit
    BY <2>1 DEF Measured
  <2>3. Measured(r, key) = (-1) * READ_REGISTERS[key].unit
    BY <2>1, <2>2
  <2> QED BY <2>3, UnitIsInt
<1>2. ASSUME ~ Slips(key, w) PROVE Measured(r, key) = Meaning(key, w)
  BY <1>2, SignedWord DEF Measured, Meaning, Slips
<1> QED BY <1>1, <1>2

LEMMA SensorsShow == ReadInv => SensorsShowTheMachine
<1> DEFINE a(key) == READ_REGISTERS[key].address
<1> SUFFICES ASSUME ReadInv, Polled, NEW key \in DOMAIN READ_REGISTERS
             PROVE  \/ \E m \in moments : data.registers[key] = Meaning(key, Shows(m, a(key)))
                    \/ short /\ data.registers[key] = None
                    \/ \E m \in moments : /\ Slips(key, Shows(m, a(key)))
                                          /\ data.registers[key] = - READ_REGISTERS[key].unit
  BY DEF SensorsShowTheMachine, native_value, available
<1>1. a(key) \in REQUIRED_ADDRESSES
  BY DEF REQUIRED_ADDRESSES
<1>2. data.registers[key] = Measured(raw, key)
  BY DataFields
<1>3. CASE a(key) \in DOMAIN raw
  <2>1. PICK m \in moments : raw[a(key)] = Signed(Shows(m, a(key)))
    BY <1>1, <1>3, OneRegister
  <2>2. Shows(m, a(key)) \in Words
    BY ShownIsWord
  <2>3. CASE Slips(key, Shows(m, a(key)))
    <3>1. Measured(raw, key) = - READ_REGISTERS[key].unit
      BY <1>3, <2>1, <2>2, <2>3, MeasuredMeans
    <3> QED BY <1>2, <2>3, <3>1
  <2>4. CASE ~ Slips(key, Shows(m, a(key)))
    <3>1. Measured(raw, key) = Meaning(key, Shows(m, a(key)))
      BY <1>3, <2>1, <2>2, <2>4, MeasuredMeans
    <3> QED BY <1>2, <3>1
  <2> QED BY <2>3, <2>4
<1>4. CASE a(key) \notin DOMAIN raw
  <2>1. short
    BY <1>1, <1>4, OneRegister
  <2> QED BY <1>2, <1>4, <2>1 DEF Measured
<1> QED BY <1>3, <1>4

\* Every sensor shows what its register held at some moment of the poll, or nothing when
\* a reply was short; the absent word 65535 is the one exception, and is shown as -1 of the
\* unit (modbus_client.py:167-169, coordinator.py:247-257, const.py:56-60).
THEOREM SensorsAreTrue == PollSpec => []SensorsShowTheMachine
  BY ReadInvariant, SensorsShow, PTL

\* A legal run of addresses that begins after a gap is in one block: nothing before it is
\* near enough, and no split of it is forced.
LEMMA RunInOneBlock ==
  ASSUME PlanInv, pc = "done", NEW p \in Addresses, NEW l \in Addresses, NEW h \in Addresses,
         l <= h, Legal(l, h), p < l, \A a \in Addresses : a < l => a <= p,
         l - p - 1 > args.max_gap
  PROVE  \E b \in blocks : \A a \in Int : l <= a /\ a <= h => contains(b, a)
<1>1. /\ Addresses \subseteq Nat /\ args.max_gap \in Nat /\ args.max_block \in Nat
      /\ \A b \in blocks : /\ b.start \in Nat /\ end(b) \in Nat /\ b.start <= end(b)
                           /\ b.start \in Addresses /\ end(b) \in Addresses
                           /\ Legal(b.start, end(b))
  BY ArgsTyped DEF PlanInv, BlocksAreLegal, TypeOK, end
<1>2. PICK b \in blocks : contains(b, l)
  BY DEF PlanInv, Ends
<1>3. PICK c \in blocks : contains(c, h)
  BY DEF PlanInv, Ends
<1>4. b.start = l
  <2> SUFFICES ASSUME b.start < l PROVE FALSE
    BY <1>1, <1>2 DEF contains
  <2>1. b.start <= p /\ p < end(b)
    BY <1>1, <1>2 DEF contains
  <2>2. PICK q \in Addresses : p < q /\ q <= end(b) /\ q - p - 1 <= args.max_gap
    BY <1>1, <2>1 DEF Legal
  <2>3. ~ (q < l)
    BY <1>1, <2>2
  <2> QED BY <1>1, <2>2, <2>3
<1>5. b = c
  <2> SUFFICES ASSUME b # c PROVE FALSE
    OBVIOUS
  <2>1. b.start < c.start /\ c.start <= h
    BY <1>1, <1>3, <1>4 DEF PlanInv, Apart, contains
  <2>2. Legal(l, c.start)
    BY <1>1, <2>1, LegalShorter DEF PlanInv
  <2> QED BY <1>4, <2>1, <2>2 DEF PlanInv, EachSplitForced
<1> QED BY <1>1, <1>3, <1>4, <1>5 DEF contains

\* The probes and the flow meter are, and so are the alarm words.
LEMMA ProbesTogether ==
  ASSUME ReadInv, Polled
  PROVE  \E b \in blocks : \A a \in Int : 400 <= a /\ a <= 444 => contains(b, a)
<1>1. /\ PlanInv /\ pc = "done" /\ Addresses = REQUIRED_ADDRESSES
      /\ args.max_gap = 16 /\ args.max_block = 64
  BY WholePoll DEF ReadInv, MAX_GAP, MAX_BLOCK
<1>2. 305 \in Addresses /\ 400 \in Addresses /\ 444 \in Addresses
  BY <1>1, Required
<1>3. \A a \in Addresses : a < 400 => a <= 305
  BY <1>1, Required
<1>4. Legal(400, 444)
  <2>1. ASSUME NEW a \in Addresses, 400 <= a, a < 444
        PROVE  \E q \in Addresses : a < q /\ q <= 444 /\ q - a - 1 <= 16
    <3>1. a \in {400, 401, 405, 406, 414, 422, 428, 433}
      BY <1>1, <2>1, Required
    <3>2. {401, 405, 406, 414, 422, 428, 433, 444} \subseteq Addresses
      BY <1>1, Required
    <3> QED BY <3>1, <3>2
  <2> QED BY <1>1, <2>1 DEF Legal
<1> QED BY <1>1, <1>2, <1>3, <1>4, RunInOneBlock

LEMMA AlarmsTogether ==
  ASSUME ReadInv, Polled
  PROVE  \E b \in blocks : \A a \in Int : 950 <= a /\ a <= 952 => contains(b, a)
<1>1. /\ PlanInv /\ pc = "done" /\ Addresses = REQUIRED_ADDRESSES
      /\ args.max_gap = 16 /\ args.max_block = 64
  BY WholePoll DEF ReadInv, MAX_GAP, MAX_BLOCK
<1>2. 444 \in Addresses /\ 950 \in Addresses /\ 951 \in Addresses /\ 952 \in Addresses
  BY <1>1, Required
<1>3. \A a \in Addresses : a < 950 => a <= 444
  BY <1>1, Required
<1>4. Legal(950, 952)
  <2>1. \A a \in Addresses : 950 <= a /\ a < 952 => a = 950 \/ a = 951
    BY <1>1, Required
  <2> QED BY <1>1, <1>2, <2>1 DEF Legal
<1> QED BY <1>1, <1>2, <1>3, <1>4, RunInOneBlock

\* The three registers as they were at one moment, as far as they were read.
LEMMA OneSight ==
  ASSUME ReadInv, Polled
  PROVE  \E m \in moments :
           /\ 400 \in DOMAIN raw => raw[400] = Signed(Shows(m, 400))
           /\ 401 \in DOMAIN raw => raw[401] = Signed(Shows(m, 401))
           /\ 444 \in DOMAIN raw => raw[444] = Signed(Shows(m, 444))
           /\ ~ short => {400, 401, 444} \subseteq DOMAIN raw
<1>1. PICK b \in blocks : \A a \in Int : 400 <= a /\ a <= 444 => contains(b, a)
  BY ProbesTogether
<1> DEFINE S == {400, 401, 444}
<1>2. S \in SUBSET Int /\ \A a \in S : contains(b, a)
  BY <1>1
<1> HIDE DEF S
<1>3. PICK m \in moments : \A a \in S : a \in DOMAIN raw => raw[a] = Signed(Shows(m, a))
  BY <1>2, ReadTogether
<1>4. ~ short => S \subseteq DOMAIN raw
  BY <1>2, ReadTogether
<1> QED BY <1>3, <1>4 DEF S

LEMMA Derived == ReadInv => DerivedFromOneMoment
<1> SUFFICES ASSUME ReadInv, Polled, data.delta_t # None
             PROVE  \E m \in moments :
                      LET inlet    == Meaning("water_inlet", Shows(m, 400))
                          outlet   == Meaning("water_outlet", Shows(m, 401))
                          flow     == Meaning("flow_rate", Shows(m, 444))
                          noInlet  == Slips("water_inlet", Shows(m, 400))
                          noOutlet == Slips("water_outlet", Shows(m, 401))
                      IN \/ /\ data.delta_t = DeltaT(inlet, outlet)
                            /\ \/ data.thermal_power = ThermalPower(flow, data.delta_t)
                               \/ short /\ data.thermal_power = None
                         \/ /\ noInlet \/ noOutlet
                            /\ data.delta_t = (IF noOutlet THEN -10 ELSE outlet)
                                              - (IF noInlet THEN -10 ELSE inlet)
  BY DEF DerivedFromOneMoment
<1>1. PICK m \in moments :
           /\ 400 \in DOMAIN raw => raw[400] = Signed(Shows(m, 400))
           /\ 401 \in DOMAIN raw => raw[401] = Signed(Shows(m, 401))
           /\ 444 \in DOMAIN raw => raw[444] = Signed(Shows(m, 444))
           /\ ~ short => {400, 401, 444} \subseteq DOMAIN raw
  BY OneSight
<1> DEFINE measured(key) == Measured(raw, key)
           inlet  == Shows(m, 400)
           outlet == Shows(m, 401)
           flow   == Shows(m, 444)
<1>2. /\ {"water_inlet", "water_outlet", "flow_rate"} \subseteq DOMAIN READ_REGISTERS
      /\ READ_REGISTERS["water_inlet"].address = 400 /\ READ_REGISTERS["water_inlet"].unit = 10
      /\ READ_REGISTERS["water_outlet"].address = 401 /\ READ_REGISTERS["water_outlet"].unit = 10
      /\ READ_REGISTERS["flow_rate"].address = 444 /\ READ_REGISTERS["flow_rate"].unit = 100
  BY DEF READ_REGISTERS, Temperature, Plain
<1>3. inlet \in Words /\ outlet \in Words /\ flow \in Words
  BY ShownIsWord
<1>4. /\ data.delta_t = DeltaT(measured("water_inlet"), measured("water_outlet"))
      /\ data.thermal_power = ThermalPower(measured("flow_rate"), data.delta_t)
  BY DataFields
<1>5. /\ measured("water_inlet") # None /\ measured("water_outlet") # None
      /\ data.delta_t = measured("water_outlet") - measured("water_inlet")
  BY <1>4 DEF DeltaT
<1>6. 400 \in DOMAIN raw /\ 401 \in DOMAIN raw
  BY <1>2, <1>5 DEF Measured
<1>7. IF Slips("water_inlet", inlet) THEN measured("water_inlet") = -10
      ELSE measured("water_inlet") = Meaning("water_inlet", inlet)
  <2>1. raw[400] = Signed(inlet)
    BY <1>1, <1>6
  <2> QED BY <1>2, <1>3, <1>6, <2>1, MeasuredMeans
<1>8. IF Slips("water_outlet", outlet) THEN measured("water_outlet") = -10
      ELSE measured("water_outlet") = Meaning("water_outlet", outlet)
  <2>1. raw[401] = Signed(outlet)
    BY <1>1, <1>6
  <2> QED BY <1>2, <1>3, <1>6, <2>1, MeasuredMeans
<1>9. CASE Slips("water_inlet", inlet) \/ Slips("water_outlet", outlet)
  <2>1. data.delta_t = (IF Slips("water_outlet", outlet) THEN -10
                        ELSE Meaning("water_outlet", outlet))
                       - (IF Slips("water_inlet", inlet) THEN -10
                          ELSE Meaning("water_inlet", inlet))
    BY <1>5, <1>7, <1>8
  <2> QED BY <1>9, <2>1
<1>10. CASE ~ (Slips("water_inlet", inlet) \/ Slips("water_outlet", outlet))
  <2>1. data.delta_t = DeltaT(Meaning("water_inlet", inlet), Meaning("water_outlet", outlet))
    BY <1>4, <1>7, <1>8, <1>10
  <2>2. CASE 444 \in DOMAIN raw
    <3>1. raw[444] = Signed(flow)
      BY <1>1, <2>2
    <3>2. CASE ~ Slips("flow_rate", flow)
      <4>1. measured("flow_rate") = Meaning("flow_rate", flow)
        BY <1>2, <1>3, <2>2, <3>1, <3>2, MeasuredMeans
      <4> QED BY <1>4, <2>1, <4>1
    <3>3. CASE Slips("flow_rate", flow)
      <4>1. measured("flow_rate") = -100
        BY <1>2, <1>3, <2>2, <3>1, <3>3, MeasuredMeans
      <4>2. Meaning("flow_rate", flow) = None
        BY <3>3 DEF Slips, Meaning, AbsentWords
      <4>3. data.thermal_power = None
        BY <1>4, <4>1 DEF ThermalPower
      <4>4. data.thermal_power = ThermalPower(Meaning("flow_rate", flow), data.delta_t)
        BY <4>2, <4>3 DEF ThermalPower
      <4> QED BY <2>1, <4>4
    <3> QED BY <3>2, <3>3
  <2>3. CASE 444 \notin DOMAIN raw
    <3>1. short
      BY <1>1, <2>3
    <3>2. data.thermal_power = None
      BY <1>2, <1>4, <2>3 DEF ThermalPower, Measured
    <3> QED BY <2>1, <3>1, <3>2
  <2> QED BY <2>2, <2>3
<1> QED BY <1>9, <1>10

\* What is derived from several registers belongs to one moment of the machine, for every
\* plan the planner makes of the register map; a probe that answers 65535 is counted as
\* -0.1 degrees, no other absent word is counted at all (coordinator.py:276-317).
THEOREM DerivedIsConsistent == PollSpec => []DerivedFromOneMoment
  BY ReadInvariant, Derived, PTL

-----------------------------------------------------------------------------
(* The alarm words. *)

\* What four clear bits leave of a number.
LEMMA FourBits ==
  ASSUME NEW v \in Nat, v % 2 # 1, (v \div 2) % 2 # 1, (v \div 4) % 2 # 1, (v \div 8) % 2 # 1
  PROVE  v = 16 * (v \div 16)
  OBVIOUS

LEMMA Nibble0 ==
  ASSUME NEW w \in Nat, ~ BitSet(w, 0), ~ BitSet(w, 1), ~ BitSet(w, 2), ~ BitSet(w, 3)
  PROVE  w = 16 * (w \div 16)
<1>1. w % 2 # 1 /\ (w \div 2) % 2 # 1 /\ (w \div 4) % 2 # 1 /\ (w \div 8) % 2 # 1
  BY DEF BitSet
<1> QED BY <1>1, FourBits

LEMMA Nibble1 ==
  ASSUME NEW w \in Nat, ~ BitSet(w, 4), ~ BitSet(w, 5), ~ BitSet(w, 6), ~ BitSet(w, 7)
  PROVE  w \div 16 = 16 * (w \div 256)
  BY DEF BitSet

LEMMA Nibble2 ==
  ASSUME NEW w \in Nat, ~ BitSet(w, 8), ~ BitSet(w, 9), ~ BitSet(w, 10), ~ BitSet(w, 11)
  PROVE  w \div 256 = 16 * (w \div 4096)
  BY DEF BitSet

LEMMA Nibble3 ==
  ASSUME NEW w \in Nat, w <= 65535,
         ~ BitSet(w, 12), ~ BitSet(w, 13), ~ BitSet(w, 14), ~ BitSet(w, 15)
  PROVE  w \div 4096 = 0
<1> DEFINE v == w \div 4096
<1>1. (w \div 4096) % 2 # 1 /\ (w \div 8192) % 2 # 1 /\ (w \div 16384) % 2 # 1 /\ (w \div 32768) % 2 # 1
  BY DEF BitSet
<1>2. v \in 0 .. 15
  OBVIOUS
<1>3. v \div 2 = w \div 8192
  OBVIOUS
<1>4. v \div 4 = w \div 16384
  OBVIOUS
<1>5. v \div 8 = w \div 32768
  OBVIOUS
<1>6. v % 2 # 1 /\ (v \div 2) % 2 # 1 /\ (v \div 4) % 2 # 1 /\ (v \div 8) % 2 # 1
  BY <1>1, <1>3, <1>4, <1>5
<1> HIDE DEF v
<1>7. v = 16 * (v \div 16)
  BY <1>2, <1>6, FourBits
<1>8. v = 0
  BY <1>2, <1>7
<1> QED BY <1>8 DEF v

\* A word is zero when none of its bits is set.
LEMMA NoBits ==
  ASSUME NEW w \in Words, \A b \in 0 .. 15 : ~ BitSet(w, b)
  PROVE  w = 0
<1>0. w \in Nat /\ w <= 65535
  BY WordIsNat
<1>1. w = 16 * (w \div 16)
  BY <1>0, Nibble0
<1>2. w \div 16 = 16 * (w \div 256)
  BY <1>0, Nibble1
<1>3. w \div 256 = 16 * (w \div 4096)
  BY <1>0, Nibble2
<1>4. w \div 4096 = 0
  BY <1>0, Nibble3
<1> QED BY <1>1, <1>2, <1>3, <1>4

LEMMA NoBitOfZero == \A b \in 0 .. 15 : ~ BitSet(0, b)
<1>1. /\ ~ BitSet(0, 0) /\ ~ BitSet(0, 1) /\ ~ BitSet(0, 2) /\ ~ BitSet(0, 3)
      /\ ~ BitSet(0, 4) /\ ~ BitSet(0, 5) /\ ~ BitSet(0, 6) /\ ~ BitSet(0, 7)
      /\ ~ BitSet(0, 8) /\ ~ BitSet(0, 9) /\ ~ BitSet(0, 10) /\ ~ BitSet(0, 11)
      /\ ~ BitSet(0, 12) /\ ~ BitSet(0, 13) /\ ~ BitSet(0, 14) /\ ~ BitSet(0, 15)
  BY DEF BitSet
<1> QED BY <1>1

\* The flags of three words, and those of them that have a name.
Flags(words) ==
  {f \in (0 .. 2) \X (0 .. 15) : words[f[1]] >= 0 /\ BitSet(words[f[1]], f[2])}
Named(words) == {f \in Flags(words) : f[2] \in NAMED_BITS[f[1]]}

LEMMA NamedBits == \A i \in 0 .. 2 : NAMED_BITS[i] \subseteq 0 .. 15
  BY DEF NAMED_BITS

LEMMA AlarmsListed ==
  /\ \A a \in ALARMS : /\ a.word \in 0 .. 2 /\ a.bit \in NAMED_BITS[a.word]
                       /\ a = [word |-> a.word, bit |-> a.bit]
  /\ \A i \in 0 .. 2 : \A b \in NAMED_BITS[i] : [word |-> i, bit |-> b] \in ALARMS
<1> HIDE DEF NAMED_BITS
<1>1. ASSUME NEW a \in ALARMS
      PROVE  \E i \in 0 .. 2 : \E b \in NAMED_BITS[i] : a = [word |-> i, bit |-> b]
  BY <1>1 DEF ALARMS
<1>2. \A i \in 0 .. 2 : \A b \in NAMED_BITS[i] : [word |-> i, bit |-> b] \in ALARMS
  BY DEF ALARMS
<1> QED BY <1>1, <1>2

LEMMA FlagsFinite ==
  ASSUME NEW words
  PROVE  IsFiniteSet(Flags(words)) /\ Cardinality(Flags(words)) \in Nat
<1>1. IsFiniteSet(0 .. 2) /\ IsFiniteSet(0 .. 15)
  <2>1. 0 \in Int /\ 2 \in Int /\ 15 \in Int
    OBVIOUS
  <2> QED BY <2>1, FS_Interval
<1>2. IsFiniteSet((0 .. 2) \X (0 .. 15))
  BY <1>1, FS_Product
<1>3. Flags(words) \in SUBSET ((0 .. 2) \X (0 .. 15))
  BY DEF Flags
<1>4. IsFiniteSet(Flags(words))
  BY <1>2, <1>3, FS_Subset
<1> QED BY <1>4, FS_CardinalityType

\* An alarm is active for each named flag.
LEMMA NamedAreActive ==
  ASSUME NEW words
  PROVE  Cardinality(decode(words)) = Cardinality(Named(words))
<1> DEFINE alarm == [f \in Named(words) |-> [word |-> f[1], bit |-> f[2]]]
<1>1. ASSUME NEW f \in Named(words)
      PROVE  /\ f \in (0 .. 2) \X (0 .. 15) /\ f[2] \in NAMED_BITS[f[1]]
             /\ words[f[1]] >= 0 /\ BitSet(words[f[1]], f[2])
  BY DEF Named, Flags
<1>2. ASSUME NEW f \in Named(words)
      PROVE  alarm[f] \in decode(words)
  BY <1>1, AlarmsListed DEF decode, is_active
<1>3. ASSUME NEW f \in Named(words), NEW g \in Named(words), alarm[f] = alarm[g]
      PROVE  f = g
  <2>1. f[1] = g[1] /\ f[2] = g[2]
    BY <1>3
  <2>2. f \in (0 .. 2) \X (0 .. 15) /\ g \in (0 .. 2) \X (0 .. 15)
    BY <1>1
  <2> QED BY <2>1, <2>2
<1>4. ASSUME NEW a \in decode(words)
      PROVE  \E f \in Named(words) : alarm[f] = a
  <2>1. /\ a.word \in 0 .. 2 /\ a.bit \in NAMED_BITS[a.word] /\ a.bit \in 0 .. 15
        /\ a = [word |-> a.word, bit |-> a.bit]
        /\ words[a.word] >= 0 /\ BitSet(words[a.word], a.bit)
    BY AlarmsListed, NamedBits DEF decode, is_active
  <2>2. << a.word, a.bit >> \in Named(words)
    BY <2>1 DEF Named, Flags
  <2>3. alarm[<< a.word, a.bit >>] = a
    BY <2>1, <2>2
  <2> QED BY <2>2, <2>3
<1>5. alarm \in [Named(words) -> decode(words)]
  BY <1>2
<1>6. alarm \in Bijection(Named(words), decode(words))
  BY <1>3, <1>4, <1>5 DEF Bijection, Injection, Surjection, IsInjective
<1>7. IsFiniteSet(Named(words))
  <2>1. Named(words) \in SUBSET Flags(words)
    BY DEF Named
  <2> QED BY <2>1, FlagsFinite, FS_Subset
<1> QED BY <1>6, <1>7, FS_Bijection DEF ExistsBijection

LEMMA AlarmCounts ==
  ASSUME NEW words, \A i \in 0 .. 2 : words[i] \in Words
  PROVE  /\ count(words) > 0 <=> \E i \in 0 .. 2 : words[i] # 0
         /\ count(words) - Cardinality(decode(words)) =
              Cardinality({f \in (0 .. 2) \X (0 .. 15) :
                             f[2] \notin NAMED_BITS[f[1]] /\ BitSet(words[f[1]], f[2])})
<1>1. count(words) = Cardinality(Flags(words))
  BY DEF count, Flags
<1>2. \A f \in (0 .. 2) \X (0 .. 15) : f[1] \in 0 .. 2 /\ f[2] \in 0 .. 15 /\ words[f[1]] >= 0
  <2>1. \A w \in Words : w >= 0
    BY WordIsNat
  <2> QED BY <2>1
<1>3. Flags(words) # {} <=> \E i \in 0 .. 2 : words[i] # 0
  <2>1. ASSUME NEW f \in Flags(words) PROVE words[f[1]] # 0 /\ f[1] \in 0 .. 2
    BY NoBitOfZero DEF Flags
  <2>2. ASSUME NEW i \in 0 .. 2, words[i] # 0 PROVE Flags(words) # {}
    <3>1. PICK b \in 0 .. 15 : BitSet(words[i], b)
      BY <2>2, NoBits
    <3>2. << i, b >> \in Flags(words)
      BY <1>2, <3>1 DEF Flags
    <3> QED BY <3>2
  <2> QED BY <2>1, <2>2
<1>4. count(words) > 0 <=> Flags(words) # {}
  BY <1>1, FlagsFinite, FS_EmptySet
<1>5. Cardinality(Flags(words) \ Named(words)) = Cardinality(Flags(words)) - Cardinality(Named(words))
  <2>1. Flags(words) \cap Named(words) = Named(words)
    BY DEF Named
  <2> QED BY <2>1, FlagsFinite, FS_Difference
<1>6. {f \in (0 .. 2) \X (0 .. 15) : f[2] \notin NAMED_BITS[f[1]] /\ BitSet(words[f[1]], f[2])}
        = Flags(words) \ Named(words)
  BY <1>2 DEF Flags, Named
<1> QED BY <1>1, <1>3, <1>4, <1>5, <1>6, NamedAreActive

\* The word of a register that is decoded by its bits.
LEMMA WordRead ==
  ASSUME ReadInv, Polled, NEW a \in REQUIRED_ADDRESSES
  PROVE  /\ Word(raw, a) \in Words
         /\ \A m \in moments :
              a \in DOMAIN raw /\ raw[a] = Signed(Shows(m, a)) => Word(raw, a) = Shows(m, a)
<1>1. ASSUME NEW m \in moments, a \in DOMAIN raw, raw[a] = Signed(Shows(m, a))
      PROVE  Word(raw, a) = Shows(m, a) /\ Word(raw, a) \in Words
  BY <1>1, ShownIsWord, SignedWord DEF Word
<1>2. CASE a \notin DOMAIN raw
  <2>1. 0 \in Words
    BY DEF Words
  <2> QED BY <1>2, <2>1 DEF Word
<1>3. CASE a \in DOMAIN raw
  BY <1>1, <1>3, OneRegister
<1> QED BY <1>1, <1>2, <1>3

LEMMA AlarmsOfOneMoment ==
  ASSUME ReadInv, Polled
  PROVE  /\ \A i \in 0 .. 2 : data.alarm_registers[i] \in Words
         /\ short \/ \E m \in moments : \A i \in 0 .. 2 :
                       data.alarm_registers[i] = Shows(m, 950 + i)
<1>1. \A i \in 0 .. 2 : data.alarm_registers[i] = Word(raw, 950 + i)
  BY DataFields DEF AlarmWords, ALARM_FIRST_REGISTER
<1>2. \A i \in 0 .. 2 : 950 + i \in {950, 951, 952}
  OBVIOUS
<1> DEFINE S == {950, 951, 952}
<1>3. PICK b \in blocks : \A a \in Int : 950 <= a /\ a <= 952 => contains(b, a)
  BY AlarmsTogether
<1>4. S \in SUBSET Int /\ (\A a \in S : contains(b, a)) /\ S \subseteq REQUIRED_ADDRESSES
  BY <1>3, Required
<1> HIDE DEF S
<1>5. PICK m \in moments : \A a \in S : a \in DOMAIN raw => raw[a] = Signed(Shows(m, a))
  BY <1>4, ReadTogether
<1>6. ~ short => S \subseteq DOMAIN raw
  BY <1>4, ReadTogether
<1>7. /\ \A a \in S : Word(raw, a) \in Words
      /\ ~ short => \A a \in S : Word(raw, a) = Shows(m, a)
  BY <1>4, <1>5, <1>6, WordRead
<1>8. \A i \in 0 .. 2 : 950 + i \in S
  BY <1>2 DEF S
<1> QED BY <1>1, <1>7, <1>8

LEMMA AlarmViews == ReadInv => AlarmViewsAgree
<1> SUFFICES ASSUME ReadInv, Polled
             PROVE  /\ short \/ \E m \in moments : \A i \in 0 .. 2, b \in 0 .. 15 :
                         BitSet(data.alarm_registers[i], b) = BitSet(Shows(m, 950 + i), b)
                    /\ problem_is_on <=> data.alarm_count > 0
                    /\ active_alarms_shown = {a \in ALARMS : alarm_is_on(a)}
                    /\ data.alarm_count - Cardinality(active_alarms_shown) =
                         Cardinality({f \in (0 .. 2) \X (0 .. 15) :
                                        /\ f[2] \notin NAMED_BITS[f[1]]
                                        /\ BitSet(data.alarm_registers[f[1]], f[2])})
  BY DEF AlarmViewsAgree
<1> DEFINE words == data.alarm_registers
<1>1. data.alarm_count = count(words) /\ data.active_alarms = decode(words)
  BY DataFields
<1>2. \A i \in 0 .. 2 : words[i] \in Words
  BY AlarmsOfOneMoment
<1>3. short \/ \E m \in moments : \A i \in 0 .. 2, b \in 0 .. 15 :
        BitSet(words[i], b) = BitSet(Shows(m, 950 + i), b)
  <2>1. short \/ \E m \in moments : \A i \in 0 .. 2 : words[i] = Shows(m, 950 + i)
    BY AlarmsOfOneMoment
  <2> QED BY <2>1
<1> HIDE DEF words
<1>4. problem_is_on <=> data.alarm_count > 0
  <2>1. problem_is_on <=> \E i \in 0 .. 2 : words[i] # 0
    BY DEF problem_is_on, words
  <2> QED BY <1>1, <1>2, <2>1, AlarmCounts
<1>5. active_alarms_shown = decode(words) /\ {a \in ALARMS : alarm_is_on(a)} = decode(words)
  BY <1>1 DEF active_alarms_shown, alarm_is_on, decode, words
<1>6. data.alarm_count - Cardinality(active_alarms_shown) =
        Cardinality({f \in (0 .. 2) \X (0 .. 15) :
                       f[2] \notin NAMED_BITS[f[1]] /\ BitSet(words[f[1]], f[2])})
  <2>1. count(words) - Cardinality(decode(words)) =
          Cardinality({f \in (0 .. 2) \X (0 .. 15) :
                         f[2] \notin NAMED_BITS[f[1]] /\ BitSet(words[f[1]], f[2])})
    BY <1>2, AlarmCounts
  <2> QED BY <1>1, <1>5, <2>1
<1> USE DEF words
<1>7. active_alarms_shown = {a \in ALARMS : alarm_is_on(a)}
  BY <1>5
<1> QED BY <1>3, <1>4, <1>6, <1>7

\* The four views of the alarms agree with each other, and with one moment of the machine
\* (coordinator.py:259-263, binary_sensor.py:76-87, sensor.py:190-204).
THEOREM AlarmsAreConsistent == PollSpec => []AlarmViewsAgree
  BY ReadInvariant, AlarmViews, PTL

-----------------------------------------------------------------------------
(* The mode. *)

LEMMA HalvesCompose ==
  \A s \in LegalStates : /\ REVERSE[s].dhw \in BOOLEAN
                         /\ compose(REVERSE[s].conditioning, REVERSE[s].dhw) = s
<1> SUFFICES ASSUME NEW s \in LegalStates
             PROVE  /\ REVERSE[s].dhw \in BOOLEAN
                    /\ compose(REVERSE[s].conditioning, REVERSE[s].dhw) = s
  OBVIOUS
<1>1. /\ TABLE["off"] = << 0, 4 >> /\ TABLE["cool"] = << 1, 5 >> /\ TABLE["heat"] = << 2, 6 >>
  BY DEF TABLE, Conditionings
<1>2. /\ compose("off", FALSE) = 0 /\ compose("off", TRUE) = 4
      /\ compose("cool", FALSE) = 1 /\ compose("cool", TRUE) = 5
      /\ compose("heat", FALSE) = 2 /\ compose("heat", TRUE) = 6
  BY <1>1 DEF compose
<1>3. /\ REVERSE[0].conditioning = "off"  /\ REVERSE[0].dhw = FALSE
      /\ REVERSE[1].conditioning = "cool" /\ REVERSE[1].dhw = FALSE
      /\ REVERSE[2].conditioning = "heat" /\ REVERSE[2].dhw = FALSE
      /\ REVERSE[4].conditioning = "off"  /\ REVERSE[4].dhw = TRUE
      /\ REVERSE[5].conditioning = "cool" /\ REVERSE[5].dhw = TRUE
      /\ REVERSE[6].conditioning = "heat" /\ REVERSE[6].dhw = TRUE
  BY DEF REVERSE, LegalStates
<1>4. s = 0 \/ s = 1 \/ s = 2 \/ s = 4 \/ s = 5 \/ s = 6
  BY DEF LegalStates
<1>5. REVERSE[s].dhw \in BOOLEAN
  BY <1>3, <1>4
<1>6. compose(REVERSE[s].conditioning, REVERSE[s].dhw) = s
  <2>1. CASE s = 0 \/ s = 4
    BY <1>2, <1>3, <2>1
  <2>2. CASE s = 1 \/ s = 5
    BY <1>2, <1>3, <2>2
  <2>3. CASE s = 2 \/ s = 6
    BY <1>2, <1>3, <2>3
  <2> QED BY <1>4, <2>1, <2>2, <2>3
<1> QED BY <1>5, <1>6

LEMMA OptionIsComposed ==
  ASSUME current_option # None
  PROVE  MACHINE_STATES[compose(hvac_mode, current_operation = "heat_pump")] = current_option
<1>1. /\ RawState # None /\ RawState \in LegalStates
      /\ current_option = MACHINE_STATES[RawState]
  BY DEF current_option
<1>2. Halves = REVERSE[RawState]
  BY <1>1 DEF Halves, decompose
<1>3. (current_operation = "heat_pump") = REVERSE[RawState].dhw
  BY <1>1, <1>2, HalvesCompose DEF current_operation
<1>4. hvac_mode = REVERSE[RawState].conditioning
  BY <1>2 DEF hvac_mode
<1> QED BY <1>1, <1>3, <1>4, HalvesCompose

\* The air conditioning is only shown at work with a call and the pump not stopped.
LEMMA ActionNeedsCall ==
  ASSUME hvac_action \in {"heating", "cooling"}
  PROVE  /\ ambient_call
         /\ data.registers["circulator"] # None => ~ (data.registers["circulator"] <= 0)
<1>1. CASE hvac_mode = "off"
  BY <1>1 DEF hvac_action
<1>2. CASE hvac_mode # "off" /\ ~ ambient_call
  BY <1>2 DEF hvac_action
<1>3. CASE hvac_mode # "off" /\ ambient_call /\ data.defrost_running
  BY <1>3 DEF hvac_action
<1>4. CASE hvac_mode # "off" /\ ambient_call /\ ~ data.defrost_running
  BY <1>4 DEF hvac_action
<1> QED BY <1>1, <1>2, <1>3, <1>4

LEMMA ModeViews == ReadInv => ModeViewsAgree
<1> SUFFICES ASSUME ReadInv, Polled, ~ short, hvac_action \in {"heating", "cooling"}
             PROVE  /\ \E m \in moments : BitSet(Shows(m, COMMAND_REGISTER), 1)
                    /\ \E m \in moments : \/ TwosComplement(Shows(m, 7001)) > 0
                                          \/ Shows(m, 7001) \in AbsentWords
  BY OptionIsComposed DEF ModeViewsAgree
<1>1. COMMAND_REGISTER \in REQUIRED_ADDRESSES /\ 7001 \in REQUIRED_ADDRESSES
  BY Required DEF COMMAND_REGISTER
<1>2. \E m \in moments : BitSet(Shows(m, COMMAND_REGISTER), 1)
  <2>1. BitSet(Word(raw, COMMAND_REGISTER), 1)
    BY ActionNeedsCall, DataFields DEF ambient_call
  <2>2. PICK m \in moments : raw[COMMAND_REGISTER] = Signed(Shows(m, COMMAND_REGISTER))
    BY <1>1, OneRegister
  <2> QED BY <1>1, <2>1, <2>2, OneRegister, WordRead
<1>3. PICK m \in moments : raw[7001] = Signed(Shows(m, 7001))
  BY <1>1, OneRegister
<1>4. /\ "circulator" \in DOMAIN READ_REGISTERS /\ READ_REGISTERS["circulator"].address = 7001
      /\ READ_REGISTERS["circulator"].unit = 10
  BY DEF READ_REGISTERS, Temperature
<1>5. Shows(m, 7001) \in Words
  BY ShownIsWord
<1>6. CASE Shows(m, 7001) \in AbsentWords
  BY <1>2, <1>6
<1>7. CASE Shows(m, 7001) \notin AbsentWords
  <2>1. ~ Slips("circulator", Shows(m, 7001))
    BY <1>7 DEF Slips, AbsentWords
  <2>2. data.registers["circulator"] = TwosComplement(Shows(m, 7001)) * 10
    BY <1>1, <1>3, <1>4, <1>5, <1>7, <2>1, OneRegister, MeasuredMeans, DataFields DEF Meaning
  <2>3. TwosComplement(Shows(m, 7001)) \in Int
    BY <1>5, SignedWord
  <2>4. data.registers["circulator"] # None
    BY <2>2, <2>3, ReadingAssumption
  <2>5. ~ (TwosComplement(Shows(m, 7001)) * 10 <= 0)
    BY <2>2, <2>4, ActionNeedsCall
  <2>6. TwosComplement(Shows(m, 7001)) > 0
    BY <2>3, <2>5
  <2> QED BY <1>2, <2>6
<1> QED BY <1>6, <1>7

\* The select, the climate and the water heater show one state, and the climate is only
\* shown at work when the machine was (climate.py:3-6, 93-95, select.py:3-7).
THEOREM ModesAreConsistent == PollSpec => []ModeViewsAgree
  BY ReadInvariant, ModeViews, PTL
=============================================================================
