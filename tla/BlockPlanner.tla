---------------------------- MODULE BlockPlanner ----------------------------
(***************************************************************************)
(* plan_blocks (registers.py): merges the addresses a poll must fetch into *)
(* contiguous reads.  One action per iteration of the loop.                *)
(***************************************************************************)
EXTENDS Registers, FiniteSets

\* The calls considered: records of the three arguments.
CONSTANT Calls

ASSUME CallsAssumption ==
  Calls \subseteq [addresses : SUBSET Nat, max_gap : Nat, max_block : Nat \ {0}]

VARIABLES
  args,      \* the arguments of the call
  wanted,    \* the addresses the loop has not visited, taken in ascending order
  start,     \* first address of the block being extended
  previous,  \* the last address visited
  blocks,    \* the blocks emitted; the list's order is that of their addresses
  pc

vars == << args, wanted, start, previous, blocks, pc >>

Init == /\ args \in Calls
        /\ wanted = args.addresses
        /\ start = 0 /\ previous = 0
        /\ blocks = {}
        /\ pc = "begin"

\* The next address of the sorted iteration.
IsNext(address) == address \in wanted /\ \A a \in wanted : address <= a

\* "if not wanted: return ()"
NothingWanted == /\ pc = "begin" /\ wanted = {}
                 /\ pc' = "done"
                 /\ UNCHANGED << args, wanted, start, previous, blocks >>

FirstAddress(address) == /\ pc = "begin" /\ IsNext(address)
                         /\ start' = address /\ previous' = address
                         /\ wanted' = wanted \ {address}
                         /\ pc' = "loop"
                         /\ UNCHANGED << args, blocks >>

\* Mutant: the length of the block leaves out its last register.
MustSplit_length_off_by_one(address) ==
  address - previous - 1 > args.max_gap \/ address - start > args.max_block

\* Mutant: the gap counts both of its ends.
MustSplit_gap_too_strict(address) ==
  address - previous > args.max_gap \/ address - start + 1 > args.max_block

MustSplit(address) ==
  address - previous - 1 > args.max_gap \/ address - start + 1 > args.max_block

NextAddress(address) ==
  /\ pc = "loop" /\ IsNext(address)
  /\ IF MustSplit(address)
       THEN blocks' = blocks \cup {ReadBlock(start, previous - start + 1)} /\ start' = address
       ELSE UNCHANGED << blocks, start >>
  /\ previous' = address
  /\ wanted' = wanted \ {address}
  /\ UNCHANGED << args, pc >>

\* Mutant: the block still open when the loop ends is forgotten.
LastBlock_forgotten ==
  /\ pc = "loop" /\ wanted = {}
  /\ pc' = "done"
  /\ UNCHANGED << args, wanted, start, previous, blocks >>

LastBlock == /\ pc = "loop" /\ wanted = {}
             /\ blocks' = blocks \cup {ReadBlock(start, previous - start + 1)}
             /\ pc' = "done"
             /\ UNCHANGED << args, wanted, start, previous >>

Next == \/ NothingWanted \/ LastBlock
        \/ \E address \in wanted : FirstAddress(address) \/ NextAddress(address)

Spec == Init /\ [][Next]_vars

-----------------------------------------------------------------------------
Addresses == args.addresses

\* A run of registers that one transaction may fetch.
Legal(low, high) ==
  /\ high - low + 1 <= args.max_block
  /\ \A a \in Addresses : low <= a /\ a < high =>
       \E b \in Addresses : a < b /\ b <= high /\ b - a - 1 <= args.max_gap

\* Types, for the proofs and the run.
TypeOK == /\ args \in Calls
          /\ wanted \subseteq Addresses
          /\ start \in Nat /\ previous \in Nat
          /\ blocks \subseteq [start : Nat, count : Nat \ {0}]
          /\ pc \in {"begin", "loop", "done"}

\* Every address asked for is fetched by exactly one block (registers.py:118-120:
\* one left outside every block is a sensor that is always unavailable).
EachAddressOnce ==
  pc = "done" => \A a \in Addresses :
    /\ \E b \in blocks : contains(b, a)
    /\ \A b, c \in blocks : contains(b, a) /\ contains(c, a) => b = c

\* No block breaks the limits it was planned under, and none reads past the
\* addresses asked for (registers.py:113-114).
BlocksAreLegal ==
  \A b \in blocks : /\ b.start \in Addresses /\ end(b) \in Addresses
                    /\ Legal(b.start, end(b))

\* Two blocks are separate only where one transaction could not fetch the starts of
\* both.
EachSplitForced ==
  \A b, c \in blocks : b.start < c.start => ~ Legal(b.start, c.start)

\* The reference: a plan is a set of first addresses such that every address can be
\* reached from one of them in a legal block.
IsPlan(starts) == \A a \in Addresses : \E s \in starts : s <= a /\ Legal(s, a)

\* No set of legal reads of the same addresses is smaller than the blocks.
NoneSmaller ==
  \A starts \in SUBSET Addresses : IsPlan(starts) => Cardinality(blocks) <= Cardinality(starts)

\* The plan needs as few transactions as any (registers.py:111 "into as few
\* transactions as possible").
FewestBlocks == pc = "done" => NoneSmaller
=============================================================================
