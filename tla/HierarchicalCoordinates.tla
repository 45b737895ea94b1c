----------------------- MODULE HierarchicalCoordinates -----------------------
(***************************************************************************)
(* Block addresses (src/world/coordinates/Coords.h and CoordMath.h).       *)
(*                                                                         *)
(* Every axis of an address is a number in a mixed radix: a block in its   *)
(* chunk, a chunk in its group, a group, a section, a region, a sector.    *)
(* The axes never mix, so an axis is what is modelled: a sequence of       *)
(* digits, the block first.  The sector has no radix and is an int64; the  *)
(* radices and the range of int64 are parameters, small in an instance.    *)
(***************************************************************************)
EXTENDS Integers, Sequences

CONSTANTS Radix,   \* blocks per chunk, chunks per group, ..., regions per sector
          IntMin, IntMax,  \* the range of int64
          Sub              \* steps of a position along the edge of a block

ASSUME RadixAssumption == /\ Radix \in Seq(Nat \ {0})
                          /\ Len(Radix) = 5
ASSUME IntAssumption == /\ IntMin \in Int /\ IntMax \in Int
                        /\ IntMin < 0 /\ 0 < IntMax
ASSUME SubAssumption == Sub \in Nat \ {0}

Block == 1
Chunk == 2
Group == 3
Sector == Len(Radix) + 1
Int64 == IntMin..IntMax

\* Blocks along the edge of a group.
GroupEdge == Radix[Block] * Radix[Chunk]

\* requireCanonical: every digit below its radix.
Canonical(a) == /\ a \in [1..Sector -> Int]
                /\ \A i \in 1..(Sector - 1) : a[i] \in 0..(Radix[i] - 1)
                /\ a[Sector] \in Int64
Addresses == {a \in [1..Sector -> Int] : Canonical(a)}

Origin == [i \in 1..Sector |-> 0]

\* What a failed offset leaves: no address.
NoAddress == <<>>

\* propagateDigit, for a carry into digit i: what is left of the carry is added to the
\* digit, and whole radices of both go on.
Digit(base, i, carry) == (base[i] + (carry % Radix[i])) % Radix[i]
\* Faulty variant: the digit is right and its own carry is forgotten.
CarriedOn_DigitOnly(base, i, carry) == carry \div Radix[i]
CarriedOn(base, i, carry) == (carry \div Radix[i]) + ((base[i] + (carry % Radix[i])) \div Radix[i])

\* The carry into every digit: delta into the first one that moves.
Carries(level, base, delta) ==
  LET carry[i \in 1..Sector] == IF i <= level THEN delta ELSE CarriedOn(base, i - 1, carry[i - 1])
  IN carry

\* tryOffsetAxis, tryOffsetChunkAxis, tryOffsetGroupAxis: delta units of the level
\* further on; the digits below the level become zero.  A carry or a sector that does
\* not fit (tryAddI64) leaves no address.
TryOffset(level, base, delta) ==
  LET carry == Carries(level, base, delta)
  IN IF \/ \E i \in (level + 1)..Sector : carry[i] \notin Int64
        \/ base[Sector] + carry[Sector] \notin Int64
     THEN NoAddress
     ELSE [i \in 1..Sector |-> IF i < level THEN 0
                               ELSE IF i = Sector THEN base[i] + carry[i]
                               ELSE Digit(base, i, carry[i])]

\* The order of addresses: the highest digit that differs decides.
Before(a, b) == \E i \in 1..Sector : /\ a[i] < b[i]
                                     /\ \A j \in (i + 1)..Sector : a[j] = b[j]

\* boundedAxisDelta: bisection over the offsets that may lead from origin to
\* position, between a lowest and a highest one.  The result is a set of at most one
\* offset.
BoundedDelta(level, position, origin, maxAbs) ==
  LET Search[between \in (-maxAbs..(maxAbs + 1)) \X ((-maxAbs - 1)..maxAbs)] ==
        LET lo == between[1]
            hi == between[2]
            mid == lo + ((hi - lo) \div 2)
            candidate == TryOffset(level, origin, mid)
        IN IF lo > hi THEN {}
           ELSE IF candidate = position THEN {mid}
           ELSE IF IF candidate = NoAddress THEN mid < 0 ELSE Before(candidate, position)
           THEN Search[<<mid + 1, hi>>]
           ELSE Search[<<lo, mid - 1>>]
  IN Search[<<-maxAbs, maxAbs>>]

\* blockAxisDeltaWithin: in one group the local digits decide.
BlockDelta(position, origin, maxAbs) ==
  IF \A i \in Group..Sector : position[i] = origin[i]
  THEN {position[Chunk] * Radix[Block] + position[Block]
          - (origin[Chunk] * Radix[Block] + origin[Block])} \cap -maxAbs..maxAbs
  ELSE BoundedDelta(Block, position, origin, maxAbs)

\* groupAxisDeltaWithin: in one section the group digit decides.
GroupDelta(position, origin, maxAbs) ==
  IF \A i \in (Group + 1)..Sector : position[i] = origin[i]
  THEN {position[Group] - origin[Group]} \cap -maxAbs..maxAbs
  ELSE BoundedDelta(Group, position, origin, maxAbs)

\* The group of a block, as the address of the first block of the group.
GroupOf(a) == [a EXCEPT ![Block] = 0, ![Chunk] = 0]
ChunkOf(a) == [a EXCEPT ![Block] = 0]
-----------------------------------------------------------------------------
(* For the properties only: no code of the program computes this number.   *)

\* Digits above digit i, and digit i below them.
Above(i, a, higher) == higher * Radix[i] + a[i]

\* The blocks from the origin to an address.
Flat(a) == Above(1, a, Above(2, a, Above(3, a, Above(4, a, Above(5, a, a[Sector])))))

\* The blocks of an axis that have an address.
Addressable == Flat([i \in 1..Sector |-> IF i = Sector THEN IntMin ELSE 0])
                 ..Flat([i \in 1..Sector |-> IF i = Sector THEN IntMax ELSE Radix[i] - 1])
=============================================================================
