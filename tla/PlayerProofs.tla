---------------------------- MODULE PlayerProofs ----------------------------
(***************************************************************************)
(* What the player sees, does and points at, for every world:              *)
(*   - the arithmetic of the addresses is exact: an offset is a sum, the   *)
(*     order of digits is the order of the numbers, and the bisection of a *)
(*     distance finds it (HierarchicalCoordinates);                        *)
(*   - camera, bridge, scene and outline agree on where everything is, and *)
(*     the origin of the scene is sticky (PlayerView);                     *)
(*   - what the game believes of the keyboard once it has polled every     *)
(*     event is so, whatever the player, the repeats of the system and the *)
(*     focus of the window did in between (PlayerInteraction);             *)
(*   - the walk of the ray ends, and picks the first block that the line   *)
(*     of sight goes through, so that a click changes what is aimed at     *)
(*     (PlayerInteraction).                                                *)
(***************************************************************************)
EXTENDS PlayerView, PlayerInteraction, WellFoundedInduction, TLAPS

-----------------------------------------------------------------------------
(* The arithmetic of the addresses.                                        *)

\* The constants of an address, with the sector as the sixth digit.
LEMMA RadixFacts ==
  /\ Sector = 6
  /\ \A i \in 1..5 : Radix[i] \in Nat \ {0}
  /\ IntMin \in Int /\ IntMax \in Int /\ IntMin < 0 /\ 0 < IntMax
<1>1. Radix \in Seq(Nat \ {0}) /\ Len(Radix) = 5
  BY RadixAssumption
<1>2. \A i \in 1..5 : Radix[i] \in Nat \ {0}
  BY <1>1
<1>3. Sector = 6
  BY <1>1 DEF Sector
<1> QED
  BY <1>2, <1>3, IntAssumption

LEMMA DivMod ==
  ASSUME NEW c \in Int, NEW r \in Nat \ {0}
  PROVE  c \div r \in Int /\ c % r \in 0..(r - 1) /\ c = r * (c \div r) + (c % r)
  OBVIOUS

\* Quotient and remainder are unique.
LEMMA DivUnique ==
  ASSUME NEW r \in Nat \ {0}, NEW q \in Int, NEW m \in 0..(r - 1)
  PROVE  (q * r + m) \div r = q /\ (q * r + m) % r = m
  OBVIOUS

LEMMA MulLess ==
  ASSUME NEW r \in Nat \ {0}, NEW x \in Int, NEW y \in Int, x < y
  PROVE  x * r + r <= y * r
  OBVIOUS

\* propagateDigit loses nothing: digit and carry together are base and carry.
LEMMA DigitStep ==
  ASSUME NEW r \in Nat \ {0}, NEW b \in 0..(r - 1), NEW c \in Int
  PROVE  LET d == (b + (c % r)) % r
             on == (c \div r) + ((b + (c % r)) \div r)
         IN /\ d \in 0..(r - 1) /\ on \in Int
            /\ on * r + d = b + c
            /\ c >= 0 => on \in 0..c
            /\ c < 0 => on \in c..0
<1> DEFINE q == c \div r
           m == c % r
           d == (b + m) % r
           e == (b + m) \div r
<1>1. q \in Int /\ m \in 0..(r - 1) /\ c = r * q + m
  BY DivMod
<1>2. d \in 0..(r - 1) /\ e \in Int /\ b + m = r * e + d
  <2>1. b + m \in Int
    BY <1>1
  <2> QED
    BY <2>1, DivMod
<1> HIDE DEF q, m, d, e
<1>3. (q + e) * r + d = b + c
  BY <1>1, <1>2
<1>4. ASSUME c >= 0 PROVE q + e \in 0..c
  <2>1. q + e >= 0
    BY <1>1, <1>2, <1>3, <1>4, MulLess
  <2>2. q + e <= c
    <3>1. SUFFICES ASSUME q + e > c PROVE FALSE
      BY <1>1, <1>2
    <3>2. c * r + r <= (q + e) * r
      BY <1>1, <1>2, <3>1, MulLess
    <3>3. c * r + r <= b + c
      BY <1>1, <1>2, <1>3, <3>2
    <3>4. c * r >= c
      BY <1>4
    <3> QED
      BY <3>3, <3>4
  <2> QED
    BY <1>1, <1>2, <2>1, <2>2
<1>5. ASSUME c < 0 PROVE q + e \in c..0
  <2>1. q + e <= 0
    <3>1. SUFFICES ASSUME q + e > 0 PROVE FALSE
      BY <1>1, <1>2
    <3>2. 0 * r + r <= (q + e) * r
      BY <1>1, <1>2, <3>1, MulLess
    <3> QED
      BY <1>1, <1>2, <1>3, <1>5, <3>2
  <2>2. q + e >= c
    <3>1. SUFFICES ASSUME q + e < c PROVE FALSE
      BY <1>1, <1>2
    <3>2. (q + e) * r + r <= c * r
      BY <1>1, <1>2, <3>1, MulLess
    <3>3. b + c - d + r <= c * r
      BY <1>1, <1>2, <1>3, <3>2
    <3>4. c * r <= c
      BY <1>5
    <3> QED
      BY <1>2, <3>3, <3>4
  <2> QED
    BY <1>1, <1>2, <2>1, <2>2
<1> QED
  BY <1>1, <1>2, <1>3, <1>4, <1>5 DEF q, m, d, e
-----------------------------------------------------------------------------
Digits(a) == /\ a \in [1..6 -> Int]
             /\ \A i \in 1..5 : a[i] \in 0..(Radix[i] - 1)
F5(a) == Above(5, a, a[6])
F4(a) == Above(4, a, F5(a))
F3(a) == Above(3, a, F4(a))
F2(a) == Above(2, a, F3(a))

\* A canonical address is a tuple of digits with a sector in the range of int64.
LEMMA CanonicalIs ==
  ASSUME NEW a
  PROVE  Canonical(a) <=> Digits(a) /\ a[6] \in Int64
<1>1. 1..(Sector - 1) = 1..5 /\ 1..Sector = 1..6 /\ Sector = 6
  BY RadixFacts
<1> QED
  BY <1>1 DEF Canonical, Digits

LEMMA FlatIs ==
  ASSUME NEW a
  PROVE  Flat(a) = Above(1, a, F2(a))
  BY RadixFacts DEF Flat, F2, F3, F4, F5

LEMMA AboveInt ==
  ASSUME NEW a, Digits(a), NEW i \in 1..5, NEW h \in Int
  PROVE  Above(i, a, h) \in Int
<1>1. Radix[i] \in Nat \ {0} /\ a[i] \in Int
  BY RadixFacts DEF Digits
<1>2. h * Radix[i] \in Int
  BY <1>1
<1> QED
  BY <1>1, <1>2 DEF Above

\* The number of an address, and of each of its upper parts, is an integer.
LEMMA PartsInt ==
  ASSUME NEW a, Digits(a)
  PROVE  F5(a) \in Int /\ F4(a) \in Int /\ F3(a) \in Int /\ F2(a) \in Int /\ Flat(a) \in Int
<1>0. a[6] \in Int
  BY DEF Digits
<1>1. F5(a) \in Int
  BY <1>0, AboveInt DEF F5
<1>2. F4(a) \in Int
  BY <1>1, AboveInt DEF F4
<1>3. F3(a) \in Int
  BY <1>2, AboveInt DEF F3
<1>4. F2(a) \in Int
  BY <1>3, AboveInt DEF F2
<1>5. Flat(a) \in Int
  BY <1>4, AboveInt, FlatIs
<1> QED
  BY <1>1, <1>2, <1>3, <1>4, <1>5

\* One digit of an offset.
LEMMA CarryStep ==
  ASSUME NEW i \in 1..5, NEW base, Digits(base), NEW c \in Int64
  PROVE  /\ Digit(base, i, c) \in 0..(Radix[i] - 1)
         /\ CarriedOn(base, i, c) \in Int64
         /\ CarriedOn(base, i, c) * Radix[i] + Digit(base, i, c) = base[i] + c
<1>1. PICK r, b : r = Radix[i] /\ b = base[i]
  OBVIOUS
<1>2. r \in Nat \ {0} /\ b \in 0..(r - 1) /\ c \in Int
  BY <1>1, RadixFacts DEF Digits, Int64
<1>3. PICK d, on : d = (b + (c % r)) % r /\ on = (c \div r) + ((b + (c % r)) \div r)
  OBVIOUS
<1>4. /\ d \in 0..(r - 1) /\ on \in Int
      /\ on * r + d = b + c
      /\ c >= 0 => on \in 0..c
      /\ c < 0 => on \in c..0
  BY <1>2, <1>3, DigitStep
<1>5. on \in Int64
  BY <1>2, <1>4, RadixFacts DEF Int64
<1>6. d = Digit(base, i, c) /\ on = CarriedOn(base, i, c)
  BY <1>1, <1>3 DEF Digit, CarriedOn
<1> QED
  BY <1>1, <1>4, <1>5, <1>6

\* What a digit and the carry it sends on are worth.
LEMMA AboveAdds ==
  ASSUME NEW i \in 1..5, NEW base, Digits(base), NEW c \in Int64, NEW out, NEW h \in Int, NEW g \in Int,
         out[i] = Digit(base, i, c), g = h + CarriedOn(base, i, c)
  PROVE  Above(i, out, g) = Above(i, base, h) + c
<1>1. PICK r, b, d, on : /\ r = Radix[i] /\ b = base[i]
                         /\ d = Digit(base, i, c) /\ on = CarriedOn(base, i, c)
  OBVIOUS
<1>2. r \in Nat \ {0} /\ b \in Int /\ c \in Int /\ d \in Int /\ on \in Int /\ on * r + d = b + c
  <2>1. c \in Int /\ r \in Nat \ {0}
    BY <1>1, RadixFacts DEF Int64
  <2>2. b \in 0..(r - 1)
    BY <1>1, <2>1 DEF Digits
  <2>3. d \in 0..(r - 1) /\ on \in Int64 /\ on * r + d = b + c
    BY <1>1, CarryStep
  <2>4. on \in Int
    BY <2>3, RadixFacts DEF Int64
  <2> QED
    BY <2>1, <2>2, <2>3, <2>4
<1>3. (h + on) * r = h * r + on * r
  BY <1>2
<1>4. h * r \in Int /\ on * r \in Int
  BY <1>2
<1>5. (h + on) * r + d = (h * r + b) + c
  BY <1>2, <1>3, <1>4
<1> QED
  BY <1>1, <1>5 DEF Above

\* The digits from the group on.
LEMMA TailAdds ==
  ASSUME NEW base, Digits(base), NEW c \in Int64, NEW c4, NEW c5, NEW c6, NEW out,
         c4 = CarriedOn(base, 3, c), c5 = CarriedOn(base, 4, c4), c6 = CarriedOn(base, 5, c5),
         out[3] = Digit(base, 3, c), out[4] = Digit(base, 4, c4), out[5] = Digit(base, 5, c5),
         out[6] = base[6] + c6
  PROVE  /\ c4 \in Int64 /\ c5 \in Int64 /\ c6 \in Int64
         /\ \A i \in 3..5 : out[i] \in 0..(Radix[i] - 1)
         /\ out[6] \in Int
         /\ F3(out) = F3(base) + c
<1>1. c4 \in Int64 /\ out[3] \in 0..(Radix[3] - 1)
  BY CarryStep
<1>2. c5 \in Int64 /\ out[4] \in 0..(Radix[4] - 1)
  BY <1>1, CarryStep
<1>3. c6 \in Int64 /\ out[5] \in 0..(Radix[5] - 1)
  BY <1>2, CarryStep
<1>4. base[6] \in Int /\ c4 \in Int /\ c5 \in Int /\ c6 \in Int /\ c \in Int
  BY <1>1, <1>2, <1>3, RadixFacts DEF Digits, Int64
<1>5. F5(out) = F5(base) + c5
  BY <1>2, <1>4, AboveAdds DEF F5
<1>6. F4(out) = F4(base) + c4
  BY <1>1, <1>4, <1>5, PartsInt, AboveAdds DEF F4
<1>7. F3(out) = F3(base) + c
  BY <1>4, <1>6, PartsInt, AboveAdds DEF F3
<1>8. \A i \in 3..5 : i = 3 \/ i = 4 \/ i = 5
  OBVIOUS
<1> QED
  BY <1>1, <1>2, <1>3, <1>4, <1>7, <1>8

\* The function that Carries defines by recursion exists as soon as some function
\* satisfies its equation, and there is only one that does.
LEMMA CarriesIs ==
  ASSUME NEW level \in Nat \ {0}, NEW base, NEW delta, NEW f,
         f = [i \in 1..6 |-> IF i <= level THEN delta ELSE CarriedOn(base, i - 1, f[i - 1])]
  PROVE  Carries(level, base, delta) = f
<1>1. PICK c : c = Carries(level, base, delta)
  OBVIOUS
<1>2. Sector = 6
  BY RadixFacts
<1>3. c = CHOOSE g : g = [i \in 1..6 |-> IF i <= level THEN delta ELSE CarriedOn(base, i - 1, g[i - 1])]
  BY <1>1, <1>2 DEF Carries
<1>4. c = [i \in 1..6 |-> IF i <= level THEN delta ELSE CarriedOn(base, i - 1, c[i - 1])]
  BY <1>3
<1>5. /\ \A i \in 1..6 : c[i] = IF i <= level THEN delta ELSE CarriedOn(base, i - 1, c[i - 1])
      /\ \A i \in 1..6 : f[i] = IF i <= level THEN delta ELSE CarriedOn(base, i - 1, f[i - 1])
  BY <1>4
<1>6. c[1] = f[1]
  <2>1. 1 \in 1..6 /\ 1 <= level
    OBVIOUS
  <2> QED
    BY <1>5, <2>1
<1>7. ASSUME NEW i \in 1..5, c[i] = f[i] PROVE c[i + 1] = f[i + 1]
  <2>1. i + 1 \in 1..6 /\ (i + 1) - 1 = i
    OBVIOUS
  <2> QED
    BY <1>5, <1>7, <2>1
<1>8. c[2] = f[2] /\ c[3] = f[3] /\ c[4] = f[4] /\ c[5] = f[5] /\ c[6] = f[6]
  BY <1>6, <1>7
<1>9. \A i \in 1..6 : i = 1 \/ i = 2 \/ i = 3 \/ i = 4 \/ i = 5 \/ i = 6
  OBVIOUS
<1>10. \A i \in 1..6 : c[i] = f[i]
  BY <1>6, <1>8, <1>9
<1>11. PICK C, F : /\ C = [i \in 1..6 |-> IF i <= level THEN delta ELSE CarriedOn(base, i - 1, c[i - 1])]
                   /\ F = [i \in 1..6 |-> IF i <= level THEN delta ELSE CarriedOn(base, i - 1, f[i - 1])]
  OBVIOUS
<1>12. C = [i \in 1..6 |-> C[i]] /\ F = [i \in 1..6 |-> F[i]]
  BY <1>11
<1>13. c = C /\ f = F
  BY <1>4, <1>11
<1> QED
  BY <1>1, <1>10, <1>12, <1>13

\* TryOffset on a block axis: the sum, or none when its sector does not fit.
LEMMA OffsetBlock ==
  ASSUME NEW base, Digits(base), NEW delta \in Int64
  PROVE  \E out : /\ Digits(out) /\ Flat(out) = Flat(base) + delta
                  /\ TryOffset(Block, base, delta) = IF out[6] \in Int64 THEN out ELSE NoAddress
<1>1. PICK c2, c3, c4, c5, c6 :
        /\ c2 = CarriedOn(base, 1, delta) /\ c3 = CarriedOn(base, 2, c2)
        /\ c4 = CarriedOn(base, 3, c3) /\ c5 = CarriedOn(base, 4, c4) /\ c6 = CarriedOn(base, 5, c5)
  OBVIOUS
<1>2. PICK carry : carry = <<delta, c2, c3, c4, c5, c6>>
  OBVIOUS
<1>3. Carries(Block, base, delta) = carry
  <2>1. \A i \in 1..6 : i = 1 \/ i = 2 \/ i = 3 \/ i = 4 \/ i = 5 \/ i = 6
    OBVIOUS
  <2>2. \A i \in 1..6 : carry[i] = IF i <= 1 THEN delta ELSE CarriedOn(base, i - 1, carry[i - 1])
    BY <1>1, <1>2, <2>1
  <2>3. carry = [i \in 1..6 |-> carry[i]]
    BY <1>2
  <2>4. carry = [i \in 1..6 |-> IF i <= 1 THEN delta ELSE CarriedOn(base, i - 1, carry[i - 1])]
    BY <2>2, <2>3
  <2> QED
    BY <2>4, CarriesIs DEF Block
<1>4. PICK out : out = [i \in 1..6 |-> IF i = 6 THEN base[i] + carry[i] ELSE Digit(base, i, carry[i])]
  OBVIOUS
<1>5. /\ out[1] = Digit(base, 1, delta) /\ out[2] = Digit(base, 2, c2) /\ out[3] = Digit(base, 3, c3)
      /\ out[4] = Digit(base, 4, c4) /\ out[5] = Digit(base, 5, c5) /\ out[6] = base[6] + c6
  BY <1>2, <1>4
<1>6. c2 \in Int64 /\ out[1] \in 0..(Radix[1] - 1)
  BY <1>1, <1>5, CarryStep
<1>7. c3 \in Int64 /\ out[2] \in 0..(Radix[2] - 1)
  BY <1>1, <1>5, <1>6, CarryStep
<1>8. /\ c4 \in Int64 /\ c5 \in Int64 /\ c6 \in Int64
      /\ \A i \in 3..5 : out[i] \in 0..(Radix[i] - 1)
      /\ out[6] \in Int
      /\ F3(out) = F3(base) + c3
  BY <1>1, <1>5, <1>7, TailAdds
<1>9. Digits(out)
  <2>1. \A i \in 1..5 : i = 1 \/ i = 2 \/ i \in 3..5
    OBVIOUS
  <2>2. \A i \in 1..5 : out[i] \in 0..(Radix[i] - 1)
    BY <1>6, <1>7, <1>8, <2>1
  <2>3. \A i \in 1..6 : out[i] \in Int
    <3>1. \A i \in 1..6 : i \in 1..5 \/ i = 6
      OBVIOUS
    <3>2. \A i \in 1..5 : out[i] \in Int
      BY <2>2, RadixFacts
    <3> QED
      BY <1>8, <3>1, <3>2
  <2>4. out \in [1..6 -> Int]
    BY <1>4, <2>3
  <2> QED
    BY <2>2, <2>4 DEF Digits
<1>10. Flat(out) = Flat(base) + delta
  <2>1. c2 \in Int /\ c3 \in Int
    BY <1>6, <1>7, RadixFacts DEF Int64
  <2>2. F2(out) = F2(base) + c2
    BY <1>1, <1>5, <1>6, <1>8, <2>1, PartsInt, AboveAdds DEF F2
  <2> QED
    BY <1>1, <1>5, <2>1, <2>2, PartsInt, AboveAdds, FlatIs
<1>11. TryOffset(Block, base, delta) = IF out[6] \in Int64 THEN out ELSE NoAddress
  <2>1. \A i \in 2..6 : carry[i] \in Int64
    <3>1. \A i \in 2..6 : i = 2 \/ i = 3 \/ i = 4 \/ i = 5 \/ i = 6
      OBVIOUS
    <3> QED
      BY <1>2, <1>6, <1>7, <1>8, <3>1
  <2>2. out = [i \in 1..6 |-> IF i < 1 THEN 0 ELSE IF i = 6 THEN base[i] + carry[i]
                              ELSE Digit(base, i, carry[i])]
    <3>1. \A i \in 1..6 : ~(i < 1)
      OBVIOUS
    <3> QED
      BY <1>4, <3>1
  <2>3. out[6] = base[6] + carry[6]
    BY <1>4
  <2>4. Sector = 6
    BY RadixFacts
  <2>5. TryOffset(1, base, delta) =
          IF (\E i \in (1 + 1)..6 : carry[i] \notin Int64) \/ base[6] + carry[6] \notin Int64
          THEN NoAddress
          ELSE [i \in 1..6 |-> IF i < 1 THEN 0 ELSE IF i = 6 THEN base[i] + carry[i]
                               ELSE Digit(base, i, carry[i])]
    BY <1>3, <2>4 DEF TryOffset, Block
  <2> QED
    BY <2>1, <2>2, <2>3, <2>5 DEF Block
<1> QED
  BY <1>9, <1>10, <1>11

\* The first block of a group.
LEMMA GroupOfIs ==
  ASSUME NEW a, Digits(a)
  PROVE  /\ Digits(GroupOf(a)) /\ GroupOf(a)[1] = 0 /\ GroupOf(a)[2] = 0
         /\ \A i \in 3..6 : GroupOf(a)[i] = a[i]
         /\ F3(GroupOf(a)) = F3(a)
<1>1. PICK g : g = GroupOf(a)
  OBVIOUS
<1>2. g = [[a EXCEPT ![1] = 0] EXCEPT ![2] = 0]
  BY <1>1 DEF GroupOf, Block, Chunk
<1>3. a \in [1..6 -> Int]
  BY DEF Digits
<1>4. g \in [1..6 -> Int] /\ g[1] = 0 /\ g[2] = 0 /\ \A i \in 3..6 : g[i] = a[i]
  BY <1>2, <1>3
<1>5. \A i \in 1..5 : g[i] \in 0..(Radix[i] - 1)
  <2>1. \A i \in 1..5 : i = 1 \/ i = 2 \/ i \in 3..6
    OBVIOUS
  <2>2. 0 \in 0..(Radix[1] - 1) /\ 0 \in 0..(Radix[2] - 1)
    BY RadixFacts
  <2> QED
    BY <1>4, <2>1, <2>2 DEF Digits
<1>6. F3(g) = F3(a)
  BY <1>4 DEF F3, F4, F5, Above
<1> QED
  BY <1>1, <1>4, <1>5, <1>6 DEF Digits

LEMMA GroupEdgeIs == GroupEdge \in Nat \ {0} /\ GroupEdge = Radix[1] * Radix[2]
<1>1. Radix[1] \in Nat \ {0} /\ Radix[2] \in Nat \ {0}
  BY RadixFacts
<1>2. \A x, y \in Nat \ {0} : x * y \in Nat \ {0}
  OBVIOUS
<1> QED
  BY <1>1, <1>2 DEF GroupEdge, Block, Chunk

\* An address by its group and its place in it.
LEMMA FlatByGroup ==
  ASSUME NEW a, Digits(a)
  PROVE  /\ Flat(a) = F3(a) * GroupEdge + (a[2] * Radix[1] + a[1])
         /\ a[2] * Radix[1] + a[1] \in 0..(GroupEdge - 1)
<1>1. PICK x, r, s, p, q : x = F3(a) /\ r = Radix[1] /\ s = Radix[2] /\ p = a[1] /\ q = a[2]
  OBVIOUS
<1>2. r \in Nat \ {0} /\ s \in Nat \ {0}
  BY <1>1, RadixFacts
<1>3. x \in Int /\ p \in 0..(r - 1) /\ q \in 0..(s - 1)
  BY <1>1, PartsInt DEF Digits
<1>4. Flat(a) = (x * s + q) * r + p
  BY <1>1, FlatIs DEF F2, Above
<1>5. (x * s + q) * r = x * (r * s) + q * r
  BY <1>2, <1>3
<1>6. q * r + r <= s * r
  BY <1>2, <1>3, MulLess
<1>7. q * r \in Nat /\ s * r = r * s /\ r * s \in Nat /\ x * (r * s) \in Int
  BY <1>2, <1>3
<1>8. q * r + p \in 0..(r * s - 1)
  BY <1>2, <1>3, <1>6, <1>7
<1>9. (x * s + q) * r + p = x * (r * s) + (q * r + p)
  BY <1>3, <1>5, <1>7
<1> QED
  BY <1>1, <1>4, <1>8, <1>9, GroupEdgeIs

LEMMA GroupFlat ==
  ASSUME NEW a, Digits(a), a[1] = 0, a[2] = 0
  PROVE  Flat(a) = F3(a) * GroupEdge
<1>1. 0 * Radix[1] + 0 = 0
  BY RadixFacts
<1>2. F3(a) * GroupEdge \in Int
  BY PartsInt, GroupEdgeIs
<1> QED
  BY <1>1, <1>2, FlatByGroup

\* The same on a group axis: whole groups from the beginning of the group.
LEMMA OffsetGroup ==
  ASSUME NEW base, Digits(base), NEW delta \in Int64
  PROVE  \E out : /\ Digits(out) /\ out[1] = 0 /\ out[2] = 0
                  /\ Flat(out) = Flat(GroupOf(base)) + delta * GroupEdge
                  /\ TryOffset(Group, base, delta) = IF out[6] \in Int64 THEN out ELSE NoAddress
<1>1. PICK c4, c5, c6 :
        c4 = CarriedOn(base, 3, delta) /\ c5 = CarriedOn(base, 4, c4) /\ c6 = CarriedOn(base, 5, c5)
  OBVIOUS
<1>2. PICK carry : carry = <<delta, delta, delta, c4, c5, c6>>
  OBVIOUS
<1>3. Carries(Group, base, delta) = carry
  <2>1. \A i \in 1..6 : i = 1 \/ i = 2 \/ i = 3 \/ i = 4 \/ i = 5 \/ i = 6
    OBVIOUS
  <2>2. \A i \in 1..6 : carry[i] = IF i <= 3 THEN delta ELSE CarriedOn(base, i - 1, carry[i - 1])
    BY <1>1, <1>2, <2>1
  <2>3. carry = [i \in 1..6 |-> carry[i]]
    BY <1>2
  <2>4. carry = [i \in 1..6 |-> IF i <= 3 THEN delta ELSE CarriedOn(base, i - 1, carry[i - 1])]
    BY <2>2, <2>3
  <2> QED
    BY <2>4, CarriesIs DEF Group
<1>4. PICK out : out = [i \in 1..6 |-> IF i < 3 THEN 0 ELSE IF i = 6 THEN base[i] + carry[i]
                                      ELSE Digit(base, i, carry[i])]
  OBVIOUS
<1>5. /\ out[1] = 0 /\ out[2] = 0 /\ out[3] = Digit(base, 3, delta)
      /\ out[4] = Digit(base, 4, c4) /\ out[5] = Digit(base, 5, c5) /\ out[6] = base[6] + c6
  BY <1>2, <1>4
<1>8. /\ c4 \in Int64 /\ c5 \in Int64 /\ c6 \in Int64
      /\ \A i \in 3..5 : out[i] \in 0..(Radix[i] - 1)
      /\ out[6] \in Int
      /\ F3(out) = F3(base) + delta
  BY <1>1, <1>5, TailAdds
<1>9. Digits(out)
  <2>1. \A i \in 1..5 : i = 1 \/ i = 2 \/ i \in 3..5
    OBVIOUS
  <2>2. \A i \in 1..5 : out[i] \in 0..(Radix[i] - 1)
    <3>1. 0 \in 0..(Radix[1] - 1) /\ 0 \in 0..(Radix[2] - 1)
      BY RadixFacts
    <3> QED
      BY <1>5, <1>8, <2>1, <3>1
  <2>3. \A i \in 1..6 : out[i] \in Int
    <3>1. \A i \in 1..6 : i \in 1..5 \/ i = 6
      OBVIOUS
    <3>2. \A i \in 1..5 : out[i] \in Int
      BY <2>2, RadixFacts
    <3> QED
      BY <1>8, <3>1, <3>2
  <2>4. out \in [1..6 -> Int]
    BY <1>4, <2>3
  <2> QED
    BY <2>2, <2>4 DEF Digits
<1>11. TryOffset(Group, base, delta) = IF out[6] \in Int64 THEN out ELSE NoAddress
  <2>1. \A i \in 4..6 : carry[i] \in Int64
    <3>1. \A i \in 4..6 : i = 4 \/ i = 5 \/ i = 6
      OBVIOUS
    <3> QED
      BY <1>2, <1>8, <3>1
  <2>3. out[6] = base[6] + carry[6]
    BY <1>4
  <2>4. Sector = 6
    BY RadixFacts
  <2>5. TryOffset(3, base, delta) =
          IF (\E i \in (3 + 1)..6 : carry[i] \notin Int64) \/ base[6] + carry[6] \notin Int64
          THEN NoAddress
          ELSE [i \in 1..6 |-> IF i < 3 THEN 0 ELSE IF i = 6 THEN base[i] + carry[i]
                               ELSE Digit(base, i, carry[i])]
    BY <1>3, <2>4 DEF TryOffset, Group
  <2> QED
    BY <1>4, <2>1, <2>3, <2>5 DEF Group
<1>12. Flat(out) = Flat(GroupOf(base)) + delta * GroupEdge
  <2>1. Flat(out) = F3(out) * GroupEdge
    BY <1>5, <1>9, GroupFlat
  <2>2. Flat(GroupOf(base)) = F3(base) * GroupEdge
    BY GroupOfIs, GroupFlat
  <2>3. F3(base) \in Int /\ delta \in Int /\ GroupEdge \in Nat
    BY PartsInt, GroupEdgeIs, RadixFacts DEF Int64
  <2>4. (F3(base) + delta) * GroupEdge = F3(base) * GroupEdge + delta * GroupEdge
    BY <2>3
  <2> QED
    BY <1>8, <2>1, <2>2, <2>4
<1> QED
  BY <1>5, <1>9, <1>11, <1>12
-----------------------------------------------------------------------------
\* What a digit adds keeps the order of what is above it.
LEMMA AboveOrder ==
  ASSUME NEW i \in 1..5, NEW a, NEW b, Digits(a), Digits(b), NEW h \in Int, NEW k \in Int
  PROVE  /\ h < k => Above(i, a, h) < Above(i, b, k)
         /\ h = k /\ a[i] < b[i] => Above(i, a, h) < Above(i, b, k)
         /\ h = k /\ a[i] = b[i] => Above(i, a, h) = Above(i, b, k)
<1>1. PICK r, x, y : r = Radix[i] /\ x = a[i] /\ y = b[i]
  OBVIOUS
<1>2. r \in Nat \ {0}
  BY <1>1, RadixFacts
<1>3. x \in 0..(r - 1) /\ y \in 0..(r - 1)
  BY <1>1, <1>2 DEF Digits
<1>4. Above(i, a, h) = h * r + x /\ Above(i, b, k) = k * r + y
  BY <1>1 DEF Above
<1>5. h * r \in Int /\ k * r \in Int
  BY <1>2
<1>6. ASSUME h < k PROVE h * r + x < k * r + y
  <2>1. h * r + r <= k * r
    BY <1>2, <1>6, MulLess
  <2> QED
    BY <1>2, <1>3, <1>5, <2>1
<1>7. ASSUME h = k, x < y PROVE h * r + x < k * r + y
  BY <1>3, <1>5, <1>7
<1>8. ASSUME h = k, x = y PROVE h * r + x = k * r + y
  BY <1>8
<1> QED
  BY <1>1, <1>4, <1>6, <1>7, <1>8

\* The same from one digit on: what is decided above stays decided.
LEMMA FlatFromDigit ==
  ASSUME NEW a, NEW b, Digits(a), Digits(b)
  PROVE  /\ a[6] < b[6] => F5(a) < F5(b)
         /\ a[6] = b[6] /\ a[5] < b[5] => F5(a) < F5(b)
         /\ a[6] = b[6] /\ a[5] = b[5] => F5(a) = F5(b)
         /\ F5(a) < F5(b) => F4(a) < F4(b)
         /\ F5(a) = F5(b) /\ a[4] < b[4] => F4(a) < F4(b)
         /\ F5(a) = F5(b) /\ a[4] = b[4] => F4(a) = F4(b)
         /\ F4(a) < F4(b) => F3(a) < F3(b)
         /\ F4(a) = F4(b) /\ a[3] < b[3] => F3(a) < F3(b)
         /\ F4(a) = F4(b) /\ a[3] = b[3] => F3(a) = F3(b)
         /\ F3(a) < F3(b) => F2(a) < F2(b)
         /\ F3(a) = F3(b) /\ a[2] < b[2] => F2(a) < F2(b)
         /\ F3(a) = F3(b) /\ a[2] = b[2] => F2(a) = F2(b)
         /\ F2(a) < F2(b) => Flat(a) < Flat(b)
         /\ F2(a) = F2(b) /\ a[1] < b[1] => Flat(a) < Flat(b)
         /\ F2(a) = F2(b) /\ a[1] = b[1] => Flat(a) = Flat(b)
<1>1. a[6] \in Int /\ b[6] \in Int
  BY DEF Digits
<1>2. /\ a[6] < b[6] => F5(a) < F5(b)
      /\ a[6] = b[6] /\ a[5] < b[5] => F5(a) < F5(b)
      /\ a[6] = b[6] /\ a[5] = b[5] => F5(a) = F5(b)
  BY <1>1, AboveOrder DEF F5
<1>3. /\ F5(a) < F5(b) => F4(a) < F4(b)
      /\ F5(a) = F5(b) /\ a[4] < b[4] => F4(a) < F4(b)
      /\ F5(a) = F5(b) /\ a[4] = b[4] => F4(a) = F4(b)
  BY PartsInt, AboveOrder DEF F4
<1>4. /\ F4(a) < F4(b) => F3(a) < F3(b)
      /\ F4(a) = F4(b) /\ a[3] < b[3] => F3(a) < F3(b)
      /\ F4(a) = F4(b) /\ a[3] = b[3] => F3(a) = F3(b)
  BY PartsInt, AboveOrder DEF F3
<1>5. /\ F3(a) < F3(b) => F2(a) < F2(b)
      /\ F3(a) = F3(b) /\ a[2] < b[2] => F2(a) < F2(b)
      /\ F3(a) = F3(b) /\ a[2] = b[2] => F2(a) = F2(b)
  BY PartsInt, AboveOrder DEF F2
<1>6. /\ F2(a) < F2(b) => Flat(a) < Flat(b)
      /\ F2(a) = F2(b) /\ a[1] < b[1] => Flat(a) < Flat(b)
      /\ F2(a) = F2(b) /\ a[1] = b[1] => Flat(a) = Flat(b)
  BY PartsInt, AboveOrder, FlatIs
<1> QED
  BY <1>2, <1>3, <1>4, <1>5, <1>6

\* The order of the code is the order of the numbers.
LEMMA BeforeIsLess ==
  ASSUME NEW a, NEW b, Digits(a), Digits(b), Before(a, b)
  PROVE  Flat(a) < Flat(b)
<1>1. PICK i \in 1..6 : a[i] < b[i] /\ \A j \in (i + 1)..6 : a[j] = b[j]
  BY RadixFacts DEF Before
<1>6. CASE i = 6
  BY <1>1, <1>6, FlatFromDigit
<1>5. CASE i = 5
  <2>1. a[6] = b[6]
    BY <1>1, <1>5
  <2> QED
    BY <1>1, <1>5, <2>1, FlatFromDigit
<1>4. CASE i = 4
  <2>1. a[6] = b[6] /\ a[5] = b[5]
    BY <1>1, <1>4
  <2> QED
    BY <1>1, <1>4, <2>1, FlatFromDigit
<1>3. CASE i = 3
  <2>1. a[6] = b[6] /\ a[5] = b[5] /\ a[4] = b[4]
    BY <1>1, <1>3
  <2> QED
    BY <1>1, <1>3, <2>1, FlatFromDigit
<1>2. CASE i = 2
  <2>1. a[6] = b[6] /\ a[5] = b[5] /\ a[4] = b[4] /\ a[3] = b[3]
    BY <1>1, <1>2
  <2> QED
    BY <1>1, <1>2, <2>1, FlatFromDigit
<1>7. CASE i = 1
  <2>1. a[6] = b[6] /\ a[5] = b[5] /\ a[4] = b[4] /\ a[3] = b[3] /\ a[2] = b[2]
    BY <1>1, <1>7
  <2> QED
    BY <1>1, <1>7, <2>1, FlatFromDigit
<1> QED
  BY <1>2, <1>3, <1>4, <1>5, <1>6, <1>7

\* The order of addresses is total.
LEMMA BeforeTotal ==
  ASSUME NEW a, NEW b, Digits(a), Digits(b)
  PROVE  a = b \/ Before(a, b) \/ Before(b, a)
<1>1. \A i \in 1..6 : a[i] \in Int /\ b[i] \in Int
  BY DEF Digits
<1>2. ASSUME NEW i \in 1..6, a[i] # b[i], \A j \in (i + 1)..6 : a[j] = b[j]
      PROVE  Before(a, b) \/ Before(b, a)
  <2>1. a[i] < b[i] \/ b[i] < a[i]
    BY <1>1, <1>2
  <2> QED
    BY <1>2, <2>1, RadixFacts DEF Before
<1>3. SUFFICES ASSUME ~Before(a, b), ~Before(b, a) PROVE a = b
  OBVIOUS
<1>4. a[6] = b[6]
  BY <1>2, <1>3
<1>5. a[5] = b[5]
  <2>1. \A j \in (5 + 1)..6 : a[j] = b[j]
    BY <1>4
  <2> QED
    BY <1>2, <1>3, <2>1
<1>6. a[4] = b[4]
  <2>1. \A j \in (4 + 1)..6 : a[j] = b[j]
    BY <1>4, <1>5
  <2> QED
    BY <1>2, <1>3, <2>1
<1>7. a[3] = b[3]
  <2>1. \A j \in (3 + 1)..6 : a[j] = b[j]
    BY <1>4, <1>5, <1>6
  <2> QED
    BY <1>2, <1>3, <2>1
<1>8. a[2] = b[2]
  <2>1. \A j \in (2 + 1)..6 : a[j] = b[j]
    BY <1>4, <1>5, <1>6, <1>7
  <2> QED
    BY <1>2, <1>3, <2>1
<1>9. a[1] = b[1]
  <2>1. \A j \in (1 + 1)..6 : a[j] = b[j]
    BY <1>4, <1>5, <1>6, <1>7, <1>8
  <2> QED
    BY <1>2, <1>3, <2>1
<1>10. \A i \in 1..6 : a[i] = b[i]
  BY <1>4, <1>5, <1>6, <1>7, <1>8, <1>9
<1> QED
  BY <1>10 DEF Digits

\* An address is the number of the blocks that lie before it: two addresses are equal
\* exactly if the numbers are, and the comparison of digits from the sector down (the
\* defaulted operator of AxisAddress) is the order of the numbers.
THEOREM FlatDecides ==
  ASSUME NEW a, NEW b, Digits(a), Digits(b)
  PROVE  /\ Flat(a) = Flat(b) <=> a = b
         /\ Before(a, b) <=> Flat(a) < Flat(b)
<1>1. Flat(a) \in Int /\ Flat(b) \in Int
  BY PartsInt
<1>2. Before(a, b) => Flat(a) < Flat(b)
  BY BeforeIsLess
<1>3. Before(b, a) => Flat(b) < Flat(a)
  BY BeforeIsLess
<1>4. a = b \/ Before(a, b) \/ Before(b, a)
  BY BeforeTotal
<1> QED
  BY <1>1, <1>2, <1>3, <1>4

\* The numbers of the addresses are an interval: a sum of digits has an address when
\* its sector fits, that is, when the sum is in the interval.
LEMMA AddressableIs ==
  ASSUME NEW a, Digits(a)
  PROVE  Flat(a) \in Addressable <=> a[6] \in Int64
<1>1. PICK lo, hi : /\ lo = [i \in 1..6 |-> IF i = 6 THEN IntMin ELSE 0]
                    /\ hi = [i \in 1..6 |-> IF i = 6 THEN IntMax ELSE Radix[i] - 1]
  OBVIOUS
<1>2. Addressable = Flat(lo)..Flat(hi)
  BY <1>1, RadixFacts DEF Addressable
<1>3. Digits(lo) /\ lo[6] = IntMin /\ \A i \in 1..5 : lo[i] = 0
  BY <1>1, RadixFacts DEF Digits
<1>4. Digits(hi) /\ hi[6] = IntMax /\ \A i \in 1..5 : hi[i] = Radix[i] - 1
  <2>1. \A i \in 1..6 : hi[i] \in Int
    BY <1>1, RadixFacts
  <2>2. hi \in [1..6 -> Int] /\ hi[6] = IntMax /\ \A i \in 1..5 : hi[i] = Radix[i] - 1
    BY <1>1, <2>1
  <2> QED
    BY <2>2, RadixFacts DEF Digits
<1>5. Flat(a) \in Int /\ Flat(lo) \in Int /\ Flat(hi) \in Int
  BY <1>3, <1>4, PartsInt
<1>6. \A i \in 1..6 : a[i] \in Int
  BY DEF Digits
<1>7. ASSUME a[6] \in Int64 PROVE Flat(lo) <= Flat(a) /\ Flat(a) <= Flat(hi)
  <2>1. ASSUME Before(a, lo) PROVE FALSE
    <3>1. PICK i \in 1..6 : a[i] < lo[i]
      BY <2>1, RadixFacts DEF Before
    <3>2. i # 6
      BY <1>3, <1>6, <1>7, <3>1, RadixFacts DEF Int64
    <3>3. i \in 1..5
      BY <3>2
    <3> QED
      BY <1>3, <3>1, <3>3, RadixFacts DEF Digits
  <2>2. ASSUME Before(hi, a) PROVE FALSE
    <3>1. PICK i \in 1..6 : hi[i] < a[i]
      BY <2>2, RadixFacts DEF Before
    <3>2. i # 6
      BY <1>4, <1>6, <1>7, <3>1, RadixFacts DEF Int64
    <3>3. i \in 1..5
      BY <3>2
    <3> QED
      BY <1>4, <3>1, <3>3, RadixFacts DEF Digits
  <2> QED
    BY <1>3, <1>4, <1>5, <2>1, <2>2, FlatDecides
<1>8. ASSUME a[6] \notin Int64 PROVE Flat(a) < Flat(lo) \/ Flat(hi) < Flat(a)
  <2>1. a[6] < lo[6] \/ hi[6] < a[6]
    BY <1>3, <1>4, <1>6, <1>8, RadixFacts DEF Int64
  <2>2. Before(a, lo) \/ Before(hi, a)
    <3>1. \A j \in (6 + 1)..6 : FALSE
      OBVIOUS
    <3> QED
      BY <2>1, <3>1, RadixFacts DEF Before
  <2> QED
    BY <1>3, <1>4, <2>2, FlatDecides
<1> QED
  BY <1>2, <1>5, <1>7, <1>8
-----------------------------------------------------------------------------
LEMMA NoAddressIsNone ==
  ASSUME NEW a, Canonical(a)
  PROVE  a # NoAddress
<1>1. a \in [1..6 -> Int]
  BY CanonicalIs DEF Digits
<1>2. DOMAIN NoAddress # 1..6
  BY DEF NoAddress
<1> QED
  BY <1>1, <1>2

\* An offset leads to the address of the sum, or to none when the sum has none.
Leads(level, base, z, u) ==
  \A d \in Int64 : LET to == TryOffset(level, base, d)
                   IN /\ z + d * u \in Addressable => Canonical(to) /\ Flat(to) = z + d * u
                      /\ z + d * u \notin Addressable => to = NoAddress

\* An offset in blocks moves by one block for each, from the block itself.
LEMMA BlockLeads ==
  ASSUME NEW base, Canonical(base)
  PROVE  Leads(Block, base, Flat(base), 1)
<1> SUFFICES ASSUME NEW d \in Int64
             PROVE  LET to == TryOffset(Block, base, d)
                    IN /\ Flat(base) + d * 1 \in Addressable => Canonical(to) /\ Flat(to) = Flat(base) + d * 1
                       /\ Flat(base) + d * 1 \notin Addressable => to = NoAddress
  BY DEF Leads
<1>1. Digits(base)
  BY CanonicalIs
<1>2. PICK out : /\ Digits(out) /\ Flat(out) = Flat(base) + d
                 /\ TryOffset(Block, base, d) = IF out[6] \in Int64 THEN out ELSE NoAddress
  BY <1>1, OffsetBlock
<1>3. d * 1 = d
  BY RadixFacts DEF Int64
<1>4. out[6] \in Int64 <=> Flat(base) + d * 1 \in Addressable
  BY <1>2, <1>3, AddressableIs
<1>5. CASE out[6] \in Int64
  BY <1>2, <1>3, <1>4, <1>5, CanonicalIs
<1>6. CASE out[6] \notin Int64
  BY <1>2, <1>4, <1>6
<1> QED
  BY <1>5, <1>6

\* An offset in groups moves by an edge of a group for each, from the first block.
LEMMA GroupLeads ==
  ASSUME NEW base, Canonical(base)
  PROVE  Leads(Group, base, Flat(GroupOf(base)), GroupEdge)
<1> SUFFICES ASSUME NEW d \in Int64
             PROVE  LET to == TryOffset(Group, base, d)
                        sum == Flat(GroupOf(base)) + d * GroupEdge
                    IN /\ sum \in Addressable => Canonical(to) /\ Flat(to) = sum
                       /\ sum \notin Addressable => to = NoAddress
  BY DEF Leads
<1>1. Digits(base)
  BY CanonicalIs
<1>2. PICK out : /\ Digits(out) /\ Flat(out) = Flat(GroupOf(base)) + d * GroupEdge
                 /\ TryOffset(Group, base, d) = IF out[6] \in Int64 THEN out ELSE NoAddress
  BY <1>1, OffsetGroup
<1>4. out[6] \in Int64 <=> Flat(GroupOf(base)) + d * GroupEdge \in Addressable
  BY <1>2, AddressableIs
<1>5. CASE out[6] \in Int64
  BY <1>2, <1>4, <1>5, CanonicalIs
<1>6. CASE out[6] \notin Int64
  BY <1>2, <1>4, <1>6
<1> QED
  BY <1>5, <1>6

\* The group of an address is an address, and it is its own group.
LEMMA GroupOfCanonical ==
  ASSUME NEW a, Canonical(a)
  PROVE  Canonical(GroupOf(a)) /\ GroupOf(GroupOf(a)) = GroupOf(a)
<1>1. Digits(a) /\ a[6] \in Int64
  BY CanonicalIs
<1>2. Digits(GroupOf(a)) /\ GroupOf(a)[1] = 0 /\ GroupOf(a)[2] = 0 /\ GroupOf(a)[6] = a[6]
  BY <1>1, GroupOfIs
<1>3. Digits(GroupOf(GroupOf(a))) /\ Flat(GroupOf(GroupOf(a))) = Flat(GroupOf(a))
  BY <1>1, <1>2, GroupOfIs, GroupFlat
<1> QED
  BY <1>1, <1>2, <1>3, CanonicalIs, FlatDecides

\* Offsets from a group lead to groups.
LEMMA GroupToGroup ==
  ASSUME NEW base, Canonical(base), NEW d \in Int64, TryOffset(Group, base, d) # NoAddress
  PROVE  GroupOf(TryOffset(Group, base, d)) = TryOffset(Group, base, d)
<1>1. Digits(base)
  BY CanonicalIs
<1>2. PICK out : /\ Digits(out) /\ out[1] = 0 /\ out[2] = 0
                 /\ TryOffset(Group, base, d) = IF out[6] \in Int64 THEN out ELSE NoAddress
  BY <1>1, OffsetGroup
<1>3. TryOffset(Group, base, d) = out
  BY <1>2
<1>4. Digits(GroupOf(out)) /\ Flat(GroupOf(out)) = Flat(out)
  BY <1>2, GroupOfIs, GroupFlat
<1> QED
  BY <1>2, <1>3, <1>4, FlatDecides
-----------------------------------------------------------------------------
(* The bisection.                                                          *)

Hits(level, position, origin, lo, hi) ==
  {d \in lo..hi : TryOffset(level, origin, d) = position}

\* What the search is about: an address, and the offsets from an origin.
Searches(level, position, origin, z, u) ==
  /\ z \in Int /\ u \in Nat \ {0} /\ z \in Addressable
  /\ Canonical(position)
  /\ Leads(level, origin, z, u)

\* The test of the loop: the offset does not lead far enough.
Short(level, position, origin, mid) ==
  IF TryOffset(level, origin, mid) = NoAddress THEN mid < 0
  ELSE Before(TryOffset(level, origin, mid), position)

\* The numbers of the addresses are an interval.
LEMMA AddressableInterval ==
  \E low, high : Addressable = low..high /\ low \in Int /\ high \in Int
<1>1. PICK low, high :
        /\ low = Flat([i \in 1..Sector |-> IF i = Sector THEN IntMin ELSE 0])
        /\ high = Flat([i \in 1..Sector |-> IF i = Sector THEN IntMax ELSE Radix[i] - 1])
  OBVIOUS
<1>2. Digits([i \in 1..6 |-> IF i = 6 THEN IntMin ELSE 0])
  BY RadixFacts DEF Digits
<1>3. Digits([i \in 1..6 |-> IF i = 6 THEN IntMax ELSE Radix[i] - 1])
  <2>1. PICK hi : hi = [i \in 1..6 |-> IF i = 6 THEN IntMax ELSE Radix[i] - 1]
    OBVIOUS
  <2>2. \A i \in 1..6 : hi[i] \in Int
    BY <2>1, RadixFacts
  <2>3. hi \in [1..6 -> Int] /\ \A i \in 1..5 : hi[i] = Radix[i] - 1
    BY <2>1, <2>2
  <2> QED
    BY <2>1, <2>3, RadixFacts DEF Digits
<1> QED
  BY <1>1, <1>2, <1>3, PartsInt, RadixFacts DEF Addressable

\* The half that is left out holds no offset that leads to position.
LEMMA HalfWithout ==
  ASSUME NEW level, NEW position, NEW origin, NEW z, NEW u,
         Searches(level, position, origin, z, u),
         NEW d \in Int64, NEW mid \in Int64,
         TryOffset(level, origin, mid) # position, TryOffset(level, origin, d) = position
  PROVE  IF Short(level, position, origin, mid) THEN mid < d ELSE d < mid
<1> USE DEF Searches
<1>1. PICK p, x, y : p = Flat(position) /\ x = z + mid * u /\ y = z + d * u
  OBVIOUS
<1>2. PICK low, high : Addressable = low..high /\ low \in Int /\ high \in Int
  BY AddressableInterval
<1>3. mid \in Int /\ d \in Int /\ p \in Int /\ Digits(position)
  BY <1>1, CanonicalIs, PartsInt, RadixFacts DEF Int64
<1>4. /\ x \in Int /\ y \in Int
      /\ d <= mid => y <= x
      /\ mid <= d => x <= y
      /\ mid < 0 => x <= z
      /\ mid >= 0 => z <= x
  <2>1. \A m, n \in Int : m <= n => m * u <= n * u
    OBVIOUS
  <2>2. mid * u \in Int /\ d * u \in Int /\ 0 * u = 0
    BY <1>3
  <2>3. /\ d <= mid => d * u <= mid * u
        /\ mid <= d => mid * u <= d * u
        /\ mid < 0 => mid * u <= 0
        /\ mid >= 0 => 0 <= mid * u
    BY <1>3, <2>1, <2>2
  <2> QED
    BY <1>1, <2>2, <2>3
<1>5. y \in Addressable /\ y = p
  BY <1>1, NoAddressIsNone DEF Leads
<1>6. CASE TryOffset(level, origin, mid) = NoAddress
  <2>1. x \notin Addressable
    BY <1>1, <1>6, NoAddressIsNone DEF Leads
  <2>2. mid < 0 => x < low
    BY <1>2, <1>4, <2>1
  <2>3. mid >= 0 => high < x
    BY <1>2, <1>4, <2>1
  <2>4. Short(level, position, origin, mid) <=> mid < 0
    BY <1>6 DEF Short
  <2> QED
    BY <1>2, <1>3, <1>4, <1>5, <2>2, <2>3, <2>4
<1>7. CASE TryOffset(level, origin, mid) # NoAddress
  <2>1. PICK c : c = TryOffset(level, origin, mid)
    OBVIOUS
  <2>2. Canonical(c) /\ Flat(c) = x
    BY <1>1, <1>7, <2>1 DEF Leads
  <2>3. Digits(c)
    BY <2>2, CanonicalIs
  <2>4. x # p /\ (Before(c, position) <=> x < p)
    BY <1>1, <1>3, <2>1, <2>2, <2>3, FlatDecides
  <2>5. Short(level, position, origin, mid) <=> x < p
    BY <1>7, <2>1, <2>4 DEF Short
  <2> QED
    BY <1>3, <1>4, <1>5, <2>4, <2>5
<1> QED
  BY <1>6, <1>7

\* So one turn of the loop keeps every hit.
LEMMA TurnKeepsHits ==
  ASSUME NEW level, NEW position, NEW origin, NEW z, NEW u,
         Searches(level, position, origin, z, u),
         NEW lo \in Int64, NEW hi \in Int64, lo <= hi, NEW mid, mid = lo + ((hi - lo) \div 2)
  PROVE  /\ mid \in lo..hi
         /\ Hits(level, position, origin, lo, hi) =
              IF TryOffset(level, origin, mid) = position THEN {mid}
              ELSE IF Short(level, position, origin, mid)
              THEN Hits(level, position, origin, mid + 1, hi)
              ELSE Hits(level, position, origin, lo, mid - 1)
<1> USE DEF Searches
<1>1. lo \in Int /\ hi \in Int /\ \A n \in lo..hi : n \in Int64
  BY RadixFacts DEF Int64
<1>2. mid \in lo..hi
  <2>1. \A n \in Nat : n \div 2 \in 0..n
    OBVIOUS
  <2>2. hi - lo \in Nat
    BY <1>1
  <2>3. (hi - lo) \div 2 \in 0..(hi - lo)
    BY <2>1, <2>2
  <2> QED
    BY <1>1, <2>3
<1>3. mid \in Int64
  BY <1>1, <1>2
<1>4. CASE TryOffset(level, origin, mid) = position
  <2>1. ASSUME NEW d \in lo..hi, TryOffset(level, origin, d) = position PROVE d = mid
    <3>1. d \in Int /\ mid \in Int /\ d \in Int64
      BY <1>1, <1>2
    <3>2. z + d * u = Flat(position) /\ z + mid * u = Flat(position)
      BY <1>3, <1>4, <2>1, <3>1, NoAddressIsNone DEF Leads
    <3>3. d * u \in Int /\ mid * u \in Int /\ d * u = mid * u
      BY <3>1, <3>2
    <3>4. d < mid => d * u + u <= mid * u
      BY <3>1, MulLess
    <3>5. mid < d => mid * u + u <= d * u
      BY <3>1, MulLess
    <3> QED
      BY <3>1, <3>3, <3>4, <3>5
  <2> QED
    BY <1>2, <1>4, <2>1 DEF Hits
<1>5. CASE TryOffset(level, origin, mid) # position /\ Short(level, position, origin, mid)
  <2>1. ASSUME NEW d \in lo..hi, TryOffset(level, origin, d) = position PROVE d \in (mid + 1)..hi
    <3>1. mid < d
      BY <1>1, <1>3, <1>5, <2>1, HalfWithout
    <3> QED
      BY <1>1, <1>2, <3>1
  <2>2. (mid + 1)..hi \subseteq lo..hi
    BY <1>1, <1>2
  <2>3. Hits(level, position, origin, lo, hi) = Hits(level, position, origin, mid + 1, hi)
    BY <2>1, <2>2 DEF Hits
  <2> QED
    BY <1>2, <1>5, <2>3
<1>6. CASE TryOffset(level, origin, mid) # position /\ ~Short(level, position, origin, mid)
  <2>1. ASSUME NEW d \in lo..hi, TryOffset(level, origin, d) = position PROVE d \in lo..(mid - 1)
    <3>1. d < mid
      BY <1>1, <1>3, <1>6, <2>1, HalfWithout
    <3> QED
      BY <1>1, <1>2, <3>1
  <2>2. lo..(mid - 1) \subseteq lo..hi
    BY <1>1, <1>2
  <2>3. Hits(level, position, origin, lo, hi) = Hits(level, position, origin, lo, mid - 1)
    BY <2>1, <2>2 DEF Hits
  <2> QED
    BY <1>2, <1>6, <2>3
<1> QED
  BY <1>4, <1>5, <1>6

\* A set of natural numbers has a least one: what induction over data comes to for
\* provers that cannot instantiate a predicate.
LEMMA LeastNumber ==
  ASSUME NEW T, T \subseteq Nat, T # {}
  PROVE  \E n \in T : \A k \in T : n <= k
<1>1. \E n \in T : \A k \in T : ~ (<<k, n>> \in OpToRel(<, Nat))
  BY NatLessThanWellFounded, WFMin
<1>2. PICK n \in T : \A k \in T : ~ (<<k, n>> \in OpToRel(<, Nat))
  BY <1>1
<1>3. ASSUME NEW k \in T, ~(n <= k) PROVE FALSE
  <2>1. k < n /\ <<k, n>> \in Nat \X Nat
    BY <1>3
  <2>2. <<k, n>> \in OpToRel(<, Nat)
    BY <2>1 DEF OpToRel
  <2> QED
    BY <1>2, <2>2
<1> QED
  BY <1>3

Windows(m) == (-m..(m + 1)) \X ((-m - 1)..m)

\* One turn of the loop for the window w, when S is what the loop makes of a window.
Turn(S, level, position, origin, w) ==
  LET lo == w[1]
      hi == w[2]
      mid == lo + ((hi - lo) \div 2)
      candidate == TryOffset(level, origin, mid)
  IN IF lo > hi THEN {}
     ELSE IF candidate = position THEN {mid}
     ELSE IF IF candidate = NoAddress THEN mid < 0 ELSE Before(candidate, position)
     THEN S[<<mid + 1, hi>>]
     ELSE S[<<lo, mid - 1>>]

Bisects(S, level, position, origin, m) ==
  S = [w \in Windows(m) |-> Turn(S, level, position, origin, w)]

\* The bisection is the function over windows that its definition describes.
LEMMA BoundedDeltaIs ==
  ASSUME NEW level, NEW position, NEW origin, NEW m
  PROVE  BoundedDelta(level, position, origin, m)
           = (CHOOSE S : Bisects(S, level, position, origin, m))[<<-m, m>>]
  BY DEF BoundedDelta, Bisects, Turn, Windows

\* What the loop makes of a window, from what it makes of the smaller ones.
LEMMA TurnIs ==
  ASSUME NEW level, NEW position, NEW origin, NEW z, NEW u,
         Searches(level, position, origin, z, u),
         NEW m \in Nat, m \in Int64, -m \in Int64, NEW S,
         NEW lo \in -m..(m + 1), NEW hi \in (-m - 1)..m,
         \A v \in Windows(m) : v[2] - v[1] < hi - lo => S[v] = Hits(level, position, origin, v[1], v[2])
  PROVE  Turn(S, level, position, origin, <<lo, hi>>) = Hits(level, position, origin, lo, hi)
<1>1. CASE lo > hi
  <2>1. lo..hi = {}
    BY <1>1
  <2> QED
    BY <1>1, <2>1 DEF Turn, Hits
<1>2. CASE lo <= hi
  <2>1. PICK mid : mid = lo + ((hi - lo) \div 2)
    OBVIOUS
  <2>2. lo \in Int64 /\ hi \in Int64
    BY <1>2, RadixFacts DEF Int64
  <2>3. /\ mid \in lo..hi
        /\ Hits(level, position, origin, lo, hi) =
              IF TryOffset(level, origin, mid) = position THEN {mid}
              ELSE IF Short(level, position, origin, mid)
              THEN Hits(level, position, origin, mid + 1, hi)
              ELSE Hits(level, position, origin, lo, mid - 1)
    BY <1>2, <2>1, <2>2, TurnKeepsHits
  <2>4. /\ <<mid + 1, hi>> \in Windows(m) /\ hi - (mid + 1) < hi - lo
        /\ <<lo, mid - 1>> \in Windows(m) /\ (mid - 1) - lo < hi - lo
    BY <2>3 DEF Windows
  <2>5. /\ S[<<mid + 1, hi>>] = Hits(level, position, origin, mid + 1, hi)
        /\ S[<<lo, mid - 1>>] = Hits(level, position, origin, lo, mid - 1)
    BY <2>4
  <2>6. Turn(S, level, position, origin, <<lo, hi>>) =
              IF TryOffset(level, origin, mid) = position THEN {mid}
              ELSE IF Short(level, position, origin, mid)
              THEN S[<<mid + 1, hi>>]
              ELSE S[<<lo, mid - 1>>]
    BY <1>2, <2>1 DEF Turn, Short
  <2> QED
    BY <2>3, <2>5, <2>6
<1> QED
  BY <1>1, <1>2

\* The bisection returns the offsets that lead to the position, of which there is one
\* or none: by induction on the size of the window.
LEMMA BisectionIs ==
  ASSUME NEW level, NEW position, NEW origin, NEW z, NEW u,
         Searches(level, position, origin, z, u),
         NEW m \in Nat, m \in Int64, -m \in Int64
  PROVE  BoundedDelta(level, position, origin, m) = Hits(level, position, origin, -m, m)
<1>1. \A w \in Windows(m) : w = <<w[1], w[2]>> /\ w[1] \in -m..(m + 1) /\ w[2] \in (-m - 1)..m
  BY DEF Windows
<1>2. PICK H : H = [w \in Windows(m) |-> Hits(level, position, origin, w[1], w[2])]
  OBVIOUS
<1>3. Bisects(H, level, position, origin, m)
  <2>1. ASSUME NEW w \in Windows(m)
        PROVE  Turn(H, level, position, origin, w) = Hits(level, position, origin, w[1], w[2])
    <3>1. PICK lo \in -m..(m + 1), hi \in (-m - 1)..m : w = <<lo, hi>>
      BY <1>1
    <3>2. Turn(H, level, position, origin, <<lo, hi>>) = Hits(level, position, origin, lo, hi)
      BY <1>2, TurnIs
    <3> QED
      BY <3>1, <3>2
  <2>2. H = [w \in Windows(m) |-> Turn(H, level, position, origin, w)]
    BY <1>2, <2>1
  <2> QED
    BY <2>2 DEF Bisects
<1>4. PICK S : S = CHOOSE Q : Bisects(Q, level, position, origin, m)
  OBVIOUS
<1>5. Bisects(S, level, position, origin, m)
  BY <1>3, <1>4
<1> DEFINE Wrong == {w \in Windows(m) : S[w] # Hits(level, position, origin, w[1], w[2])}
           Size(w) == w[2] - w[1] + 2 * m + 2
           Sizes == {Size(w) : w \in Wrong}
<1>6. Wrong = {}
  <2>1. SUFFICES ASSUME Wrong # {} PROVE FALSE
    OBVIOUS
  <2>2. \A w \in Windows(m) : Size(w) \in Nat
    BY <1>1
  <2>3. PICK w \in Wrong : \A v \in Wrong : Size(w) <= Size(v)
    <3>1. Sizes \subseteq Nat /\ Sizes # {}
      BY <2>1, <2>2
    <3>2. \E n \in Sizes : \A k \in Sizes : n <= k
      <4> HIDE DEF Sizes
      <4> QED
        BY <3>1, LeastNumber
    <3> QED
      BY <3>2
  <2>5. PICK lo \in -m..(m + 1), hi \in (-m - 1)..m : w = <<lo, hi>>
    BY <1>1
  <2>6. ASSUME NEW v \in Windows(m), v[2] - v[1] < hi - lo
        PROVE  S[v] = Hits(level, position, origin, v[1], v[2])
    <3>1. SUFFICES ASSUME v \in Wrong PROVE FALSE
      OBVIOUS
    <3>2. Size(w) <= Size(v)
      BY <2>3, <3>1
    <3> QED
      BY <1>1, <2>5, <2>6, <3>2
  <2>7. Turn(S, level, position, origin, <<lo, hi>>) = Hits(level, position, origin, lo, hi)
    BY <2>6, TurnIs
  <2>8. S[w] = Turn(S, level, position, origin, w)
    BY <1>5 DEF Bisects
  <2> QED
    BY <2>3, <2>5, <2>7, <2>8
<1>7. <<-m, m>> \in Windows(m)
  BY DEF Windows
<1>8. S[<<-m, m>>] = Hits(level, position, origin, -m, m)
  BY <1>6, <1>7
<1> QED
  BY <1>4, <1>8, BoundedDeltaIs

LEMMA CanonicalFlat ==
  ASSUME NEW a, Canonical(a)
  PROVE  Flat(a) \in Int /\ Flat(a) \in Addressable
  BY CanonicalIs, AddressableIs, PartsInt

\* Offsets that lead to position, as numbers.
LEMMA HitsAre ==
  ASSUME NEW level, NEW position, NEW origin, NEW z, NEW u,
         Searches(level, position, origin, z, u),
         NEW m \in Nat, m \in Int64, -m \in Int64
  PROVE  BoundedDelta(level, position, origin, m) = {d \in -m..m : z + d * u = Flat(position)}
<1>1. BoundedDelta(level, position, origin, m) = Hits(level, position, origin, -m, m)
  BY BisectionIs
<1>2. ASSUME NEW d \in -m..m
      PROVE  TryOffset(level, origin, d) = position <=> z + d * u = Flat(position)
  <2>1. d \in Int64
    BY RadixFacts DEF Int64
  <2>2. Flat(position) \in Addressable /\ position # NoAddress /\ Digits(position)
    BY CanonicalFlat, NoAddressIsNone, CanonicalIs DEF Searches
  <2>3. CASE z + d * u \in Addressable
    <3>1. Canonical(TryOffset(level, origin, d)) /\ Flat(TryOffset(level, origin, d)) = z + d * u
      BY <2>1, <2>3 DEF Searches, Leads
    <3> QED
      BY <2>2, <3>1, CanonicalIs, FlatDecides
  <2>4. CASE z + d * u \notin Addressable
    BY <2>1, <2>2, <2>4 DEF Searches, Leads
  <2> QED
    BY <2>3, <2>4
<1>3. Hits(level, position, origin, -m, m) = {d \in -m..m : z + d * u = Flat(position)}
  BY <1>2 DEF Hits
<1> QED
  BY <1>1, <1>3

\* blockAxisDeltaWithin is exact: it gives the distance of two blocks if that is within
\* the bound and nothing if it is not, whether the digits of one group decide or the
\* bisection does, and whether or not the bisection leaves the world on its way.
THEOREM BlockDeltaIs ==
  ASSUME NEW p, NEW o, Canonical(p), Canonical(o), NEW m \in Nat, m \in Int64, -m \in Int64
  PROVE  BlockDelta(p, o, m) = {Flat(p) - Flat(o)} \cap -m..m
<1>1. Digits(p) /\ Digits(o) /\ Flat(p) \in Int /\ Flat(o) \in Int /\ Flat(o) \in Addressable
  BY CanonicalIs, CanonicalFlat
<1>2. CASE \A i \in Group..Sector : p[i] = o[i]
  <2>1. p[3] = o[3] /\ p[4] = o[4] /\ p[5] = o[5] /\ p[6] = o[6]
    BY <1>2, RadixFacts DEF Group
  <2>2. F3(p) = F3(o)
    BY <1>1, <2>1, FlatFromDigit
  <2>3. PICK x, y, z : /\ x = p[2] * Radix[1] + p[1] /\ y = o[2] * Radix[1] + o[1]
                       /\ z = F3(o) * GroupEdge
    OBVIOUS
  <2>4. z \in Int
    BY <1>1, <2>3, PartsInt, GroupEdgeIs
  <2>5. x \in Int /\ y \in Int /\ Flat(p) = z + x /\ Flat(o) = z + y
    BY <1>1, <2>2, <2>3, FlatByGroup, GroupEdgeIs
  <2>6. x - y = Flat(p) - Flat(o)
    BY <2>4, <2>5
  <2>7. x - y = p[2] * Radix[1] + p[1] - (o[2] * Radix[1] + o[1])
    <3>1. p[2] * Radix[1] \in Int /\ p[1] \in Int
      <4>1. p[1] \in Int /\ p[2] \in Int /\ Radix[1] \in Int
        BY <1>1, RadixFacts DEF Digits
      <4> QED
        BY <4>1
    <3> QED
      BY <2>3, <2>5, <3>1
  <2> QED
    BY <1>2, <2>6, <2>7 DEF BlockDelta, Block, Chunk
<1>3. CASE ~(\A i \in Group..Sector : p[i] = o[i])
  <2>1. Searches(Block, p, o, Flat(o), 1)
    BY <1>1, BlockLeads DEF Searches
  <2>2. BoundedDelta(Block, p, o, m) = {d \in -m..m : Flat(o) + d * 1 = Flat(p)}
    BY <2>1, HitsAre
  <2>3. \A d \in -m..m : Flat(o) + d * 1 = Flat(p) <=> d = Flat(p) - Flat(o)
    BY <1>1
  <2> QED
    BY <1>1, <1>3, <2>2, <2>3 DEF BlockDelta
<1> QED
  BY <1>2, <1>3

\* groupAxisDeltaWithin is exact: it gives the distance of two groups, if that is within
\* the bound, and nothing if it is not.
THEOREM GroupDeltaIs ==
  ASSUME NEW p, NEW o, Canonical(p), Canonical(o), GroupOf(p) = p, GroupOf(o) = o,
         NEW m \in Nat, m \in Int64, -m \in Int64
  PROVE  GroupDelta(p, o, m) = {d \in -m..m : Flat(o) + d * GroupEdge = Flat(p)}
<1>1. Digits(p) /\ Digits(o) /\ Flat(p) \in Int /\ Flat(o) \in Int /\ Flat(o) \in Addressable
  BY CanonicalIs, CanonicalFlat
<1>2. CASE \A i \in (Group + 1)..Sector : p[i] = o[i]
  <2>1. p[4] = o[4] /\ p[5] = o[5] /\ p[6] = o[6]
    BY <1>2, RadixFacts DEF Group
  <2>2. F4(p) = F4(o)
    BY <1>1, <2>1, FlatFromDigit
  <2>3. PICK x, y, e, k : x = F3(p) /\ y = F3(o) /\ e = GroupEdge /\ k = p[3] - o[3]
    OBVIOUS
  <2>4. x \in Int /\ y \in Int /\ e \in Nat \ {0}
    BY <1>1, <2>3, PartsInt, GroupEdgeIs
  <2>5. k \in Int /\ x = y + k
    <3>1. F4(o) * Radix[3] \in Int /\ p[3] \in Int /\ o[3] \in Int
      BY <1>1, PartsInt, RadixFacts DEF Digits
    <3> QED
      BY <2>2, <2>3, <3>1 DEF F3, Above
  <2>6. Flat(p) = x * e /\ Flat(o) = y * e
    BY <1>1, <2>3, GroupOfIs, GroupFlat
  <2>7. \A d \in -m..m : y * e + d * e = x * e <=> d = k
    <3>1. SUFFICES ASSUME NEW d \in -m..m PROVE y * e + d * e = x * e <=> d = k
      OBVIOUS
    <3>2. x * e = y * e + k * e
      BY <2>4, <2>5
    <3>3. d < k => d * e + e <= k * e
      BY <2>4, <2>5, MulLess
    <3>4. k < d => k * e + e <= d * e
      BY <2>4, <2>5, MulLess
    <3>5. d * e \in Int /\ k * e \in Int /\ y * e \in Int
      BY <2>4, <2>5
    <3> QED
      BY <2>4, <2>5, <3>2, <3>3, <3>4, <3>5
  <2>8. {k} \cap -m..m = {d \in -m..m : Flat(o) + d * GroupEdge = Flat(p)}
    BY <2>3, <2>6, <2>7
  <2> QED
    BY <1>2, <2>3, <2>8 DEF GroupDelta, Group
<1>3. CASE ~(\A i \in (Group + 1)..Sector : p[i] = o[i])
  <2>1. Searches(Group, p, o, Flat(o), GroupEdge)
    BY <1>1, GroupLeads, GroupEdgeIs DEF Searches
  <2>2. BoundedDelta(Group, p, o, m) = {d \in -m..m : Flat(o) + d * GroupEdge = Flat(p)}
    BY <2>1, HitsAre
  <2> QED
    BY <1>3, <2>2 DEF GroupDelta
<1> QED
  BY <1>2, <1>3
-----------------------------------------------------------------------------
(* The view.                                                               *)

\* The state between the steps of a frame.  The camera is exact relative to the
\* anchor of the bridge, also while the scene waits for it; the outline is always
\* where the selection and the origin of the scene put it; the pose of the camera in
\* the scene is exact once the scene has followed.
ViewInv ==
  /\ TypeOK
  /\ phase # "failed" => \A a \in Axes : Flat(anchor[a]) * Sub + camera[a] = travelled[a]
  /\ box = Outline(selection, owner)
  /\ phase \in {"poll", "target"} => \A a \in Axes : Flat(owner[a]) * Sub + pose[a] = travelled[a]

\* A distance that the program compares with.
Fits(n) == n \in Nat /\ n \in Int64 /\ -n \in Int64

LEMMA ViewFacts ==
  /\ Axes # {} /\ Sub \in Nat \ {0}
  /\ EdgeBlocks \in Nat \ {0} /\ ThresholdTenths \in 6..9
  /\ Fits(2) /\ Fits(3) /\ Fits(EdgeBlocks) /\ Fits(BackendBlocks) /\ Fits(TargetReach)
<1>1. /\ Axes # {} /\ Sub \in Nat \ {0}
      /\ EdgeBlocks \in Nat \ {0} /\ ThresholdTenths \in 6..9
      /\ BackendGroups \in Nat /\ TargetReach \in Nat
  BY ViewAssumption, SubAssumption
<1>2. BackendBlocks \in Nat
  <2>1. \A x, y \in Nat : x * y \in Nat
    OBVIOUS
  <2> QED
    BY <1>1, <2>1, GroupEdgeIs DEF BackendBlocks
<1>3. \A n \in {3, EdgeBlocks, BackendBlocks, TargetReach} : n \in Int64 /\ -n \in Int64
  BY FitAssumption DEF BackendBlocks
<1>4. Fits(3)
  BY <1>3 DEF Fits
<1>5. Fits(2)
  BY <1>4, RadixFacts DEF Fits, Int64
<1> QED
  BY <1>1, <1>2, <1>3, <1>4, <1>5 DEF Fits

\* What is given per axis is not nothing.
LEMMA PerAxisIsSome ==
  ASSUME NEW f, DOMAIN f = Axes
  PROVE  f # <<>>
<1>1. DOMAIN <<>> = {}
  OBVIOUS
<1> QED
  BY <1>1, ViewFacts

\* Whole blocks and the fraction of a block.
LEMMA SplitSteps ==
  ASSUME NEW n \in Int
  PROVE  /\ n \div Sub \in Int /\ n % Sub \in 0..(Sub - 1)
         /\ (n \div Sub) * Sub + (n % Sub) = n
         /\ \A m \in Int : (m * Sub + n) \div Sub = m + (n \div Sub)
<1>1. n \div Sub \in Int /\ n % Sub \in 0..(Sub - 1) /\ n = Sub * (n \div Sub) + (n % Sub)
  BY ViewFacts, DivMod
<1>2. PICK q, k, s : q = n \div Sub /\ k = n % Sub /\ s = Sub
  OBVIOUS
<1>3. s \in Nat \ {0} /\ q \in Int /\ k \in 0..(s - 1) /\ n = s * q + k
  BY <1>1, <1>2, ViewFacts
<1>4. q * s + k = n
  BY <1>3
<1>5. ASSUME NEW m \in Int PROVE (m * s + n) \div s = m + q
  <2>1. m * s + n = (m + q) * s + k
    BY <1>3
  <2> QED
    BY <1>3, <2>1, DivUnique
<1> QED
  BY <1>1, <1>2, <1>4, <1>5

\* Half of DynamicSpace is a whole number of blocks that fits.
LEMMA HalfIs ==
  \E h \in Nat \ {0} : EdgeBlocks = 2 * h /\ Half = h * Sub /\ h \in Int64 /\ -h \in Int64
<1>1. EdgeBlocks \in Nat \ {0} /\ EdgeBlocks % 2 = 0
  BY ViewAssumption
<1>2. PICK h : h = EdgeBlocks \div 2
  OBVIOUS
<1>3. h \in Nat \ {0} /\ EdgeBlocks = 2 * h
  BY <1>1, <1>2
<1>4. h \in Int64 /\ -h \in Int64
  BY <1>3, ViewFacts, RadixFacts DEF Fits, Int64
<1>5. Half = h * Sub
  <2>1. h * Sub \in Nat
    BY <1>3, ViewFacts
  <2>2. EdgeBlocks * Sub = 2 * (h * Sub)
    BY <1>3, ViewFacts
  <2>3. \A n \in Nat : (2 * n) \div 2 = n
    OBVIOUS
  <2> QED
    BY <2>1, <2>2, <2>3 DEF Half
<1> QED
  BY <1>3, <1>4, <1>5

\* In DynamicSpace the whole blocks of a coordinate fit.
LEMMA RangeFits ==
  ASSUME NEW c \in Range
  PROVE  c \in Int /\ c \div Sub \in Int64
<1>1. PICK h \in Nat \ {0} : EdgeBlocks = 2 * h /\ Half = h * Sub /\ h \in Int64 /\ -h \in Int64
  BY HalfIs
<1>2. PICK s, q, k : s = Sub /\ q = c \div Sub /\ k = c % Sub
  OBVIOUS
<1>3. s \in Nat \ {0} /\ h * s \in Int
  BY <1>2, ViewFacts
<1>4. c \in Int /\ -(h * s) <= c /\ c < h * s
  BY <1>1, <1>2, <1>3 DEF Range
<1>5. q \in Int /\ k \in 0..(s - 1) /\ q * s + k = c
  BY <1>2, <1>4, SplitSteps
<1>6. q * s \in Int /\ -(h * s) = (-h) * s
  BY <1>3, <1>5
<1>7. q < h
  <2>1. SUFFICES ASSUME h <= q PROVE FALSE
    BY <1>5
  <2>2. h * s <= q * s
    BY <1>3, <1>5, <2>1
  <2> QED
    BY <1>3, <1>4, <1>5, <1>6, <2>2
<1>8. -h <= q
  <2>1. SUFFICES ASSUME q < -h PROVE FALSE
    BY <1>5
  <2>2. q * s + s <= (-h) * s
    BY <1>3, <1>5, <2>1, MulLess
  <2> QED
    BY <1>3, <1>4, <1>5, <1>6, <2>2
<1> QED
  BY <1>1, <1>2, <1>4, <1>5, <1>7, <1>8, RadixFacts DEF Int64

\* Exact addition of a coordinate, in blocks and in steps.
LEMMA StepsAdd ==
  ASSUME NEW f \in Int, NEW n \in Int
  PROVE  (f + (n \div Sub)) * Sub + (n % Sub) = f * Sub + n
<1>1. PICK q, k, s : q = n \div Sub /\ k = n % Sub /\ s = Sub
  OBVIOUS
<1>2. s \in Nat \ {0}
  BY <1>1, ViewFacts
<1>3. q \in Int /\ k \in 0..(s - 1) /\ q * s + k = n
  <2>1. n \div Sub \in Int /\ n % Sub \in 0..(Sub - 1) /\ (n \div Sub) * Sub + (n % Sub) = n
    BY SplitSteps
  <2> QED
    BY <1>1, <2>1
<1>4. (f + q) * s = f * s + q * s
  BY <1>2, <1>3
<1>5. f * s \in Int /\ q * s \in Int /\ k \in Int
  BY <1>2, <1>3
<1>6. (f + q) * s + k = f * s + n
  BY <1>3, <1>4, <1>5
<1> QED
  BY <1>1, <1>6

\* tryOffsetAxis is exact: it fails exactly if the block is past an end of the world, and
\* otherwise gives the canonical address of the sum, through any number of carries and
\* for a negative offset as for a positive one.
THEOREM BlockOffset ==
  ASSUME NEW base, Canonical(base), NEW d \in Int64
  PROVE  /\ TryOffset(Block, base, d) = NoAddress <=> Flat(base) + d \notin Addressable
         /\ TryOffset(Block, base, d) # NoAddress =>
              /\ Canonical(TryOffset(Block, base, d))
              /\ Flat(TryOffset(Block, base, d)) = Flat(base) + d
<1>1. PICK to : to = TryOffset(Block, base, d)
  OBVIOUS
<1>2. d * 1 = d
  BY RadixFacts DEF Int64
<1>3. /\ Flat(base) + d \in Addressable => Canonical(to) /\ Flat(to) = Flat(base) + d
      /\ Flat(base) + d \notin Addressable => to = NoAddress
  BY <1>1, <1>2, BlockLeads DEF Leads
<1> QED
  BY <1>1, <1>3, NoAddressIsNone

\* What an offset leaves is an address, or none.
LEMMA OffsetsAre ==
  ASSUME NEW base, \A a \in Axes : Canonical(base[a]), NEW d, \A a \in Axes : d[a] \in Int64,
         NEW cell, cell = [a \in Axes |-> TryOffset(Block, base[a], d[a])]
  PROVE  cell \in [Axes -> Addresses] <=> \A a \in Axes : cell[a] # NoAddress
<1>1. ASSUME NEW a \in Axes PROVE cell[a] \in Addresses <=> cell[a] # NoAddress
  <2>1. cell[a] # NoAddress => Canonical(cell[a])
    BY BlockOffset
  <2>2. cell[a] # NoAddress => cell[a] \in Addresses
    BY <2>1 DEF Addresses, Canonical
  <2> QED
    BY <2>2, NoAddressIsNone DEF Addresses
<1> QED
  BY <1>1

\* toWorld: refused when some axis has no address there, exact otherwise.
LEMMA ToWorldIs ==
  ASSUME \A a \in Axes : Canonical(anchor[a]), camera \in [Axes -> Range]
  PROVE  /\ ToWorld = None <=> \E a \in Axes : Flat(anchor[a]) + (camera[a] \div Sub) \notin Addressable
         /\ ToWorld # None => \A a \in Axes :
              /\ Canonical(ToWorld[a].cell) /\ ToWorld[a].fraction \in 0..(Sub - 1)
              /\ Flat(ToWorld[a].cell) * Sub + ToWorld[a].fraction = Flat(anchor[a]) * Sub + camera[a]
<1>1. ASSUME NEW a \in Axes
      PROVE  camera[a] \in Int /\ camera[a] \div Sub \in Int64 /\ 0 + camera[a] = camera[a]
  <2>1. camera[a] \in Range
    OBVIOUS
  <2>2. camera[a] \in Int /\ camera[a] \div Sub \in Int64
    BY <2>1, RangeFits
  <2> QED
    BY <2>2
<1>2. PICK start : start = FromBlock(anchor)
  OBVIOUS
<1>3. \A a \in Axes : start[a].cell = anchor[a] /\ start[a].fraction = 0
  BY <1>2 DEF FromBlock
<1>4. PICK W : W = [a \in Axes |-> [cell |-> TryOffset(Block, anchor[a], camera[a] \div Sub),
                                  fraction |-> camera[a] % Sub]]
  OBVIOUS
<1>5. ToWorld = IF \E a \in Axes : TryOffset(Block, anchor[a], camera[a] \div Sub) = NoAddress
                THEN None ELSE W
  <2>1. PICK d : d = [a \in Axes |-> (start[a].fraction + camera[a]) \div Sub]
    OBVIOUS
  <2>2. PICK cell : cell = [a \in Axes |-> TryOffset(Block, start[a].cell, d[a])]
    OBVIOUS
  <2>3. ToWorld = IF (\E a \in Axes : d[a] \notin Int64) \/ cell \notin [Axes -> Addresses]
                  THEN None
                  ELSE [a \in Axes |-> [cell |-> cell[a],
                                        fraction |-> (start[a].fraction + camera[a]) % Sub]]
    <3>1. cell = [a \in Axes |-> TryOffset(Block, start[a].cell, (start[a].fraction + camera[a]) \div Sub)]
      BY <2>1, <2>2
    <3>2. (\E a \in Axes : d[a] \notin Int64)
            <=> \E a \in Axes : (start[a].fraction + camera[a]) \div Sub \notin Int64
      BY <2>1
    <3> QED
      BY <1>2, <3>1, <3>2 DEF ToWorld, Translated
  <2>4. \A a \in Axes : start[a].fraction + camera[a] = camera[a]
    BY <1>1, <1>3
  <2>5. \A a \in Axes : d[a] = camera[a] \div Sub /\ d[a] \in Int64
    BY <1>1, <2>1, <2>4
  <2>6. cell = [a \in Axes |-> TryOffset(Block, anchor[a], d[a])]
    BY <1>3, <2>2
  <2>7. cell \in [Axes -> Addresses] <=> \A a \in Axes : cell[a] # NoAddress
    BY <2>5, <2>6, OffsetsAre
  <2>8. \A a \in Axes : cell[a] = TryOffset(Block, anchor[a], camera[a] \div Sub)
    BY <2>5, <2>6
  <2>9. cell \in [Axes -> Addresses] => ToWorld = W
    BY <1>4, <2>3, <2>4, <2>5, <2>8
  <2> QED
    BY <2>3, <2>5, <2>7, <2>8, <2>9
<1>6. W # None
  BY <1>4, PerAxisIsSome DEF None
<1>7. ASSUME NEW a \in Axes
      PROVE  /\ TryOffset(Block, anchor[a], camera[a] \div Sub) = NoAddress
                 <=> Flat(anchor[a]) + (camera[a] \div Sub) \notin Addressable
             /\ TryOffset(Block, anchor[a], camera[a] \div Sub) # NoAddress =>
                  /\ Canonical(W[a].cell) /\ W[a].fraction \in 0..(Sub - 1)
                  /\ Flat(W[a].cell) * Sub + W[a].fraction = Flat(anchor[a]) * Sub + camera[a]
  <2>1. camera[a] \in Int /\ camera[a] \div Sub \in Int64
    BY <1>1
  <2>2. PICK to : to = TryOffset(Block, anchor[a], camera[a] \div Sub)
    OBVIOUS
  <2>3. /\ to = NoAddress <=> Flat(anchor[a]) + (camera[a] \div Sub) \notin Addressable
        /\ to # NoAddress => Canonical(to) /\ Flat(to) = Flat(anchor[a]) + (camera[a] \div Sub)
    BY <2>1, <2>2, BlockOffset
  <2>4. W[a].cell = to /\ W[a].fraction = camera[a] % Sub
    BY <1>4, <2>2
  <2>5. camera[a] % Sub \in 0..(Sub - 1)
    BY <2>1, SplitSteps
  <2>6. (Flat(anchor[a]) + (camera[a] \div Sub)) * Sub + (camera[a] % Sub)
          = Flat(anchor[a]) * Sub + camera[a]
    BY <2>1, StepsAdd, CanonicalFlat
  <2> QED
    BY <2>2, <2>3, <2>4, <2>5, <2>6
<1> QED
  BY <1>5, <1>6, <1>7

\* blockDeltaWithin: the ways along the axes, when all are within the bound.
LEMMA DeltaToIs ==
  ASSUME NEW cells, NEW from, \A a \in Axes : Canonical(cells[a]) /\ Canonical(from[a]),
         NEW m, Fits(m)
  PROVE  /\ DeltaTo(cells, from, m) = None
              <=> \E a \in Axes : Flat(cells[a]) - Flat(from[a]) \notin -m..m
         /\ DeltaTo(cells, from, m) # None =>
              DeltaTo(cells, from, m) = [a \in Axes |-> Flat(cells[a]) - Flat(from[a])]
<1>1. \A a \in Axes : BlockDelta(cells[a], from[a], m) = {Flat(cells[a]) - Flat(from[a])} \cap -m..m
  BY BlockDeltaIs DEF Fits
<1>2. PICK D : D = [a \in Axes |-> CHOOSE d \in BlockDelta(cells[a], from[a], m) : TRUE]
  OBVIOUS
<1>3. D # None
  BY <1>2, PerAxisIsSome DEF None
<1>4. DeltaTo(cells, from, m) =
        IF \E a \in Axes : BlockDelta(cells[a], from[a], m) = {} THEN None ELSE D
  BY <1>2 DEF DeltaTo
<1>5. \A a \in Axes : BlockDelta(cells[a], from[a], m) = {} <=> Flat(cells[a]) - Flat(from[a]) \notin -m..m
  BY <1>1
<1>6. ASSUME \A a \in Axes : Flat(cells[a]) - Flat(from[a]) \in -m..m
      PROVE  D = [a \in Axes |-> Flat(cells[a]) - Flat(from[a])]
  <2>1. ASSUME NEW a \in Axes
        PROVE  (CHOOSE d \in BlockDelta(cells[a], from[a], m) : TRUE) = Flat(cells[a]) - Flat(from[a])
    <3>1. BlockDelta(cells[a], from[a], m) = {Flat(cells[a]) - Flat(from[a])}
      BY <1>1, <1>6
    <3> QED
      BY <3>1
  <2> QED
    BY <1>2, <2>1
<1> QED
  BY <1>3, <1>4, <1>5, <1>6

\* toLocal and relativeToGroup, for a position that is exact: the way in steps.
LEMMA ToLocalIs ==
  ASSUME NEW position, NEW from, NEW m, Fits(m), NEW far,
         \A a \in Axes : /\ Canonical(position[a].cell) /\ Canonical(from[a])
                         /\ position[a].fraction \in 0..(Sub - 1) /\ far[a] \in Int
                         /\ Flat(position[a].cell) * Sub + position[a].fraction = far[a]
  PROVE  /\ ToLocal(position, from, m) = None
              <=> \E a \in Axes : Flat(position[a].cell) - Flat(from[a]) \notin -m..m
         /\ ToLocal(position, from, m) # None =>
              /\ ToLocal(position, from, m) \in [Axes -> Int]
              /\ \A a \in Axes : Flat(from[a]) * Sub + ToLocal(position, from, m)[a] = far[a]
<1>1. PICK cells : cells = Cells(position)
  OBVIOUS
<1>2. \A a \in Axes : cells[a] = position[a].cell
  BY <1>1 DEF Cells
<1>3. PICK delta : delta = DeltaTo(cells, from, m)
  OBVIOUS
<1>4. /\ delta = None <=> \E a \in Axes : Flat(position[a].cell) - Flat(from[a]) \notin -m..m
      /\ delta # None => delta = [a \in Axes |-> Flat(position[a].cell) - Flat(from[a])]
  <2>1. \A a \in Axes : Canonical(cells[a]) /\ Canonical(from[a])
    BY <1>2
  <2>2. /\ delta = None <=> \E a \in Axes : Flat(cells[a]) - Flat(from[a]) \notin -m..m
        /\ delta # None => delta = [a \in Axes |-> Flat(cells[a]) - Flat(from[a])]
    BY <1>3, <2>1, DeltaToIs
  <2> QED
    BY <1>2, <2>2
<1>5. PICK L : L = [a \in Axes |-> delta[a] * Sub + position[a].fraction]
  OBVIOUS
<1>6. ToLocal(position, from, m) = IF delta = None THEN None ELSE L
  BY <1>1, <1>3, <1>5 DEF ToLocal
<1>7. L # None
  BY <1>5, PerAxisIsSome DEF None
<1>8. ASSUME delta # None, NEW a \in Axes
      PROVE  L[a] \in Int /\ Flat(from[a]) * Sub + L[a] = far[a]
  <2>1. PICK x, y, s, f : /\ x = Flat(position[a].cell) /\ y = Flat(from[a])
                          /\ s = Sub /\ f = position[a].fraction
    OBVIOUS
  <2>2. s \in Nat \ {0}
    BY <2>1, ViewFacts
  <2>3. x \in Int /\ y \in Int /\ f \in 0..(s - 1) /\ x * s + f = far[a] /\ far[a] \in Int
    BY <2>1, CanonicalFlat
  <2>4. L[a] = (x - y) * s + f
    BY <1>4, <1>5, <1>8, <2>1
  <2>5. (x - y) * s = x * s - y * s /\ x * s \in Int /\ y * s \in Int /\ f \in Int
    BY <2>2, <2>3
  <2>6. (x - y) * s + f \in Int /\ y * s + ((x - y) * s + f) = x * s + f
    BY <2>5
  <2> QED
    BY <2>1, <2>3, <2>4, <2>6
<1>9. delta # None => L \in [Axes -> Int]
  BY <1>5, <1>8
<1> QED
  BY <1>4, <1>6, <1>7, <1>8, <1>9
-----------------------------------------------------------------------------
(* The sticky anchor.                                                      *)

LEMMA GroupStepsIs == GroupSteps \in Nat \ {0} /\ GroupSteps = GroupEdge * Sub
<1>1. \A x, y \in Nat \ {0} : x * y \in Nat \ {0}
  OBVIOUS
<1> QED
  BY <1>1, GroupEdgeIs, ViewFacts DEF GroupSteps

\* A position, by its group and its place in the group.
LEMMA PlaceInGroup ==
  ASSUME NEW cell, Canonical(cell), NEW fraction \in 0..(Sub - 1)
  PROVE  /\ GroupLocal(cell) + fraction \in 0..(GroupSteps - 1)
         /\ Flat(cell) * Sub + fraction = Flat(GroupOf(cell)) * Sub + (GroupLocal(cell) + fraction)
<1>1. PICK g, e, p, s, f : /\ g = F3(cell) /\ e = GroupEdge /\ s = Sub /\ f = fraction
                           /\ p = cell[2] * Radix[1] + cell[1]
  OBVIOUS
<1>2. Digits(cell)
  BY CanonicalIs
<1>3. g \in Int /\ e \in Nat \ {0} /\ s \in Nat \ {0}
  BY <1>1, <1>2, PartsInt, GroupEdgeIs, ViewFacts
<1>4. Flat(cell) = g * e + p /\ p \in 0..(e - 1) /\ f \in 0..(s - 1)
  BY <1>1, <1>2, FlatByGroup
<1>5. Flat(GroupOf(cell)) = g * e
  BY <1>1, <1>2, GroupOfIs, GroupFlat
<1>6. GroupLocal(cell) = p * s
  BY <1>1 DEF GroupLocal, Chunk, Block
<1>7. p * s + s <= e * s
  BY <1>3, <1>4, MulLess
<1>8. p * s \in Nat /\ e * s \in Nat /\ g * e \in Int
  BY <1>3, <1>4
<1>9. p * s + f \in 0..(e * s - 1)
  BY <1>3, <1>4, <1>7, <1>8
<1>10. (g * e + p) * s = (g * e) * s + p * s /\ (g * e) * s \in Int
  BY <1>3, <1>4, <1>8
<1>11. (g * e + p) * s + f = (g * e) * s + (p * s + f)
  BY <1>4, <1>8, <1>10
<1> QED
  BY <1>1, <1>4, <1>5, <1>6, <1>9, <1>11, GroupStepsIs

\* Past the band, the shift brings the camera back into it; inside, there is none.
LEMMA ShiftIs ==
  ASSUME NEW local \in Int
  PROVE  /\ Shift(local) \in Int
         /\ 10 * (local - Shift(local) * GroupSteps) \in -Limit..Limit
         /\ 10 * local \in -Limit..Limit => Shift(local) = 0
         /\ local \in (-2 * GroupSteps)..(3 * GroupSteps - 1) => Shift(local) \in -3..3
<1>1. PICK g, t, m : g = GroupSteps /\ t = ThresholdTenths /\ m = Limit
  OBVIOUS
<1>2. g \in Nat \ {0} /\ t \in 6..9 /\ m = t * g
  BY <1>1, GroupStepsIs, ViewFacts DEF Limit
<1>3. m \in Nat /\ 6 * g <= m /\ m <= 9 * g
  BY <1>2
<1>4. ASSUME NEW n \in Int, n > m
      PROVE  /\ (n - m) \div (10 * g) \in Nat
             /\ n - ((n - m) \div (10 * g) + 1) * (10 * g) \in (-m)..m
             /\ n < 30 * g => (n - m) \div (10 * g) + 1 \in 0..3
  <2>1. PICK q, r, e : e = 10 * g /\ q = (n - m) \div e /\ r = (n - m) % e
    OBVIOUS
  <2>2. e \in Nat \ {0} /\ n - m \in Int
    BY <1>2, <1>3, <2>1
  <2>3. q \in Int /\ r \in 0..(e - 1) /\ n - m = e * q + r
    BY <2>1, <2>2, DivMod
  <2>4. e * q \in Int /\ (q + 1) * e = e * q + e
    BY <2>2, <2>3
  <2>5. n - (q + 1) * e = m + r - e
    BY <1>3, <2>2, <2>3, <2>4
  <2>6. m + r - e \in (-m)..m
    BY <1>2, <1>3, <2>1, <2>2, <2>3
  <2>7. q >= 0
    <3>1. SUFFICES ASSUME q < 0 PROVE FALSE
      BY <2>3
    <3>2. q * e + e <= 0 * e
      BY <2>2, <2>3, <3>1, MulLess
    <3> QED
      BY <1>3, <1>4, <2>2, <2>3, <2>4, <3>2
  <2>8. n < 30 * g => q < 3
    <3>1. SUFFICES ASSUME n < 30 * g, 3 <= q PROVE FALSE
      BY <2>3
    <3>2. 3 * e <= q * e
      BY <2>2, <2>3, <3>1
    <3> QED
      BY <1>2, <1>3, <2>1, <2>2, <2>3, <2>4, <3>1, <3>2
  <2>9. q \in Nat /\ n - (q + 1) * e \in (-m)..m /\ (n < 30 * g => q + 1 \in 0..3)
    BY <2>3, <2>5, <2>6, <2>7, <2>8
  <2> QED
    BY <2>1, <2>9
<1>5. CASE 10 * local > m
  <2>1. PICK s : s = ((10 * local - m) \div (10 * g)) + 1
    OBVIOUS
  <2>2. s \in Nat /\ 10 * local - s * (10 * g) \in -m..m /\ (10 * local < 30 * g => s \in 0..3)
    BY <1>3, <1>4, <1>5, <2>1
  <2>3. Shift(local) = s
    BY <1>1, <1>5, <2>1 DEF Shift
  <2>4. s * (10 * g) = 10 * (s * g) /\ s * g \in Int
    BY <1>2, <2>2
  <2>5. 10 * (local - s * g) = 10 * local - s * (10 * g)
    BY <2>4
  <2> QED
    BY <1>1, <1>2, <1>3, <1>5, <2>2, <2>3, <2>5
<1>6. CASE 10 * local < -m
  <2>1. PICK s : s = ((-10 * local - m) \div (10 * g)) + 1
    OBVIOUS
  <2>2. s \in Nat /\ -10 * local - s * (10 * g) \in -m..m /\ (-10 * local < 30 * g => s \in 0..3)
    BY <1>3, <1>4, <1>6, <2>1
  <2>3. Shift(local) = -s
    BY <1>1, <1>3, <1>6, <2>1 DEF Shift
  <2>4. s * (10 * g) = 10 * (s * g) /\ (-s) * g = -(s * g) /\ s * g \in Int
    BY <1>2, <2>2
  <2>5. 10 * (local - (-s) * g) = -(-10 * local - s * (10 * g))
    BY <2>4
  <2> QED
    BY <1>1, <1>2, <1>3, <1>6, <2>2, <2>3, <2>5
<1>7. CASE 10 * local \in -m..m
  <2>1. Shift(local) = 0
    BY <1>1, <1>3, <1>7 DEF Shift
  <2>2. 0 * g = 0 /\ local - 0 = local
    BY <1>2
  <2> QED
    BY <1>1, <1>7, <2>1, <2>2
<1> QED
  BY <1>3, <1>5, <1>6, <1>7

\* An offset of groups from a group, as GroupLeads says it.
LEMMA GroupOffset ==
  ASSUME NEW base, Canonical(base), GroupOf(base) = base, NEW d \in Int64
  PROVE  TryOffset(Group, base, d) # NoAddress =>
           /\ Canonical(TryOffset(Group, base, d))
           /\ GroupOf(TryOffset(Group, base, d)) = TryOffset(Group, base, d)
           /\ Flat(TryOffset(Group, base, d)) = Flat(base) + d * GroupEdge
<1>1. PICK to : to = TryOffset(Group, base, d)
  OBVIOUS
<1>2. PICK sum : sum = Flat(base) + d * GroupEdge
  OBVIOUS
<1>3. /\ sum \in Addressable => Canonical(to) /\ Flat(to) = sum
      /\ sum \notin Addressable => to = NoAddress
  BY <1>1, <1>2, GroupLeads DEF Leads
<1>4. to # NoAddress => GroupOf(to) = to
  BY <1>1, GroupToGroup
<1> QED
  BY <1>1, <1>2, <1>3, <1>4

\* No offset is no move.
LEMMA NoGroupOffset ==
  ASSUME NEW base, Canonical(base), GroupOf(base) = base
  PROVE  TryOffset(Group, base, 0) = base
<1>1. 0 \in Int64 /\ 0 * GroupEdge = 0
  BY RadixFacts, GroupEdgeIs DEF Int64
<1>2. PICK to : to = TryOffset(Group, base, 0)
  OBVIOUS
<1>3. /\ Flat(base) + 0 * GroupEdge \in Addressable => Canonical(to) /\ Flat(to) = Flat(base) + 0 * GroupEdge
  BY <1>1, <1>2, GroupLeads DEF Leads
<1>4. Flat(base) \in Int /\ Flat(base) \in Addressable
  BY CanonicalFlat
<1>5. Canonical(to) /\ Flat(to) = Flat(base)
  BY <1>1, <1>3, <1>4
<1> QED
  BY <1>2, <1>5, CanonicalIs, FlatDecides

\* Between a place in a group and an origin not far away, the way in steps, and in
\* groups.
LEMMA WayFromOwner ==
  ASSUME NEW e \in Nat \ {0}, NEW s \in Nat \ {0}, NEW x \in Int, NEW y \in Int,
         NEW local \in 0..(e * s - 1)
  PROVE  /\ \A d \in -2..2 : y + d * e = x =>
              /\ d * (e * s) + local = (x * s + local) - y * s
              /\ (x * s + local) - y * s \in (-2 * (e * s))..(3 * (e * s) - 1)
         /\ (x * s + local) - y * s \in (-2 * (e * s))..(3 * (e * s) - 1) =>
              \A d \in Int : y + d * e = x => d \in -2..2
  OBVIOUS

\* How far the camera is from an origin of the scene, in groups and in steps.
LEMMA GroupsAway ==
  ASSUME NEW cell, NEW fraction \in 0..(Sub - 1), NEW group,
         Canonical(cell), Canonical(group), GroupOf(group) = group,
         NEW away, away = (Flat(cell) * Sub + fraction) - Flat(group) * Sub
  PROVE  /\ away \in Int
         /\ GroupDelta(GroupOf(cell), group, 2) = {} => away \notin (-2 * GroupSteps)..(3 * GroupSteps - 1)
         /\ \A d \in GroupDelta(GroupOf(cell), group, 2) :
              /\ d * GroupSteps + (GroupLocal(cell) + fraction) = away
              /\ away \in (-2 * GroupSteps)..(3 * GroupSteps - 1)
<1>1. PICK e, s, x, y, local : /\ e = GroupEdge /\ s = Sub /\ x = Flat(GroupOf(cell)) /\ y = Flat(group)
                               /\ local = GroupLocal(cell) + fraction
  OBVIOUS
<1>2. Canonical(GroupOf(cell)) /\ GroupOf(GroupOf(cell)) = GroupOf(cell)
  BY GroupOfCanonical
<1>3. e \in Nat \ {0} /\ s \in Nat \ {0} /\ GroupSteps = e * s /\ x \in Int /\ y \in Int
  BY <1>1, <1>2, GroupEdgeIs, ViewFacts, GroupStepsIs, CanonicalFlat
<1>4. local \in 0..(e * s - 1) /\ Flat(cell) * Sub + fraction = x * s + local
  BY <1>1, <1>3, PlaceInGroup
<1>5. away = (x * s + local) - y * s
  BY <1>1, <1>4
<1>6. GroupDelta(GroupOf(cell), group, 2) = {d \in -2..2 : y + d * e = x}
  BY <1>1, <1>2, GroupDeltaIs, ViewFacts DEF Fits
<1>7. \E d \in Int : y + d * e = x
  <2>1. Digits(GroupOf(cell)) /\ Digits(group)
    BY <1>2, CanonicalIs
  <2>2. x = F3(GroupOf(cell)) * e /\ y = F3(group) * e
    BY <1>1, <1>2, <2>1, GroupOfIs, GroupFlat
  <2>3. PICK p, q : p = F3(GroupOf(cell)) /\ q = F3(group)
    OBVIOUS
  <2>4. p \in Int /\ q \in Int /\ p - q \in Int
    BY <2>1, <2>3, PartsInt
  <2>5. q * e + (p - q) * e = p * e
    BY <1>3, <2>4
  <2> QED
    BY <2>2, <2>3, <2>4, <2>5
<1>8. /\ \A d \in -2..2 : y + d * e = x =>
              /\ d * (e * s) + local = away
              /\ away \in (-2 * (e * s))..(3 * (e * s) - 1)
      /\ away \in (-2 * (e * s))..(3 * (e * s) - 1) =>
              \A d \in Int : y + d * e = x => d \in -2..2
  BY <1>3, <1>4, <1>5, WayFromOwner
<1>9. away \in Int
  <2>1. x * s \in Int /\ y * s \in Int /\ local \in Int
    BY <1>3, <1>4
  <2> QED
    BY <1>5, <2>1
<1> QED
  BY <1>1, <1>3, <1>6, <1>7, <1>8, <1>9

\* Where the camera is: an exact position, and an origin of the scene.
Known(position, far) ==
  \A a \in Axes : /\ Canonical(position[a].cell) /\ position[a].fraction \in 0..(Sub - 1)
                  /\ far[a] \in Int
                  /\ Flat(position[a].cell) * Sub + position[a].fraction = far[a]
Origins(groups) == \A a \in Axes : Canonical(groups[a]) /\ GroupOf(groups[a]) = groups[a]
Away(far, groups, a) == far[a] - Flat(groups[a]) * Sub

\* update: groups again, and unless the camera has jumped away on some axis, on every
\* axis the origin stays while the camera is in its band, and the camera is in the
\* band of the new one.
LEMMA UpdatedIs ==
  ASSUME NEW position, NEW far, Known(position, far), Origins(owner),
         \A a \in Axes : Updated(position)[a] # NoAddress
  PROVE  /\ Origins(Updated(position))
         /\ \/ \E a \in Axes : Away(far, owner, a) \notin (-2 * GroupSteps)..(3 * GroupSteps - 1)
            \/ \A a \in Axes : /\ 10 * Away(far, owner, a) \in -Limit..Limit
                                    => Updated(position)[a] = owner[a]
                               /\ 10 * Away(far, Updated(position), a) \in -Limit..Limit
<1>1. PICK new : new = Updated(position)
  OBVIOUS
<1> DEFINE groups(a) == GroupDelta(GroupOf(position[a].cell), owner[a], 2)
           local(a) == (CHOOSE d \in groups(a) : TRUE) * GroupSteps
                         + GroupLocal(position[a].cell) + position[a].fraction
<1>2. new = IF \E a \in Axes : groups(a) = {}
            THEN [a \in Axes |-> GroupOf(position[a].cell)]
            ELSE [a \in Axes |-> TryOffset(Group, owner[a], Shift(local(a)))]
  BY <1>1 DEF Updated
<1>3. ASSUME NEW a \in Axes
      PROVE  /\ Away(far, owner, a) \in Int
             /\ groups(a) = {} => Away(far, owner, a) \notin (-2 * GroupSteps)..(3 * GroupSteps - 1)
             /\ groups(a) # {} => /\ local(a) = Away(far, owner, a)
                                  /\ Away(far, owner, a) \in (-2 * GroupSteps)..(3 * GroupSteps - 1)
  <2>1. PICK cell, fraction, group : cell = position[a].cell /\ fraction = position[a].fraction /\ group = owner[a]
    OBVIOUS
  <2>2. /\ Canonical(cell) /\ fraction \in 0..(Sub - 1) /\ Canonical(group) /\ GroupOf(group) = group
        /\ Flat(cell) * Sub + fraction = far[a]
    BY <2>1 DEF Known, Origins
  <2>3. Away(far, owner, a) = (Flat(cell) * Sub + fraction) - Flat(group) * Sub
    BY <2>1, <2>2 DEF Away
  <2>4. /\ Away(far, owner, a) \in Int
        /\ groups(a) = {} => Away(far, owner, a) \notin (-2 * GroupSteps)..(3 * GroupSteps - 1)
        /\ \A d \in groups(a) : /\ d * GroupSteps + (GroupLocal(cell) + fraction) = Away(far, owner, a)
                                /\ Away(far, owner, a) \in (-2 * GroupSteps)..(3 * GroupSteps - 1)
    BY <2>1, <2>2, <2>3, GroupsAway
  <2>5. ASSUME groups(a) # {} PROVE local(a) = Away(far, owner, a)
    <3>1. PICK d : d = CHOOSE n \in groups(a) : TRUE
      OBVIOUS
    <3>2. d \in groups(a)
      BY <2>5, <3>1
    <3>3. local(a) = d * GroupSteps + GroupLocal(cell) + fraction
      BY <2>1, <3>1
    <3>4. d \in Int
      <4>1. \A n \in groups(a) : n \in -2..2
        BY <2>1, <2>2, GroupOfCanonical, GroupDeltaIs, ViewFacts DEF Fits
      <4> QED
        BY <3>2, <4>1
    <3>5. d * GroupSteps \in Int /\ GroupLocal(cell) \in Int /\ fraction \in Int
      <4>1. d * GroupSteps \in Int
        BY <3>4, GroupStepsIs
      <4>2. GroupLocal(cell) + fraction \in Int /\ fraction \in Int
        BY <2>2, PlaceInGroup, GroupStepsIs, ViewFacts
      <4>3. GroupLocal(cell) \in Int
        <5>1. cell[1] \in Int /\ cell[2] \in Int /\ Radix[1] \in Int
          BY <2>2, CanonicalIs, RadixFacts DEF Digits
        <5>2. cell[2] * Radix[1] \in Int
          BY <5>1
        <5>3. (cell[2] * Radix[1] + cell[1]) * Sub \in Int
          BY <5>1, <5>2, ViewFacts
        <5> QED
          BY <5>3 DEF GroupLocal, Block, Chunk
      <4> QED
        BY <4>1, <4>2, <4>3
    <3> QED
      BY <2>4, <3>2, <3>3, <3>5
  <2> QED
    BY <2>4, <2>5
<1>4. CASE \E a \in Axes : groups(a) = {}
  <2>1. \A a \in Axes : new[a] = GroupOf(position[a].cell)
    BY <1>2, <1>4
  <2>2. Origins(new)
    BY <2>1, GroupOfCanonical DEF Origins, Known
  <2> QED
    BY <1>1, <1>3, <1>4, <2>2
<1>5. CASE \A a \in Axes : groups(a) # {}
  <2>1. \A a \in Axes : new[a] = TryOffset(Group, owner[a], Shift(Away(far, owner, a)))
    BY <1>2, <1>3, <1>5
  <2>2. ASSUME NEW a \in Axes
        PROVE  /\ Canonical(new[a]) /\ GroupOf(new[a]) = new[a]
               /\ 10 * Away(far, owner, a) \in -Limit..Limit => new[a] = owner[a]
               /\ 10 * Away(far, new, a) \in -Limit..Limit
    <3>1. PICK l, n, y : l = Away(far, owner, a) /\ n = Shift(l) /\ y = owner[a]
      OBVIOUS
    <3>2. /\ l \in Int /\ n \in Int
          /\ 10 * (l - n * GroupSteps) \in -Limit..Limit
          /\ 10 * l \in -Limit..Limit => n = 0
          /\ n \in -3..3
      BY <1>3, <1>5, <3>1, ShiftIs
    <3>3. n \in Int64
      BY <3>2, ViewFacts, RadixFacts DEF Fits, Int64
    <3>4. Canonical(y) /\ GroupOf(y) = y
      BY <3>1 DEF Origins
    <3>5. new[a] = TryOffset(Group, y, n) /\ new[a] # NoAddress
      BY <1>1, <2>1, <3>1
    <3>6. /\ Canonical(new[a]) /\ GroupOf(new[a]) = new[a]
          /\ Flat(new[a]) = Flat(y) + n * GroupEdge
      BY <3>3, <3>4, <3>5, GroupOffset
    <3>7. n = 0 => new[a] = y
      BY <3>4, <3>5, NoGroupOffset
    <3>8. Away(far, new, a) = l - n * GroupSteps
      <4>1. PICK f, g, e, s, t : /\ f = Flat(y) /\ g = Flat(new[a]) /\ e = GroupEdge /\ s = Sub
                                 /\ t = far[a]
        OBVIOUS
      <4>2. f \in Int /\ e \in Int /\ s \in Int /\ t \in Int /\ GroupSteps = e * s
        BY <3>4, <4>1, CanonicalFlat, GroupEdgeIs, ViewFacts, GroupStepsIs DEF Known
      <4>3. l = t - f * s /\ Away(far, new, a) = t - g * s /\ g = f + n * e
        BY <3>1, <3>6, <4>1 DEF Away
      <4>4. (f + n * e) * s = f * s + n * (e * s)
        BY <3>2, <4>2
      <4>5. f * s \in Int /\ n * (e * s) \in Int
        BY <3>2, <4>2
      <4> QED
        BY <4>2, <4>3, <4>4, <4>5
    <3> QED
      BY <3>1, <3>2, <3>6, <3>7, <3>8
  <2> QED
    BY <1>1, <2>2 DEF Origins
<1> QED
  BY <1>4, <1>5
-----------------------------------------------------------------------------
(* The steps of a frame.                                                   *)

\* The outline of a block is hidden, or it is where the block is from the origin.
LEMMA OutlineIs ==
  ASSUME NEW block \in Targets \cup {None}, NEW from, Origins(from)
  PROVE  /\ Outline(block, from) = Hidden \/ Outline(block, from) \in [Axes -> -BackendBlocks..BackendBlocks]
         /\ Outline(block, from) # Hidden =>
              block # None /\ \A a \in Axes : Flat(from[a]) + Outline(block, from)[a] = Flat(block[a])
         /\ Outline(block, from) = Hidden /\ block # None =>
              \E a \in Axes : Flat(block[a]) - Flat(from[a]) \notin -BackendBlocks..BackendBlocks
<1>1. CASE block = None
  BY <1>1 DEF Outline
<1>2. CASE block # None
  <2>1. \A a \in Axes : Canonical(block[a]) /\ Canonical(from[a])
    BY <1>2, ViewAssumption DEF Origins, Addresses
  <2>2. PICK D : D = DeltaTo(block, from, BackendBlocks)
    OBVIOUS
  <2>3. /\ D = None <=> \E a \in Axes : Flat(block[a]) - Flat(from[a]) \notin -BackendBlocks..BackendBlocks
        /\ D # None => D = [a \in Axes |-> Flat(block[a]) - Flat(from[a])]
    BY <2>1, <2>2, ViewFacts, DeltaToIs
  <2>4. Outline(block, from) = D /\ Hidden = None
    BY <1>2, <2>2 DEF Outline, Hidden, None
  <2>5. \A a \in Axes : Flat(block[a]) \in Int /\ Flat(from[a]) \in Int
    BY <2>1, CanonicalFlat
  <2>6. D # None => D \in [Axes -> -BackendBlocks..BackendBlocks]
    BY <2>3
  <2>7. D # None => \A a \in Axes : Flat(from[a]) + D[a] = Flat(block[a])
    BY <2>3, <2>5
  <2> QED
    BY <1>2, <2>3, <2>4, <2>6, <2>7
<1> QED
  BY <1>1, <1>2

\* The origin is an address, and its number is zero.
LEMMA OriginIs == Canonical(Origin) /\ Flat(Origin) = 0
<1>1. Origin = [i \in 1..6 |-> 0]
  BY RadixFacts DEF Origin
<1>2. Digits(Origin) /\ \A i \in 1..6 : Origin[i] = 0
  BY <1>1, RadixFacts DEF Digits
<1>3. F5(Origin) = 0
  BY <1>2, RadixFacts DEF F5, Above
<1>4. F4(Origin) = 0
  BY <1>2, <1>3, RadixFacts DEF F4, Above
<1>5. F3(Origin) = 0
  BY <1>2, <1>4, RadixFacts DEF F3, Above
<1>6. F2(Origin) = 0
  BY <1>2, <1>5, RadixFacts DEF F2, Above
<1>7. Flat(Origin) = 0
  BY <1>2, <1>6, RadixFacts, FlatIs DEF Above
<1> QED
  BY <1>2, <1>7, CanonicalIs, RadixFacts DEF Int64

\* The first position: in DynamicSpace, exact, with an origin for the scene.
LEMMA StartIs ==
  ASSUME NEW start, start = [a \in Axes |-> [cell |-> TryOffset(Block, Origin, Start[a]), fraction |-> 0]]
  PROVE  /\ Known(start, [a \in Axes |-> Start[a] * Sub])
         /\ ToLocal(start, OriginBlock, EdgeBlocks) \in [Axes -> Range]
         /\ \A a \in Axes : ToLocal(start, OriginBlock, EdgeBlocks)[a] = Start[a] * Sub
         /\ Origins(Teleported(start))
         /\ [a \in Axes |-> Start[a] * Sub] \in [Axes -> Int]
<1>1. PICK h \in Nat \ {0} : EdgeBlocks = 2 * h /\ Half = h * Sub /\ h \in Int64 /\ -h \in Int64
  BY HalfIs
<1>2. ASSUME NEW a \in Axes
      PROVE  /\ Start[a] \in -h..(h - 1) /\ Start[a] \in Int64
             /\ Start[a] * Sub \in Range /\ Start[a] * Sub \in Int
             /\ Canonical(start[a].cell) /\ Flat(start[a].cell) = Start[a]
             /\ start[a].fraction = 0
  <2>1. 2 * Start[a] \in -EdgeBlocks..(EdgeBlocks - 1) /\ Start[a] \in Addressable
    BY StartAssumption
  <2>2. Start[a] \in Int
    <3>1. Digits([i \in 1..6 |-> 0])
      BY RadixFacts DEF Digits
    <3> QED
      BY <2>1 DEF Addressable
  <2>3. Start[a] \in -h..(h - 1)
    BY <1>1, <2>1, <2>2
  <2>4. Start[a] \in Int64
    BY <1>1, <2>3, RadixFacts DEF Int64
  <2>5. PICK n, k : n = Start[a] /\ k = Sub
    OBVIOUS
  <2>6. n * k \in (-(h * k))..(h * k - 1)
    <3>1. n \in -h..(h - 1) /\ k \in Nat \ {0} /\ h \in Nat
      BY <2>3, <2>5, ViewFacts
    <3>2. n * k + k <= h * k
      BY <3>1, MulLess
    <3>3. (-h) * k <= n * k /\ (-h) * k = -(h * k) /\ n * k \in Int /\ h * k \in Int
      BY <3>1
    <3> QED
      BY <3>1, <3>2, <3>3
  <2>7. start[a].cell = TryOffset(Block, Origin, Start[a]) /\ start[a].fraction = 0
    OBVIOUS
  <2>8. 0 + Start[a] = Start[a]
    BY <2>2
  <2>9. Canonical(start[a].cell) /\ Flat(start[a].cell) = Start[a]
    BY <2>1, <2>4, <2>7, <2>8, OriginIs, BlockOffset
  <2>10. Start[a] * Sub \in Range /\ Start[a] * Sub \in Int
    BY <1>1, <2>5, <2>6, ViewFacts DEF Range
  <2> QED
    BY <2>3, <2>4, <2>7, <2>9, <2>10
<1>3. PICK far : far = [a \in Axes |-> Start[a] * Sub]
  OBVIOUS
<1>4. Known(start, far)
  <2>1. ASSUME NEW a \in Axes
        PROVE  /\ start[a].fraction \in 0..(Sub - 1)
               /\ Flat(start[a].cell) * Sub + start[a].fraction = far[a]
    BY <1>2, <1>3, ViewFacts
  <2> QED
    BY <1>2, <1>3, <2>1 DEF Known
<1>5. PICK L : L = ToLocal(start, OriginBlock, EdgeBlocks)
  OBVIOUS
<1>6. \A a \in Axes : OriginBlock[a] = Origin
  BY DEF OriginBlock
<1>7. /\ L = None <=> \E a \in Axes : Flat(start[a].cell) - Flat(OriginBlock[a]) \notin -EdgeBlocks..EdgeBlocks
      /\ L # None =>
              /\ L \in [Axes -> Int]
              /\ \A a \in Axes : Flat(OriginBlock[a]) * Sub + L[a] = far[a]
  <2>1. PICK position, from, m : position = start /\ from = OriginBlock /\ m = EdgeBlocks
    OBVIOUS
  <2>2. Fits(m) /\ L = ToLocal(position, from, m)
    BY <1>5, <2>1, ViewFacts
  <2>3. \A a \in Axes : /\ Canonical(position[a].cell) /\ Canonical(from[a])
                        /\ position[a].fraction \in 0..(Sub - 1) /\ far[a] \in Int
                        /\ Flat(position[a].cell) * Sub + position[a].fraction = far[a]
    BY <1>4, <1>6, <2>1, OriginIs DEF Known
  <2>4. /\ L = None <=> \E a \in Axes : Flat(position[a].cell) - Flat(from[a]) \notin -m..m
        /\ L # None =>
              /\ L \in [Axes -> Int]
              /\ \A a \in Axes : Flat(from[a]) * Sub + L[a] = far[a]
    BY <2>2, <2>3, ToLocalIs
  <2> QED
    BY <2>1, <2>4
<1>8. L # None
  <2>1. ASSUME NEW a \in Axes
        PROVE  Flat(start[a].cell) - Flat(OriginBlock[a]) \in -EdgeBlocks..EdgeBlocks
    <3>1. Flat(start[a].cell) = Start[a] /\ Flat(OriginBlock[a]) = 0 /\ Start[a] \in -h..(h - 1)
      BY <1>2, <1>6, OriginIs
    <3>2. PICK n : n = Start[a]
      OBVIOUS
    <3>3. n - 0 \in -EdgeBlocks..EdgeBlocks
      BY <1>1, <3>1, <3>2
    <3> QED
      BY <3>1, <3>2, <3>3
  <2> QED
    BY <1>7, <2>1
<1>9. \A a \in Axes : L[a] = Start[a] * Sub
  <2>1. ASSUME NEW a \in Axes PROVE L[a] = Start[a] * Sub
    <3>1. 0 * Sub + L[a] = far[a] /\ L[a] \in Int
      BY <1>6, <1>7, <1>8, OriginIs
    <3>2. 0 * Sub = 0
      BY ViewFacts
    <3> QED
      BY <1>3, <3>1, <3>2
  <2> QED
    BY <2>1
<1>10. L \in [Axes -> Range]
  BY <1>2, <1>7, <1>8, <1>9
<1>11. Origins(Teleported(start))
  <2>1. ASSUME NEW a \in Axes
        PROVE  Canonical(Teleported(start)[a]) /\ GroupOf(Teleported(start)[a]) = Teleported(start)[a]
    <3>1. PICK cell, group, to : /\ cell = start[a].cell /\ group = GroupOf(cell)
                                 /\ to = TryOffset(Group, group, 1)
      OBVIOUS
    <3>2. Canonical(group) /\ GroupOf(group) = group
      BY <1>2, <3>1, GroupOfCanonical
    <3>3. Teleported(start)[a] = group \/ Teleported(start)[a] = to
      BY <3>1 DEF Teleported
    <3>4. 1 \in Int64 /\ 1 * GroupEdge = GroupEdge
      BY ViewFacts, RadixFacts, GroupEdgeIs DEF Fits, Int64
    <3>5. to # NoAddress
      <4>1. Digits(cell) /\ F3(cell) \in Int
        BY <1>2, <3>1, CanonicalIs, PartsInt
      <4>2. /\ Flat(cell) = F3(cell) * GroupEdge + (cell[2] * Radix[1] + cell[1])
            /\ cell[2] * Radix[1] + cell[1] \in 0..(GroupEdge - 1)
        BY <4>1, FlatByGroup
      <4>3. Flat(group) = F3(cell) * GroupEdge
        BY <3>1, <4>1, GroupOfIs, GroupFlat
      <4>4. Flat(group) \in Int /\ Flat(group) <= Start[a]
        BY <1>2, <3>1, <3>2, <4>2, <4>3, CanonicalFlat, GroupEdgeIs
      <4>5. Flat(group) \in Addressable /\ Start[a] + GroupEdge \in Addressable /\ GroupEdge \in Nat
        BY <3>2, CanonicalFlat, StartAssumption, GroupEdgeIs
      <4>6. Start[a] \in Int
        BY <1>2, RadixFacts DEF Int64
      <4>7. Flat(group) + GroupEdge \in Addressable
        <5>1. PICK low, high : Addressable = low..high /\ low \in Int /\ high \in Int
          BY AddressableInterval
        <5> QED
          BY <4>4, <4>5, <4>6, <5>1
      <4>8. Canonical(to)
        BY <3>1, <3>2, <3>4, <4>7, GroupLeads DEF Leads
      <4> QED
        BY <4>8, NoAddressIsNone
    <3>6. Canonical(to) /\ GroupOf(to) = to
      BY <3>1, <3>2, <3>4, <3>5, GroupOffset
    <3> QED
      BY <3>2, <3>3, <3>6
  <2> QED
    BY <2>1 DEF Origins
<1> QED
  BY <1>2, <1>3, <1>4, <1>5, <1>9, <1>10, <1>11

\* What is left of a coordinate after a rebase is in DynamicSpace.
LEMMA RebaseIs ==
  ASSUME NEW c \in Int
  PROVE  AxisRebaseDelta(c) \in Int /\ c - AxisRebaseDelta(c) * Sub \in Range
<1>1. PICK h \in Nat \ {0} : EdgeBlocks = 2 * h /\ Half = h * Sub /\ h \in Int64 /\ -h \in Int64
  BY HalfIs
<1>2. PICK s, m, e : s = Sub /\ m = Half /\ e = EdgeBlocks * Sub
  OBVIOUS
<1>3. s \in Nat \ {0} /\ m \in Nat \ {0} /\ e = 2 * m
  <2>1. s \in Nat \ {0} /\ m = h * s /\ e = (2 * h) * s
    BY <1>1, <1>2, ViewFacts
  <2>2. h * s \in Nat \ {0} /\ (2 * h) * s = 2 * (h * s)
    BY <2>1
  <2> QED
    BY <2>1, <2>2
<1>4. CASE c \in -m..(m - 1)
  <2>1. AxisRebaseDelta(c) = 0
    BY <1>2, <1>4 DEF AxisRebaseDelta
  <2>2. c - 0 * Sub = c
    BY ViewFacts
  <2> QED
    BY <1>2, <1>4, <2>1, <2>2 DEF Range
<1>5. CASE c \notin -m..(m - 1)
  <2>1. PICK q, r : q = (c + m) \div e /\ r = (c + m) % e
    OBVIOUS
  <2>2. q \in Int /\ r \in 0..(e - 1) /\ c + m = e * q + r
    <3>1. c + m \in Int /\ e \in Nat \ {0}
      BY <1>3
    <3> QED
      BY <2>1, <3>1, DivMod
  <2>3. AxisRebaseDelta(c) = q * EdgeBlocks
    BY <1>2, <1>5, <2>1 DEF AxisRebaseDelta
  <2>4. q * EdgeBlocks \in Int /\ (q * EdgeBlocks) * s = e * q
    <3>1. EdgeBlocks \in Int /\ s \in Int /\ q \in Int /\ e = EdgeBlocks * s
      BY <1>2, <1>3, <2>2, ViewFacts
    <3>2. (q * EdgeBlocks) * s = (EdgeBlocks * s) * q
      BY <3>1
    <3> QED
      BY <3>1, <3>2
  <2>5. c - e * q \in -m..(m - 1)
    <3>1. e * q \in Int
      BY <1>3, <2>2
    <3> QED
      BY <1>3, <2>2, <3>1
  <2> QED
    BY <1>2, <2>3, <2>4, <2>5 DEF Range
<1> QED
  BY <1>4, <1>5

\* The invariant holds at the start.
LEMMA ViewInit == Init => ViewInv
<1> SUFFICES ASSUME Init PROVE ViewInv
  OBVIOUS
<1>1. PICK start : start = [a \in Axes |-> [cell |-> TryOffset(Block, Origin, Start[a]), fraction |-> 0]]
  OBVIOUS
<1>2. /\ camera = ToLocal(start, OriginBlock, EdgeBlocks) /\ owner = Teleported(start)
      /\ anchor = OriginBlock /\ phase = "start" /\ pose = [a \in Axes |-> 0]
      /\ selection = None /\ box = Hidden /\ travelled = [a \in Axes |-> Start[a] * Sub]
  BY <1>1 DEF Init
<1>3. /\ camera \in [Axes -> Range] /\ \A a \in Axes : camera[a] = Start[a] * Sub
      /\ Origins(owner) /\ travelled \in [Axes -> Int]
  BY <1>1, <1>2, StartIs
<1>4. \A a \in Axes : anchor[a] = Origin
  BY <1>2 DEF OriginBlock
<1>5. TypeOK
  <2>1. \A a \in Axes : Canonical(anchor[a]) /\ Canonical(owner[a]) /\ GroupOf(owner[a]) = owner[a]
    BY <1>3, <1>4, OriginIs DEF Origins
  <2> QED
    BY <1>2, <1>3, <2>1 DEF TypeOK, Phases
<1>6. \A a \in Axes : Flat(anchor[a]) * Sub + camera[a] = travelled[a]
  <2>1. ASSUME NEW a \in Axes PROVE Flat(anchor[a]) * Sub + camera[a] = travelled[a]
    <3>1. Flat(anchor[a]) = 0 /\ camera[a] = travelled[a] /\ travelled[a] \in Int
      BY <1>2, <1>3, <1>4, OriginIs
    <3>2. 0 * Sub = 0
      BY ViewFacts
    <3> QED
      BY <3>1, <3>2
  <2> QED
    BY <2>1
<1>7. box = Outline(selection, owner)
  BY <1>2 DEF Outline
<1> QED
  BY <1>2, <1>5, <1>6, <1>7 DEF ViewInv

\* A move keeps camera and anchor together on the way.
LEMMA MoveCameraStep == ViewInv /\ MoveCamera => ViewInv'
<1> SUFFICES ASSUME ViewInv, MoveCamera PROVE ViewInv'
  OBVIOUS
<1>1. PICK way \in Ways, stride \in Strides :
        LET moved == [a \in Axes |-> camera[a] + way[a] * stride]
            delta == [a \in Axes |-> AxisRebaseDelta(moved[a])]
            shifted == ShiftedAnchor(delta)
            failed == (\E a \in Axes : delta[a] \notin Int64) \/ shifted = None
        IN /\ travelled' = [a \in Axes |-> travelled[a] + way[a] * stride]
           /\ phase' = IF failed THEN "failed" ELSE "view"
           /\ camera' = IF failed THEN moved ELSE Rebased(moved, delta)
           /\ anchor' = IF failed THEN anchor ELSE shifted
  BY DEF MoveCamera
<1> DEFINE moved == [a \in Axes |-> camera[a] + way[a] * stride]
           delta == [a \in Axes |-> AxisRebaseDelta(moved[a])]
           shifted == ShiftedAnchor(delta)
           failed == (\E a \in Axes : delta[a] \notin Int64) \/ shifted = None
<1>2. phase = "poll" /\ UNCHANGED <<owner, pose, selection, box>>
  BY DEF MoveCamera
<1>3. /\ camera \in [Axes -> Range] /\ travelled \in [Axes -> Int]
      /\ \A a \in Axes : Canonical(anchor[a]) /\ Canonical(owner[a]) /\ GroupOf(owner[a]) = owner[a]
      /\ \A a \in Axes : Flat(anchor[a]) * Sub + camera[a] = travelled[a]
      /\ pose \in [Axes -> Int] /\ selection \in Targets \cup {None}
      /\ box = Hidden \/ box \in [Axes -> -BackendBlocks..BackendBlocks]
      /\ box = Outline(selection, owner)
  BY <1>2 DEF ViewInv, TypeOK
<1>4. ASSUME NEW a \in Axes
      PROVE  /\ camera[a] \in Int /\ way[a] * stride \in Int
             /\ moved[a] = camera[a] + way[a] * stride /\ moved[a] \in Int
             /\ delta[a] = AxisRebaseDelta(moved[a]) /\ delta[a] \in Int
             /\ moved[a] - delta[a] * Sub \in Range
  <2>1. camera[a] \in Range
    BY <1>3
  <2>2. camera[a] \in Int
    BY <2>1, RangeFits
  <2>3. way[a] \in {-1, 0, 1} /\ stride \in Nat
    BY ViewAssumption DEF Ways
  <2>4. way[a] * stride \in Int
    BY <2>3
  <2>5. moved[a] = camera[a] + way[a] * stride /\ delta[a] = AxisRebaseDelta(moved[a])
    BY <1>1
  <2>6. moved[a] \in Int
    BY <2>2, <2>4, <2>5
  <2> QED
    BY <2>2, <2>4, <2>5, <2>6, RebaseIs
<1>5. travelled' \in [Axes -> Int]
  BY <1>1, <1>3, <1>4
<1>6. CASE (\E a \in Axes : delta[a] \notin Int64) \/ shifted = None
  <2>1. phase' = "failed" /\ anchor' = anchor
    BY <1>1, <1>6
  <2>2. TypeOK'
    BY <1>2, <1>3, <1>5, <2>1 DEF TypeOK, Phases
  <2> QED
    BY <1>2, <1>3, <2>1, <2>2 DEF ViewInv
<1>7. CASE ~((\E a \in Axes : delta[a] \notin Int64) \/ shifted = None)
  <2>1. phase' = "view" /\ camera' = Rebased(moved, delta) /\ anchor' = shifted
    BY <1>1, <1>7
  <2>2. /\ \A a \in Axes : delta[a] \in Int64
        /\ \A a \in Axes : TryOffset(Block, anchor[a], delta[a]) # NoAddress
        /\ shifted = [a \in Axes |-> TryOffset(Block, anchor[a], delta[a])]
    <3>1. \A a \in Axes : delta[a] \in Int64
      BY <1>7
    <3>2. PICK cell : cell = [a \in Axes |-> TryOffset(Block, anchor[a], delta[a])]
      OBVIOUS
    <3>3. shifted = cell /\ cell \in [Axes -> Addresses]
      BY <1>7, <3>2 DEF ShiftedAnchor
    <3>4. \A a \in Axes : cell[a] # NoAddress
      BY <1>3, <3>1, <3>2, <3>3, OffsetsAre
    <3> QED
      BY <3>1, <3>2, <3>3, <3>4
  <2>3. ASSUME NEW a \in Axes
        PROVE  /\ Canonical(anchor'[a]) /\ camera'[a] \in Range
               /\ Flat(anchor'[a]) * Sub + camera'[a] = travelled'[a]
    <3>1. anchor'[a] = TryOffset(Block, anchor[a], delta[a])
      BY <2>1, <2>2
    <3>2. Canonical(anchor'[a]) /\ Flat(anchor'[a]) = Flat(anchor[a]) + delta[a]
      BY <1>3, <2>2, <3>1, BlockOffset
    <3>3. camera'[a] = moved[a] - delta[a] * Sub
      BY <2>1 DEF Rebased
    <3>4. PICK f, c, w, d, s : /\ f = Flat(anchor[a]) /\ c = camera[a] /\ w = way[a] * stride
                               /\ d = delta[a] /\ s = Sub
      OBVIOUS
    <3>5. f \in Int /\ c \in Int /\ w \in Int /\ d \in Int /\ s \in Nat
      BY <1>3, <1>4, <3>4, CanonicalFlat, ViewFacts
    <3>6. (f + d) * s = f * s + d * s /\ f * s \in Int /\ d * s \in Int
      BY <3>5
    <3>7. (f + d) * s + ((c + w) - d * s) = f * s + c + w
      BY <3>5, <3>6
    <3>8. f * s + c = travelled[a] /\ travelled'[a] = travelled[a] + w
      BY <1>1, <1>3, <3>4
    <3>9. moved[a] - delta[a] * Sub = (c + w) - d * s
      <4>1. moved[a] = c + w /\ delta[a] * Sub = d * s
        BY <1>4, <3>4
      <4> QED
        BY <4>1
    <3>10. Flat(anchor'[a]) * Sub + camera'[a] = (f + d) * s + ((c + w) - d * s)
      BY <3>2, <3>3, <3>4, <3>9
    <3> QED
      BY <1>4, <3>2, <3>3, <3>7, <3>8, <3>10
  <2>4. camera' \in [Axes -> Range]
    BY <2>1, <2>3 DEF Rebased
  <2>5. TypeOK'
    BY <1>2, <1>3, <1>5, <2>1, <2>3, <2>4 DEF TypeOK, Phases
  <2> QED
    BY <1>2, <1>3, <2>1, <2>3, <2>5 DEF ViewInv
<1> QED
  BY <1>6, <1>7

\* A view is drawn from an exact position, or none is.
LEMMA ViewedFrom ==
  ASSUME ViewInv, phase # "failed"
  PROVE  /\ ToWorld = None <=> \E a \in Axes : (travelled[a] \div Sub) \notin Addressable
         /\ ToWorld # None => Known(ToWorld, travelled)
         /\ Origins(owner)
<1>1. /\ camera \in [Axes -> Range] /\ travelled \in [Axes -> Int] /\ Origins(owner)
      /\ \A a \in Axes : Canonical(anchor[a]) /\ Flat(anchor[a]) * Sub + camera[a] = travelled[a]
  BY DEF ViewInv, TypeOK, Origins
<1>2. ASSUME NEW a \in Axes PROVE Flat(anchor[a]) + (camera[a] \div Sub) = travelled[a] \div Sub
  <2>1. Flat(anchor[a]) \in Int
    BY <1>1, CanonicalFlat
  <2>2. camera[a] \in Range
    BY <1>1
  <2>3. camera[a] \in Int
    BY <2>2, RangeFits
  <2>4. PICK m, n : m = Flat(anchor[a]) /\ n = camera[a]
    OBVIOUS
  <2>5. (m * Sub + n) \div Sub = m + (n \div Sub)
    BY <2>1, <2>3, <2>4, SplitSteps
  <2>6. m * Sub + n = travelled[a]
    BY <1>1, <2>4
  <2> QED
    BY <2>4, <2>5, <2>6
<1>3. PICK W : W = ToWorld
  OBVIOUS
<1>4. /\ W = None <=> \E a \in Axes : Flat(anchor[a]) + (camera[a] \div Sub) \notin Addressable
      /\ W # None => \A a \in Axes :
              /\ Canonical(W[a].cell) /\ W[a].fraction \in 0..(Sub - 1)
              /\ Flat(W[a].cell) * Sub + W[a].fraction = Flat(anchor[a]) * Sub + camera[a]
  BY <1>1, <1>3, ToWorldIs
<1>5. W # None => Known(W, travelled)
  <2>1. ASSUME W # None, NEW a \in Axes
        PROVE  /\ Canonical(W[a].cell) /\ W[a].fraction \in 0..(Sub - 1)
               /\ travelled[a] \in Int
               /\ Flat(W[a].cell) * Sub + W[a].fraction = travelled[a]
    BY <1>1, <1>4, <2>1
  <2> QED
    BY <2>1 DEF Known
<1> QED
  BY <1>1, <1>2, <1>3, <1>4, <1>5

\* The steps of UpdateCameraView, named.
LEMMA CameraViewIs ==
  ASSUME ViewInv, UpdateCameraView
  PROVE  \/ phase' = "failed" /\ UNCHANGED <<owner, pose, box>>
         \/ /\ Known(ToWorld, travelled)
            /\ \A a \in Axes : Updated(ToWorld)[a] # NoAddress
            /\ owner' = Updated(ToWorld) /\ Origins(owner')
            /\ box' = Outline(selection, owner')
            /\ \/ phase' = "failed" /\ pose' = pose
               \/ /\ phase' \in {"poll", "target"}
                  /\ pose' = ToLocal(ToWorld, owner', BackendBlocks) /\ pose' # None
<1>1. phase # "failed" /\ box = Outline(selection, owner)
  BY DEF ViewInv, UpdateCameraView
<1>2. PICK W, new : W = ToWorld /\ new = Updated(ToWorld)
  OBVIOUS
<1>3. PICK relative : relative = ToLocal(W, new, BackendBlocks)
  OBVIOUS
<1>4. IF IF W = None THEN TRUE ELSE \E a \in Axes : new[a] = NoAddress
      THEN phase' = "failed" /\ UNCHANGED <<owner, pose, box>>
      ELSE /\ SetRenderAnchor(new)
           /\ IF relative = None
              THEN phase' = "failed" /\ UNCHANGED pose
              ELSE pose' = relative /\ phase' = IF phase = "start" THEN "poll" ELSE "target"
  BY <1>2, <1>3 DEF UpdateCameraView
<1>5. CASE W = None \/ \E a \in Axes : new[a] = NoAddress
  BY <1>4, <1>5
<1>6. CASE W # None /\ \A a \in Axes : new[a] # NoAddress
  <2>1. SetRenderAnchor(new)
    BY <1>4, <1>6
  <2>2. owner' = new /\ box' = Outline(selection, new)
    BY <1>1, <2>1 DEF SetRenderAnchor
  <2>3. Known(W, travelled) /\ Origins(owner)
    BY <1>1, <1>2, <1>6, ViewedFrom
  <2>4. \A a \in Axes : Updated(W)[a] # NoAddress
    BY <1>2, <1>6
  <2>5. Origins(Updated(W))
    BY <2>3, <2>4, UpdatedIs
  <2>6. Origins(new)
    BY <1>2, <2>5
  <2>7. \/ phase' = "failed" /\ pose' = pose
        \/ phase' \in {"poll", "target"} /\ pose' = relative /\ relative # None
    BY <1>4, <1>6
  <2> QED
    BY <1>2, <1>3, <2>2, <2>3, <2>4, <2>6, <2>7
<1> QED
  BY <1>5, <1>6

LEMMA UpdateCameraViewStep == ViewInv /\ UpdateCameraView => ViewInv'
<1> SUFFICES ASSUME ViewInv, UpdateCameraView PROVE ViewInv'
  OBVIOUS
<1>1. /\ phase # "failed" /\ UNCHANGED <<camera, anchor, selection, travelled>>
      /\ camera \in [Axes -> Range] /\ travelled \in [Axes -> Int]
      /\ \A a \in Axes : Canonical(anchor[a]) /\ Canonical(owner[a]) /\ GroupOf(owner[a]) = owner[a]
      /\ \A a \in Axes : Flat(anchor[a]) * Sub + camera[a] = travelled[a]
      /\ pose \in [Axes -> Int] /\ selection \in Targets \cup {None}
      /\ box = Hidden \/ box \in [Axes -> -BackendBlocks..BackendBlocks]
      /\ box = Outline(selection, owner)
  BY DEF ViewInv, TypeOK, UpdateCameraView
<1>2. CASE phase' = "failed" /\ UNCHANGED <<owner, pose, box>>
  <2>1. TypeOK'
    BY <1>1, <1>2 DEF TypeOK, Phases
  <2> QED
    BY <1>1, <1>2, <2>1 DEF ViewInv
<1>3. CASE /\ Known(ToWorld, travelled)
           /\ owner' = Updated(ToWorld) /\ Origins(owner')
           /\ box' = Outline(selection, owner')
           /\ \/ phase' = "failed" /\ pose' = pose
              \/ /\ phase' \in {"poll", "target"}
                 /\ pose' = ToLocal(ToWorld, owner', BackendBlocks) /\ pose' # None
  <2>1. PICK position, new, L : /\ position = ToWorld /\ new = owner'
                                /\ L = ToLocal(position, new, BackendBlocks)
    OBVIOUS
  <2>2. \A a \in Axes : /\ Canonical(position[a].cell) /\ Canonical(new[a])
                        /\ position[a].fraction \in 0..(Sub - 1) /\ travelled[a] \in Int
                        /\ Flat(position[a].cell) * Sub + position[a].fraction = travelled[a]
    BY <1>3, <2>1 DEF Known, Origins
  <2>3. PICK m : m = BackendBlocks
    OBVIOUS
  <2>4. Fits(m) /\ L = ToLocal(position, new, m)
    BY <2>1, <2>3, ViewFacts
  <2>5. L # None => /\ L \in [Axes -> Int]
                    /\ \A a \in Axes : Flat(new[a]) * Sub + L[a] = travelled[a]
    BY <2>2, <2>4, ToLocalIs
  <2>6. /\ pose' \in [Axes -> Int]
        /\ phase' # "failed" => \A a \in Axes : Flat(owner'[a]) * Sub + pose'[a] = travelled'[a]
    BY <1>1, <1>3, <2>1, <2>5
  <2>7. box' = Hidden \/ box' \in [Axes -> -BackendBlocks..BackendBlocks]
    BY <1>1, <1>3, <2>1, OutlineIs
  <2>8. \A a \in Axes : Canonical(owner'[a]) /\ GroupOf(owner'[a]) = owner'[a]
    BY <1>3 DEF Origins
  <2>9. phase' \in Phases
    BY <1>3 DEF Phases
  <2>10. TypeOK'
    BY <1>1, <2>6, <2>7, <2>8, <2>9 DEF TypeOK
  <2> QED
    BY <1>1, <1>3, <2>6, <2>10 DEF ViewInv
<1> QED
  BY <1>2, <1>3, CameraViewIs

LEMMA UpdateBlockTargetStep == ViewInv /\ UpdateBlockTarget => ViewInv'
<1> SUFFICES ASSUME ViewInv, UpdateBlockTarget PROVE ViewInv'
  OBVIOUS
<1>1. PICK block \in Targets \cup {None} : SetSelection(block)
  BY DEF UpdateBlockTarget
<1>2. phase = "target" /\ phase' = "poll" /\ UNCHANGED <<camera, anchor, owner, pose, travelled>>
  BY DEF UpdateBlockTarget
<1>3. box = Outline(selection, owner) /\ Origins(owner) /\ TypeOK
  BY DEF ViewInv, TypeOK, Origins
<1>4. selection' = block /\ box' = Outline(block, owner)
  BY <1>1, <1>3 DEF SetSelection
<1>5. box' = Hidden \/ box' \in [Axes -> -BackendBlocks..BackendBlocks]
  BY <1>3, <1>4, OutlineIs
<1>6. TypeOK'
  BY <1>2, <1>3, <1>4, <1>5 DEF TypeOK, Phases
<1> QED
  BY <1>2, <1>4, <1>6 DEF ViewInv

\* Every step keeps the invariant of the view.
LEMMA ViewStep == ViewInv /\ [Next]_vars => ViewInv'
<1> SUFFICES ASSUME ViewInv, [Next]_vars PROVE ViewInv'
  OBVIOUS
<1>1. CASE UNCHANGED vars
  BY <1>1 DEF vars, ViewInv, TypeOK
<1> QED
  BY <1>1, MoveCameraStep, UpdateCameraViewStep, UpdateBlockTargetStep DEF Next, Ended

LEMMA ViewHolds == Spec => []ViewInv
  BY ViewInit, ViewStep, PTL DEF Spec

\* The camera and the anchor of the bridge are the exact place in the world.
THEOREM PositionHolds == Spec => []PositionInv
<1>1. ViewInv => PositionInv
  <2> SUFFICES ASSUME ViewInv PROVE PositionExact
    BY DEF ViewInv, PositionInv
  <2> SUFFICES ASSUME phase # "failed"
               PROVE  IF ToWorld = None
                      THEN \E a \in Axes : (travelled[a] \div Sub) \notin Addressable
                      ELSE \A a \in Axes :
                             /\ Canonical(ToWorld[a].cell)
                             /\ Flat(ToWorld[a].cell) * Sub + ToWorld[a].fraction = travelled[a]
    BY DEF PositionExact
  <2> QED
    BY ViewedFrom DEF Known
<1> QED
  BY <1>1, ViewHolds, PTL

\* What is drawn, added to the origin of the scene, is where it is in the world.
THEOREM SceneHolds == Spec => []SceneIsWorld
<1>1. ViewInv => SceneIsWorld
  <2> SUFFICES ASSUME ViewInv PROVE SceneIsWorld
    OBVIOUS
  <2>1. selection \in Targets \cup {None} /\ Origins(owner) /\ box = Outline(selection, owner)
    BY DEF ViewInv, TypeOK, Origins
  <2>2. /\ box # Hidden => /\ selection # None
                           /\ \A a \in Axes : Flat(owner[a]) + box[a] = Flat(selection[a])
        /\ box = Hidden /\ selection # None =>
             \E a \in Axes : Flat(selection[a]) - Flat(owner[a]) \notin -BackendBlocks..BackendBlocks
    BY <2>1, OutlineIs
  <2> QED
    BY <2>2 DEF ViewInv, SceneIsWorld
<1> QED
  BY <1>1, ViewHolds, PTL

\* The origin of the scene stays while the camera is in its band, and the camera is
\* in the band of the new one.
THEOREM AnchorStickyHolds == Spec => AnchorSticky
<1>1. ViewInv /\ [Next]_vars => [ScenesFollow]_vars
  <2> SUFFICES ASSUME ViewInv, Next, phase \in {"start", "view"}, phase' # "failed",
                      \A a \in Axes : ~Jumped(a)
               PROVE  \A a \in Axes : /\ InBand(owner, a) => owner'[a] = owner[a]
                                      /\ InBand(owner', a)
    BY DEF ScenesFollow
  <2>1. UpdateCameraView
    BY DEF Next, MoveCamera, UpdateBlockTarget, Ended
  <2>2. /\ Known(ToWorld, travelled) /\ owner' = Updated(ToWorld)
        /\ \A a \in Axes : Updated(ToWorld)[a] # NoAddress
    BY <2>1, CameraViewIs
  <2>3. Origins(owner)
    BY DEF ViewInv, TypeOK, Origins
  <2>4. PICK position : position = ToWorld
    OBVIOUS
  <2>5. \/ \E a \in Axes : Away(travelled, owner, a) \notin (-2 * GroupSteps)..(3 * GroupSteps - 1)
        \/ \A a \in Axes : /\ 10 * Away(travelled, owner, a) \in -Limit..Limit
                                => Updated(position)[a] = owner[a]
                           /\ 10 * Away(travelled, Updated(position), a) \in -Limit..Limit
    BY <2>2, <2>3, <2>4, UpdatedIs
  <2> QED
    BY <2>2, <2>4, <2>5 DEF Jumped, InBand, FromOwner, Away
<1> QED
  BY <1>1, ViewHolds, PTL DEF Spec, AnchorSticky
-----------------------------------------------------------------------------
(* The keyboard.                                                           *)

\* The events that SDL delivers.
KeyEvents == [type : {"down", "up"}, key : Keys \cup Buttons, repeat : BOOLEAN]
Events == KeyEvents \cup [type : {"motion"}, aim : Aims] \cup [type : {"focus lost", "quit"}]

\* What an event makes of the keys that are down and of the flashlight: what
\* PollEvent does to the variables, as a function.
KeysAfter(keys, e) == IF e.type = "down" THEN keys \cup {e.key}
                      ELSE IF e.type = "up" THEN keys \ {e.key}
                      ELSE IF e.type = "focus lost" THEN {}
                      ELSE keys
LitAfter(lit, e) == IF Toggles(e) THEN 1 - lit ELSE lit
Lit == IF flashlight THEN 1 ELSE 0

\* InputIsTrue speaks of an empty queue only, and what waits in the queue decides
\* whether it will hold.  So: the waiting events, polled one after the other, lead
\* from the present belief to keys that the player holds (to none, while the window
\* is not focused) and to a flashlight that counts every press.  keys and lit are
\* the beliefs before the first event, after it, and so on.
Foretold(keys, lit) ==
  /\ keys[0] = down /\ lit[0] = Lit
  /\ \A i \in DOMAIN queue : /\ keys[i] = KeysAfter(keys[i - 1], queue[i])
                             /\ lit[i] = LitAfter(lit[i - 1], queue[i])
  /\ keys[Len(queue)] \subseteq (IF focused THEN held ELSE {})
  /\ lit[Len(queue)] = presses

Beliefs == [0..Len(queue) -> SUBSET (Keys \cup Buttons)]
Lights == [0..Len(queue) -> {0, 1}]
InputTypeOK == /\ queue \in Seq(Events)
               /\ flashlight \in BOOLEAN /\ presses \in {0, 1}
               /\ held \subseteq Keys \cup Buttons
InputInv == InputTypeOK /\ \E keys \in Beliefs, lit \in Lights : Foretold(keys, lit)

\* What a step must leave: beliefs that the queue it leaves leads to.
StillForetold == \E keys \in Beliefs, lit \in Lights : Foretold(keys, lit)

\* The code's case analysis and the function above agree.
LEMMA DownIs ==
  ASSUME NEW e
  PROVE  DownAfter(e) = KeysAfter(down, e)
<1>1. CASE e.type = "down"
  BY <1>1 DEF DownAfter, KeysAfter
<1>2. CASE e.type = "up"
  BY <1>2 DEF DownAfter, KeysAfter
<1>3. CASE e.type = "focus lost"
  BY <1>3 DEF DownAfter, KeysAfter
<1>4. CASE e.type \notin {"down", "up", "focus lost"}
  BY <1>4 DEF DownAfter, KeysAfter
<1> QED
  BY <1>1, <1>2, <1>3, <1>4

LEMMA EventParts ==
  ASSUME NEW e \in Events
  PROVE  e.type \in {"down", "up"} => e.key \in Keys \cup Buttons
  BY DEF Events, KeyEvents

LEMMA AfterTyped ==
  ASSUME NEW e \in Events, NEW keys \in SUBSET (Keys \cup Buttons), NEW lit \in {0, 1}
  PROVE  /\ KeysAfter(keys, e) \in SUBSET (Keys \cup Buttons)
         /\ LitAfter(lit, e) \in {0, 1}
<1>1. KeysAfter(keys, e) \in SUBSET (Keys \cup Buttons)
  BY EventParts DEF KeysAfter
<1>2. LitAfter(lit, e) \in {0, 1}
  BY DEF LitAfter
<1> QED
  BY <1>1, <1>2

\* An event that is posted comes last: the beliefs before it stay, and it must
\* lead from the last of them to what the player now holds and has pressed.
LEMMA Posted ==
  ASSUME InputInv, NEW e \in Events, queue' = Append(queue, e),
         UNCHANGED <<down, flashlight>>,
         \A keys \in SUBSET (Keys \cup Buttons) :
           keys \subseteq (IF focused THEN held ELSE {})
             => KeysAfter(keys, e) \subseteq (IF focused' THEN held' ELSE {}),
         LitAfter(presses, e) = presses'
  PROVE  queue' \in Seq(Events) /\ StillForetold'
<1>1. PICK keys \in Beliefs, lit \in Lights : Foretold(keys, lit)
  BY DEF InputInv
<1> DEFINE n == Len(queue)
<1>2. /\ n \in Nat /\ DOMAIN queue = 1..n
      /\ Len(queue') = n + 1 /\ DOMAIN queue' = 1..(n + 1)
      /\ \A i \in 1..n : queue'[i] = queue[i]
      /\ queue'[n + 1] = e
  BY DEF InputInv, InputTypeOK
<1>3. /\ \A i \in 0..n : keys[i] \in SUBSET (Keys \cup Buttons) /\ lit[i] \in {0, 1}
      /\ KeysAfter(keys[n], e) \in SUBSET (Keys \cup Buttons)
      /\ LitAfter(lit[n], e) \in {0, 1}
  BY <1>2, AfterTyped DEF Beliefs, Lights
<1>4. PICK keys2, lit2 :
       /\ keys2 = [i \in 0..(n + 1) |-> IF i = n + 1 THEN KeysAfter(keys[n], e) ELSE keys[i]]
       /\ lit2 = [i \in 0..(n + 1) |-> IF i = n + 1 THEN LitAfter(lit[n], e) ELSE lit[i]]
  OBVIOUS
<1>5. keys2 \in Beliefs' /\ lit2 \in Lights'
  BY <1>2, <1>3, <1>4 DEF Beliefs, Lights
<1>6. /\ \A i \in 0..n : keys2[i] = keys[i] /\ lit2[i] = lit[i]
      /\ keys2[n + 1] = KeysAfter(keys[n], e) /\ lit2[n + 1] = LitAfter(lit[n], e)
  BY <1>2, <1>4
<1>7. keys2[0] = down' /\ lit2[0] = Lit'
  BY <1>1, <1>2, <1>6 DEF Foretold, Lit
<1>8. ASSUME NEW i \in DOMAIN queue'
      PROVE  /\ keys2[i] = KeysAfter(keys2[i - 1], queue'[i])
             /\ lit2[i] = LitAfter(lit2[i - 1], queue'[i])
  <2>1. CASE i = n + 1
    BY <1>2, <1>6, <2>1
  <2>2. CASE i \in 1..n
    <3>1. i \in 0..n /\ i - 1 \in 0..n /\ i \in DOMAIN queue
      BY <1>2, <2>2
    <3> QED
      BY <1>1, <1>2, <1>6, <2>2, <3>1 DEF Foretold
  <2> QED
    BY <1>2, <2>1, <2>2
<1>9. keys2[n + 1] \subseteq (IF focused' THEN held' ELSE {}) /\ lit2[n + 1] = presses'
  BY <1>1, <1>2, <1>3, <1>6 DEF Foretold
<1>10. Foretold(keys2, lit2)'
  BY <1>2, <1>7, <1>8, <1>9 DEF Foretold
<1>11. queue' \in Seq(Events)
  BY DEF InputInv, InputTypeOK
<1> QED
  BY <1>5, <1>10, <1>11 DEF StillForetold

\* A step that posts nothing: the player may hold more, and less only when the
\* window is not focused.
LEMMA Unposted ==
  ASSUME InputInv, UNCHANGED <<queue, down, flashlight, presses>>,
         (IF focused THEN held ELSE {}) \subseteq (IF focused' THEN held' ELSE {})
  PROVE  StillForetold'
<1>1. PICK keys \in Beliefs, lit \in Lights : Foretold(keys, lit)
  BY DEF InputInv
<1>2. Foretold(keys, lit)'
  BY <1>1 DEF Foretold, Lit
<1> QED
  BY <1>2 DEF StillForetold, Beliefs, Lights

\* An event that is polled was the first: what it makes of the beliefs was
\* foretold, and so is all that follows.
LEMMA Polled ==
  ASSUME InputInv, PollEvent
  PROVE  StillForetold'
<1>1. PICK keys \in Beliefs, lit \in Lights : Foretold(keys, lit)
  BY DEF InputInv
<1> DEFINE n == Len(queue)
<1>2. /\ queue' = Tail(queue) /\ queue # <<>> /\ UNCHANGED <<held, focused, presses>>
      /\ down' = KeysAfter(down, Head(queue)) /\ Lit' = LitAfter(Lit, Head(queue))
  <2>1. queue' = Tail(queue) /\ queue # <<>> /\ UNCHANGED <<held, focused, presses>>
    BY DEF PollEvent, window
  <2>2. down' = KeysAfter(down, Head(queue))
    BY DownIs DEF PollEvent
  <2>3. flashlight' = IF Toggles(Head(queue)) THEN ~flashlight ELSE flashlight
    BY DEF PollEvent
  <2>4. Lit' = LitAfter(Lit, Head(queue))
    <3>1. CASE Toggles(Head(queue))
      <4>1. flashlight' <=> ~flashlight
        BY <2>3, <3>1
      <4> QED
        BY <3>1, <4>1 DEF LitAfter, Lit
    <3>2. CASE ~Toggles(Head(queue))
      <4>1. flashlight' = flashlight
        BY <2>3, <3>2
      <4> QED
        BY <3>2, <4>1 DEF LitAfter, Lit
    <3> QED
      BY <3>1, <3>2
  <2> QED
    BY <2>1, <2>2, <2>4
<1>3. /\ n \in Nat \ {0} /\ DOMAIN queue = 1..n /\ Head(queue) = queue[1]
      /\ Len(queue') = n - 1 /\ DOMAIN queue' = 1..(n - 1)
      /\ \A i \in 1..(n - 1) : queue'[i] = queue[i + 1]
  BY <1>2 DEF InputInv, InputTypeOK
<1>4. PICK keys2, lit2 : /\ keys2 = [i \in 0..(n - 1) |-> keys[i + 1]]
                        /\ lit2 = [i \in 0..(n - 1) |-> lit[i + 1]]
  OBVIOUS
<1>5. keys2 \in Beliefs' /\ lit2 \in Lights'
  BY <1>3, <1>4 DEF Beliefs, Lights
<1>6. \A i \in 0..(n - 1) : keys2[i] = keys[i + 1] /\ lit2[i] = lit[i + 1]
  BY <1>3, <1>4
<1>7. keys2[0] = down' /\ lit2[0] = Lit'
  <2>1. 1 \in DOMAIN queue /\ 0 \in 0..(n - 1)
    BY <1>3
  <2>2. keys[1] = KeysAfter(keys[0], queue[1]) /\ lit[1] = LitAfter(lit[0], queue[1])
    BY <1>1, <2>1 DEF Foretold
  <2> QED
    BY <1>1, <1>2, <1>3, <1>6, <2>1, <2>2 DEF Foretold
<1>8. ASSUME NEW i \in DOMAIN queue'
      PROVE  /\ keys2[i] = KeysAfter(keys2[i - 1], queue'[i])
             /\ lit2[i] = LitAfter(lit2[i - 1], queue'[i])
  <2>1. i \in 0..(n - 1) /\ i - 1 \in 0..(n - 1) /\ i + 1 \in DOMAIN queue
        /\ queue'[i] = queue[i + 1] /\ (i + 1) - 1 = i /\ (i - 1) + 1 = i
    BY <1>3
  <2>2. keys[i + 1] = KeysAfter(keys[i], queue[i + 1]) /\ lit[i + 1] = LitAfter(lit[i], queue[i + 1])
    BY <1>1, <2>1 DEF Foretold
  <2> QED
    BY <1>6, <2>1, <2>2
<1>9. keys2[n - 1] = keys[n] /\ lit2[n - 1] = lit[n]
  BY <1>3, <1>6
<1>10. Foretold(keys2, lit2)'
  BY <1>1, <1>2, <1>3, <1>7, <1>8, <1>9 DEF Foretold
<1> QED
  BY <1>5, <1>10 DEF StillForetold
-----------------------------------------------------------------------------
(* The player and the window manager.                                      *)

LEMMA KeyEvent ==
  ASSUME NEW type \in {"down", "up"}, NEW k \in Keys \cup Buttons, NEW repeat \in BOOLEAN
  PROVE  LET e == Event(type, k, repeat)
         IN e \in Events /\ e.type = type /\ e.key = k /\ e.repeat = repeat
  BY DEF Event, Events, KeyEvents

LEMMA PressStep ==
  ASSUME InputInv, NEW k \in Keys \cup Buttons, Press(k), UNCHANGED <<down, flashlight>>
  PROVE  InputTypeOK' /\ StillForetold'
<1> DEFINE e == Event("down", k, FALSE)
<1>1. focused' = focused /\ held' = held \cup {k}
  BY DEF Press
<1>2. CASE focused
  <2>1. /\ queue' = Append(queue, e)
        /\ presses' = IF k = "flashlight" THEN 1 - presses ELSE presses
    BY <1>2 DEF Press, Post
  <2>2. e \in Events /\ e.type = "down" /\ e.key = k /\ e.repeat = FALSE
    BY KeyEvent
  <2>3. \A keys \in SUBSET (Keys \cup Buttons) :
          keys \subseteq held => KeysAfter(keys, e) \subseteq held \cup {k}
    BY <2>2 DEF KeysAfter
  <2>4. LitAfter(presses, e) = presses'
    BY <2>1, <2>2 DEF LitAfter, Toggles, InputInv, InputTypeOK
  <2>5. queue' \in Seq(Events) /\ StillForetold'
    BY <1>1, <1>2, <2>1, <2>2, <2>3, <2>4, Posted
  <2>6. presses' \in {0, 1}
    BY <2>1 DEF InputInv, InputTypeOK
  <2> QED
    BY <1>1, <2>5, <2>6 DEF InputInv, InputTypeOK
<1>3. CASE ~focused
  <2>1. UNCHANGED <<queue, presses>>
    BY <1>3 DEF Press
  <2>2. StillForetold'
    BY <1>1, <1>3, <2>1, Unposted
  <2> QED
    BY <1>1, <2>1, <2>2 DEF InputInv, InputTypeOK
<1> QED
  BY <1>2, <1>3

LEMMA RepeatStep ==
  ASSUME InputInv, NEW k \in Keys \cup Buttons, Repeat(k), UNCHANGED <<down, flashlight>>
  PROVE  InputTypeOK' /\ StillForetold'
<1> DEFINE e == Event("down", k, TRUE)
<1>1. focused /\ k \in held /\ queue' = Append(queue, e) /\ UNCHANGED <<focused, held, presses>>
  BY DEF Repeat, Post, window
<1>2. e \in Events /\ e.type = "down" /\ e.key = k /\ e.repeat = TRUE
  BY KeyEvent
<1>3. \A keys \in SUBSET (Keys \cup Buttons) : keys \subseteq held => KeysAfter(keys, e) \subseteq held
  BY <1>1, <1>2 DEF KeysAfter
<1>4. LitAfter(presses, e) = presses'
  BY <1>1, <1>2 DEF LitAfter, Toggles
<1>5. queue' \in Seq(Events) /\ StillForetold'
  BY <1>1, <1>2, <1>3, <1>4, Posted
<1> QED
  BY <1>1, <1>5 DEF InputInv, InputTypeOK

LEMMA ReleaseStep ==
  ASSUME InputInv, NEW k \in Keys \cup Buttons, Release(k), UNCHANGED <<down, flashlight>>
  PROVE  InputTypeOK' /\ StillForetold'
<1> DEFINE e == Event("up", k, FALSE)
<1>1. held' = held \ {k} /\ UNCHANGED <<focused, presses>>
  BY DEF Release
<1>2. CASE focused
  <2>1. queue' = Append(queue, e)
    BY <1>2 DEF Release, Post
  <2>2. e \in Events /\ e.type = "up" /\ e.key = k
    BY KeyEvent
  <2>3. \A keys \in SUBSET (Keys \cup Buttons) :
          keys \subseteq held => KeysAfter(keys, e) \subseteq held \ {k}
    BY <2>2 DEF KeysAfter
  <2>4. LitAfter(presses, e) = presses'
    BY <1>1, <2>2 DEF LitAfter, Toggles
  <2>5. queue' \in Seq(Events) /\ StillForetold'
    BY <1>1, <1>2, <2>1, <2>2, <2>3, <2>4, Posted
  <2> QED
    BY <1>1, <2>1, <2>5 DEF InputInv, InputTypeOK
<1>3. CASE ~focused
  <2>1. queue' = queue
    BY <1>3 DEF Release
  <2> QED
    BY <1>1, <1>3, <2>1, Unposted DEF InputInv, InputTypeOK
<1> QED
  BY <1>2, <1>3

\* Events that are about no key.
LEMMA OtherEvent ==
  ASSUME NEW e \in Events, e.type \in {"motion", "quit"}
  PROVE  /\ \A keys : KeysAfter(keys, e) = keys
         /\ \A lit : LitAfter(lit, e) = lit
  BY DEF KeysAfter, LitAfter, Toggles

LEMMA WindowStep ==
  ASSUME InputInv, \/ \E a \in Aims : MoveMouse(a)
                   \/ LoseFocus \/ GainFocus \/ CloseWindow,
         UNCHANGED <<down, flashlight>>
  PROVE  InputTypeOK' /\ StillForetold'
<1>1. ASSUME NEW e \in Events, e.type \in {"motion", "quit"}, queue' = Append(queue, e),
             UNCHANGED <<focused, held, presses>>
      PROVE  InputTypeOK' /\ StillForetold'
  <2>1. StillForetold'
    BY <1>1, OtherEvent, Posted
  <2> QED
    BY <1>1, <2>1 DEF InputInv, InputTypeOK
<1>2. CASE \E a \in Aims : MoveMouse(a)
  <2>1. PICK a \in Aims : MoveMouse(a)
    BY <1>2
  <2> DEFINE e == [type |-> "motion", aim |-> a]
  <2>2. e \in Events /\ e.type = "motion"
    BY DEF Events
  <2>3. queue' = Append(queue, e) /\ UNCHANGED <<focused, held, presses>>
    BY <2>1 DEF MoveMouse, Post, window
  <2> QED
    BY <1>1, <2>2, <2>3
<1>3. CASE CloseWindow
  <2> DEFINE e == [type |-> "quit"]
  <2>1. e \in Events /\ e.type = "quit"
    BY DEF Events
  <2>2. queue' = Append(queue, e) /\ UNCHANGED <<focused, held, presses>>
    BY <1>3 DEF CloseWindow, Post, window
  <2> QED
    BY <1>1, <2>1, <2>2
<1>4. CASE LoseFocus
  <2> DEFINE e == [type |-> "focus lost"]
  <2>1. e \in Events /\ e.type = "focus lost"
    BY DEF Events
  <2>2. queue' = Append(queue, e) /\ focused' = FALSE /\ UNCHANGED <<held, presses>>
    BY <1>4 DEF LoseFocus, Post
  <2>3. \A keys : KeysAfter(keys, e) = {}
    BY <2>1 DEF KeysAfter
  <2>4. LitAfter(presses, e) = presses'
    BY <2>1, <2>2 DEF LitAfter, Toggles
  <2>5. queue' \in Seq(Events) /\ StillForetold'
    BY <1>4, <2>1, <2>2, <2>3, <2>4, Posted
  <2> QED
    BY <2>2, <2>5 DEF InputInv, InputTypeOK
<1>5. CASE GainFocus
  BY <1>5, Unposted DEF GainFocus, InputInv, InputTypeOK
<1> QED
  BY <1>2, <1>3, <1>4, <1>5
-----------------------------------------------------------------------------
\* The invariant of the keyboard holds at first.
LEMMA InputInit == InteractionInit => InputInv
<1> SUFFICES ASSUME InteractionInit
             PROVE  InputInv
  OBVIOUS
<1>1. /\ focused = TRUE /\ held = {} /\ queue = <<>> /\ presses = 0
      /\ down = {} /\ flashlight = FALSE
  BY DEF InteractionInit
<1>2. InputTypeOK
  <2>1. queue \in Seq(Events)
    BY <1>1
  <2>2. flashlight \in BOOLEAN
    BY <1>1
  <2> QED
    BY <1>1, <2>1, <2>2 DEF InputTypeOK
<1> DEFINE keys == [i \in 0..0 |-> {}]
           lit == [i \in 0..0 |-> 0]
<1>3. Len(queue) = 0 /\ DOMAIN queue = {}
  BY <1>1
<1>4. keys[0] = {} /\ lit[0] = 0 /\ Lit = 0
  BY <1>1 DEF Lit
<1>5. keys \in Beliefs /\ lit \in Lights
  BY <1>3 DEF Beliefs, Lights
<1>6. Foretold(keys, lit)
  BY <1>1, <1>3, <1>4 DEF Foretold
<1> QED
  BY <1>2, <1>5, <1>6 DEF InputInv

\* Every step keeps it.
LEMMA InputNext == InputInv /\ [InteractionNext]_interaction => InputInv'
<1> SUFFICES ASSUME InputInv, [InteractionNext]_interaction
             PROVE  InputTypeOK' /\ StillForetold'
  BY DEF InputInv, StillForetold
<1>1. CASE PollEvent
  <2>1. queue' \in Seq(Events) /\ UNCHANGED <<focused, held, presses>>
    BY <1>1 DEF PollEvent, window, InputInv, InputTypeOK
  <2>2. flashlight' \in BOOLEAN
    BY <1>1 DEF PollEvent, InputInv, InputTypeOK
  <2> QED
    BY <1>1, <2>1, <2>2, Polled DEF InputInv, InputTypeOK
<1>2. CASE Frame
  BY <1>2, Unposted DEF Frame, window, InputInv, InputTypeOK
<1>3. CASE Player
  <2>1. UNCHANGED <<down, flashlight>>
    BY <1>3 DEF Player
  <2> QED
    BY <1>3, <2>1, PressStep, RepeatStep, ReleaseStep, WindowStep DEF Player
<1>4. CASE UNCHANGED interaction
  BY <1>4, Unposted DEF interaction, window, InputInv, InputTypeOK
<1> QED
  BY <1>1, <1>2, <1>3, <1>4 DEF InteractionNext

\* Whenever no event waits, the game believes of the keyboard what is so: no key is
\* down that the player does not hold, and the flashlight has changed once for each
\* press, through repeats of the system and releases that the window never saw.
THEOREM InputHolds == InteractionSpec => []InputIsTrue
<1>1. InputInv => InputIsTrue
  <2> SUFFICES ASSUME InputInv, queue = <<>>
               PROVE  down \subseteq held /\ flashlight = (presses = 1)
    BY DEF InputIsTrue, NoStuckKey, OneTogglePerPress
  <2>1. PICK keys \in Beliefs, lit \in Lights : Foretold(keys, lit)
    BY DEF InputInv
  <2>2. Len(queue) = 0
    OBVIOUS
  <2>3. down \subseteq (IF focused THEN held ELSE {}) /\ Lit = presses
    BY <2>1, <2>2 DEF Foretold
  <2>4. flashlight = (presses = 1)
    BY <2>3 DEF Lit, InputInv, InputTypeOK
  <2> QED
    BY <2>3, <2>4
<1> QED
  BY <1>1, InputInit, InputNext, PTL DEF InteractionSpec
-----------------------------------------------------------------------------
(* The ray.                                                                *)

\* A position of the player, and a direction of the camera.
Standing(stand) == stand \in [Dims -> [cell : Addresses, fraction : 0..(Sub - 1)]]
Looking(d) == d \in [Dims -> Int] /\ \E a \in Dims : d[a] # 0

\* How far along the ray a step along an axis is.
Weight(d, a) == Scale(d) \div Abs(d[a])

\* The time of the ray is scaled so that every axis counts in whole steps.
LEMMA ScaleIs ==
  ASSUME NEW d, Looking(d)
  PROVE  /\ Scale(d) \in Nat \ {0}
         /\ \A a \in Moving(d) : \E q \in Nat \ {0} : Scale(d) = q * Abs(d[a])
<1>1. PICK f : f = [a \in Dims |-> IF d[a] = 0 THEN 1 ELSE Abs(d[a])]
  OBVIOUS
<1>2. \A a \in Dims : f[a] \in Nat \ {0} /\ (a \in Moving(d) => f[a] = Abs(d[a]))
  BY <1>1 DEF Looking, Moving, Abs
<1>3. Scale(d) = (f[1] * f[2]) * f[3]
  BY <1>1 DEF Scale, Dims
<1>4. PICK x, y, z : x = f[1] /\ y = f[2] /\ z = f[3]
  OBVIOUS
<1>5. x \in Nat \ {0} /\ y \in Nat \ {0} /\ z \in Nat \ {0}
  BY <1>2, <1>4 DEF Dims
<1>6. /\ x * y \in Nat \ {0} /\ y * z \in Nat \ {0} /\ x * z \in Nat \ {0}
      /\ (x * y) * z \in Nat \ {0}
      /\ (x * y) * z = (y * z) * x /\ (x * y) * z = (x * z) * y
  <2>1. \A m, n \in Nat \ {0} : m * n \in Nat \ {0}
    OBVIOUS
  <2>2. x * y \in Nat \ {0} /\ y * z \in Nat \ {0} /\ x * z \in Nat \ {0}
    BY <1>5, <2>1
  <2>3. (x * y) * z \in Nat \ {0}
    BY <1>5, <2>1, <2>2
  <2>4. (x * y) * z = (y * z) * x /\ (x * y) * z = (x * z) * y
    BY <1>5
  <2> QED
    BY <2>2, <2>3, <2>4
<1>7. ASSUME NEW a \in Moving(d) PROVE \E q \in Nat \ {0} : Scale(d) = q * Abs(d[a])
  <2>1. a \in {1, 2, 3} /\ f[a] = Abs(d[a])
    BY <1>2 DEF Moving, Dims
  <2> QED
    BY <1>3, <1>4, <1>6, <2>1
<1> QED
  BY <1>3, <1>4, <1>6, <1>7

LEMMA WeightIs ==
  ASSUME NEW d, Looking(d), NEW a \in Moving(d)
  PROVE  /\ a \in Dims /\ d[a] \in Int /\ d[a] # 0
         /\ Weight(d, a) \in Nat \ {0}
         /\ PerBlock(d, a) = Sub * Weight(d, a) /\ PerBlock(d, a) \in Nat \ {0}
         /\ d[a] > 0 => Sign(d[a]) = 1 /\ Weight(d, a) = Scale(d) \div d[a]
         /\ d[a] < 0 => Sign(d[a]) = -1 /\ Weight(d, a) = Scale(d) \div (-d[a])
<1>1. a \in Dims /\ d[a] \in Int /\ d[a] # 0
  BY DEF Moving, Looking
<1>2. PICK n : n = Abs(d[a])
  OBVIOUS
<1>3. n \in Nat \ {0} /\ (d[a] > 0 => n = d[a]) /\ (d[a] < 0 => n = -d[a])
  BY <1>1, <1>2 DEF Abs
<1>4. PICK q \in Nat \ {0} : Scale(d) = q * n
  BY <1>2, ScaleIs
<1>5. Scale(d) \div n = q
  <2>1. (q * n + 0) \div n = q
    BY <1>3, <1>4, DivUnique
  <2>2. q * n + 0 = q * n
    BY <1>3, <1>4
  <2> QED
    BY <1>4, <2>1, <2>2
<1>6. Weight(d, a) = q
  BY <1>2, <1>5 DEF Weight
<1>7. PerBlock(d, a) = Sub * q /\ Sub * q \in Nat \ {0}
  <2>1. \A x, y \in Nat \ {0} : x * y \in Nat \ {0}
    OBVIOUS
  <2> QED
    BY <1>4, <1>2, <1>5, <2>1, SubAssumption DEF PerBlock
<1>8. (d[a] > 0 => Sign(d[a]) = 1) /\ (d[a] < 0 => Sign(d[a]) = -1)
  BY <1>1 DEF Sign
<1> QED
  BY <1>1, <1>2, <1>3, <1>4, <1>5, <1>6, <1>7, <1>8

\* The distances of the border a moving axis comes from, and of the one it goes to.
LEMMA BorderIs ==
  ASSUME NEW stand, Standing(stand), NEW d, Looking(d), NEW a \in Moving(d), NEW c, Canonical(c[a])
  PROVE  /\ Flat(c[a]) \in Int /\ Near(stand, d, c, a) \in Int /\ Far(stand, d, c, a) \in Int
         /\ Far(stand, d, c, a) = Near(stand, d, c, a) + PerBlock(d, a)
<1>1. PICK w, s, p, f, h : /\ w = Weight(d, a) /\ s = Sub /\ p = PerBlock(d, a) /\ f = Flat(c[a])
                           /\ h = At(stand, a)
  OBVIOUS
<1>2. /\ a \in Dims /\ d[a] \in Int /\ d[a] # 0
      /\ w \in Nat \ {0} /\ p = s * w /\ p \in Nat \ {0} /\ s \in Nat \ {0}
      /\ d[a] > 0 => Sign(d[a]) = 1
      /\ d[a] < 0 => Sign(d[a]) = -1
  BY <1>1, WeightIs, SubAssumption
<1>3. f \in Int
  BY <1>1, CanonicalFlat
<1>4. h \in Int
  <2>1. Canonical(stand[a].cell) /\ stand[a].fraction \in Nat
    BY <1>2, SubAssumption DEF Standing, Addresses
  <2>2. Flat(stand[a].cell) \in Int
    BY <2>1, CanonicalFlat
  <2>3. Flat(stand[a].cell) * s \in Int
    BY <1>2, <2>2
  <2> QED
    BY <1>1, <2>1, <2>3 DEF At
<1>5. \A side \in {0, 1} : Toward(d, a, h, f + side) = Sign(d[a]) * ((f + side) * s - h) * w
  BY <1>1 DEF Toward, Weight
<1>6. f * s \in Int /\ (f + 0) * s = f * s /\ (f + 1) * s = f * s + s
  BY <1>2, <1>3
<1>7. PICK x : x = f * s - h
  OBVIOUS
<1>8. x \in Int /\ x * w \in Int /\ (x + s) * w = x * w + p
  BY <1>2, <1>4, <1>6, <1>7
<1>10. CASE d[a] > 0
  <2>1. Toward(d, a, h, f + 0) = x * w
    <3>1. (f + 0) * s - h = x
      BY <1>6, <1>7
    <3>2. Toward(d, a, h, f + 0) = 1 * ((f + 0) * s - h) * w
      BY <1>2, <1>5, <1>10
    <3> QED
      BY <1>2, <1>8, <3>1, <3>2
  <2>2. Toward(d, a, h, f + 1) = x * w + p
    <3>1. (f + 1) * s - h = x + s
      BY <1>2, <1>4, <1>6, <1>7
    <3> QED
      BY <1>2, <1>5, <1>8, <1>10, <3>1
  <2> QED
    BY <1>1, <1>2, <1>3, <1>8, <1>10, <2>1, <2>2 DEF Near, Far
<1>11. CASE d[a] < 0
  <2>1. Toward(d, a, h, f + 0) = -(x * w)
    BY <1>2, <1>4, <1>5, <1>6, <1>7, <1>8, <1>11
  <2>2. Toward(d, a, h, f + 1) = -(x * w) - p
    <3>1. (f + 1) * s - h = x + s
      BY <1>2, <1>4, <1>6, <1>7
    <3>2. (-1) * (x + s) * w = -((x + s) * w)
      BY <1>2, <1>8
    <3> QED
      BY <1>2, <1>5, <1>8, <1>11, <3>1, <3>2
  <2> QED
    BY <1>1, <1>2, <1>3, <1>8, <1>11, <2>1, <2>2 DEF Near, Far
<1> QED
  BY <1>2, <1>10, <1>11

\* Borders of cells: an axis that is one cell on has its near border where the far one
\* was, and cells with overlapping distances are one.
LEMMA BordersApart ==
  ASSUME NEW stand, Standing(stand), NEW d, Looking(d), NEW a \in Moving(d),
         NEW b, Canonical(b[a]), NEW c, Canonical(c[a])
  PROVE  /\ Flat(b[a]) = Flat(c[a]) + Sign(d[a]) => Near(stand, d, b, a) = Far(stand, d, c, a)
         /\ /\ Near(stand, d, b, a) < Far(stand, d, c, a)
            /\ Near(stand, d, c, a) < Far(stand, d, b, a)
            => b[a] = c[a]
         /\ Sign(d[a]) * (Flat(b[a]) - Flat(c[a])) <= 0 => Far(stand, d, b, a) <= Far(stand, d, c, a)
<1>1. PICK w, s, p, f, g, h : /\ w = Weight(d, a) /\ s = Sub /\ p = PerBlock(d, a) /\ f = Flat(b[a])
                              /\ g = Flat(c[a]) /\ h = At(stand, a)
  OBVIOUS
<1>2. /\ a \in Dims /\ d[a] \in Int /\ d[a] # 0
      /\ w \in Nat \ {0} /\ p = s * w /\ p \in Nat \ {0} /\ s \in Nat \ {0}
      /\ d[a] > 0 => Sign(d[a]) = 1
      /\ d[a] < 0 => Sign(d[a]) = -1
  BY <1>1, WeightIs, SubAssumption
<1>3. f \in Int /\ g \in Int
  BY <1>1, CanonicalFlat
<1>4. h \in Int
  <2>1. Canonical(stand[a].cell) /\ stand[a].fraction \in Nat
    BY <1>2, SubAssumption DEF Standing, Addresses
  <2>2. Flat(stand[a].cell) \in Int
    BY <2>1, CanonicalFlat
  <2>3. Flat(stand[a].cell) * s \in Int
    BY <1>2, <2>2
  <2> QED
    BY <1>1, <2>1, <2>3 DEF At
<1>5. /\ Near(stand, d, b, a) \in Int /\ Far(stand, d, b, a) = Near(stand, d, b, a) + p
      /\ Near(stand, d, c, a) \in Int /\ Far(stand, d, c, a) = Near(stand, d, c, a) + p
  BY <1>1, BorderIs
<1>6. Near(stand, d, b, a) - Near(stand, d, c, a) = Sign(d[a]) * ((f - g) * p)
  <2>1. PICK n, sg : n = (IF d[a] > 0 THEN 0 ELSE 1) /\ sg = Sign(d[a])
    OBVIOUS
  <2>2. /\ Near(stand, d, b, a) = sg * ((f + n) * s - h) * w
        /\ Near(stand, d, c, a) = sg * ((g + n) * s - h) * w
    BY <1>1, <2>1 DEF Near, Toward, Weight
  <2>3. n \in {0, 1} /\ sg \in {-1, 1}
    BY <1>2, <2>1
  <2>4. PICK x, y : x = (f + n) * s - h /\ y = (g + n) * s - h
    OBVIOUS
  <2>5. x \in Int /\ y \in Int /\ x - y = (f - g) * s
    <3>1. (f + n) * s \in Int /\ (g + n) * s \in Int /\ (f - g) * s = (f + n) * s - (g + n) * s
      BY <1>2, <1>3, <2>3
    <3> QED
      BY <1>4, <2>4, <3>1
  <2>6. x * w \in Int /\ y * w \in Int /\ x * w - y * w = (x - y) * w
    BY <1>2, <2>5
  <2>7. ((f - g) * s) * w = (f - g) * p
    BY <1>2, <1>3
  <2>8. (f - g) * p \in Int
    BY <1>2, <1>3
  <2>9. sg * x * w - sg * y * w = sg * ((f - g) * p)
    <3>1. CASE sg = 1
      BY <2>5, <2>6, <2>7, <2>8, <3>1
    <3>2. CASE sg = -1
      <4>1. (-1) * x * w = -(x * w) /\ (-1) * y * w = -(y * w)
        BY <1>2, <2>5
      <4> QED
        BY <2>5, <2>6, <2>7, <2>8, <3>2, <4>1
    <3> QED
      BY <2>3, <3>1, <3>2
  <2> QED
    BY <2>1, <2>2, <2>4, <2>9
<1>7. PICK k : k = f - g
  OBVIOUS
<1>8. /\ k \in Int /\ k * p \in Int /\ (k >= 1 => k * p >= p) /\ (k <= -1 => k * p <= -p)
      /\ (k >= 0 => k * p >= 0) /\ (k <= 0 => k * p <= 0)
      /\ (k = 1 => k * p = p) /\ (k = -1 => k * p = -p)
  BY <1>2, <1>3, <1>7
<1>9. Sign(d[a]) \in {-1, 1}
  BY <1>2
<1>10. f = g + Sign(d[a]) => Near(stand, d, b, a) = Far(stand, d, c, a)
  BY <1>2, <1>3, <1>5, <1>6, <1>7, <1>8, <1>9
<1>11. /\ Near(stand, d, b, a) < Far(stand, d, c, a)
       /\ Near(stand, d, c, a) < Far(stand, d, b, a)
       => k = 0
  BY <1>2, <1>5, <1>6, <1>7, <1>8, <1>9
<1>12. Sign(d[a]) * k <= 0 => Far(stand, d, b, a) <= Far(stand, d, c, a)
  BY <1>2, <1>5, <1>6, <1>7, <1>8, <1>9
<1>13. k = 0 => b[a] = c[a]
  BY <1>1, <1>3, <1>7, CanonicalIs, FlatDecides
<1> QED
  BY <1>1, <1>7, <1>10, <1>11, <1>12, <1>13

\* Among the moving axes one has the least number, and one the greatest.
LEMMA AxisExtremes ==
  ASSUME NEW M, M \subseteq Dims, M # {}, NEW f, \A a \in M : f[a] \in Int
  PROVE  /\ \E a \in M : \A b \in M : \/ f[a] < f[b]
                                      \/ f[a] = f[b] /\ a <= b
         /\ \E a \in M : \A b \in M : f[b] <= f[a]
<1>1. \/ M = {1} \/ M = {2} \/ M = {3}
      \/ M = {1, 2} \/ M = {1, 3} \/ M = {2, 3} \/ M = {1, 2, 3}
  <2>1. \A a \in M : a = 1 \/ a = 2 \/ a = 3
    BY DEF Dims
  <2>2. CASE 1 \in M /\ 2 \in M /\ 3 \in M
    BY <2>1, <2>2
  <2>3. CASE 1 \in M /\ 2 \in M /\ 3 \notin M
    BY <2>1, <2>3
  <2>4. CASE 1 \in M /\ 2 \notin M /\ 3 \in M
    BY <2>1, <2>4
  <2>5. CASE 1 \in M /\ 2 \notin M /\ 3 \notin M
    BY <2>1, <2>5
  <2>6. CASE 1 \notin M /\ 2 \in M /\ 3 \in M
    BY <2>1, <2>6
  <2>7. CASE 1 \notin M /\ 2 \in M /\ 3 \notin M
    BY <2>1, <2>7
  <2>8. CASE 1 \notin M /\ 2 \notin M
    BY <2>1, <2>8
  <2> QED
    BY <2>2, <2>3, <2>4, <2>5, <2>6, <2>7, <2>8
<1>2. CASE M = {1} \/ M = {2} \/ M = {3}
  <2>1. PICK x \in {1, 2, 3} : M = {x}
    BY <1>2
  <2> QED
    BY <2>1
<1>3. ASSUME NEW x \in {1, 2}, NEW y \in {2, 3}, x < y, M = {x, y}
      PROVE  /\ \E a \in M : \A b \in M : \/ f[a] < f[b]
                                          \/ f[a] = f[b] /\ a <= b
             /\ \E a \in M : \A b \in M : f[b] <= f[a]
  <2>1. f[x] \in Int /\ f[y] \in Int
    BY <1>3
  <2>2. CASE f[x] <= f[y]
    BY <1>3, <2>1, <2>2
  <2>3. CASE f[y] < f[x]
    BY <1>3, <2>1, <2>3
  <2> QED
    BY <2>1, <2>2, <2>3
<1>4. CASE M = {1, 2, 3}
  <2>1. f[1] \in Int /\ f[2] \in Int /\ f[3] \in Int
    BY <1>4
  <2>2. \E a \in {1, 2, 3} : \A b \in {1, 2, 3} : \/ f[a] < f[b]
                                                  \/ f[a] = f[b] /\ a <= b
    <3>1. CASE f[1] <= f[2] /\ f[1] <= f[3]
      BY <2>1, <3>1
    <3>2. CASE f[2] < f[1] /\ f[2] <= f[3]
      BY <2>1, <3>2
    <3>3. CASE f[3] < f[1] /\ f[3] < f[2]
      BY <2>1, <3>3
    <3> QED
      BY <2>1, <3>1, <3>2, <3>3
  <2>3. \E a \in {1, 2, 3} : \A b \in {1, 2, 3} : f[b] <= f[a]
    <3>1. CASE f[2] <= f[1] /\ f[3] <= f[1]
      BY <2>1, <3>1
    <3>2. CASE f[1] <= f[2] /\ f[3] <= f[2]
      BY <2>1, <3>2
    <3>3. CASE f[1] <= f[3] /\ f[2] <= f[3]
      BY <2>1, <3>3
    <3> QED
      BY <2>1, <3>1, <3>2, <3>3
  <2> QED
    BY <1>4, <2>2, <2>3
<1> QED
  BY <1>1, <1>2, <1>3, <1>4

LEMMA ExtremeIs ==
  ASSUME NEW S, S \subseteq Int, NEW m \in S
  PROVE  /\ (\A n \in S : n <= m) => Max2(S) = m
         /\ (\A n \in S : m <= n) => Min2(S) = m
<1>1. ASSUME \A n \in S : n <= m PROVE Max2(S) = m
  <2>1. PICK k : k = Max2(S)
    OBVIOUS
  <2>2. k \in S /\ \A n \in S : n <= k
    BY <1>1, <2>1 DEF Max2
  <2> QED
    BY <1>1, <2>1, <2>2
<1>2. ASSUME \A n \in S : m <= n PROVE Min2(S) = m
  <2>1. PICK k : k = Min2(S)
    OBVIOUS
  <2>2. k \in S /\ \A n \in S : k <= n
    BY <1>2, <2>1 DEF Min2
  <2> QED
    BY <1>2, <2>1, <2>2
<1> QED
  BY <1>1, <1>2

\* A cell: an address on every axis.
Cells3 == [Dims -> Addresses]

\* The distances at which the ray enters and leaves a cell.
LEMMA EnterLeave ==
  ASSUME NEW stand, Standing(stand), NEW d, Looking(d), NEW c \in Cells3
  PROVE  /\ Enter(stand, d, c) \in Nat /\ Leave(stand, d, c) \in Int
         /\ \A a \in Moving(d) : /\ Near(stand, d, c, a) <= Enter(stand, d, c)
                                 /\ Leave(stand, d, c) <= Far(stand, d, c, a)
         /\ Enter(stand, d, c) = 0 \/ \E a \in Moving(d) : Enter(stand, d, c) = Near(stand, d, c, a)
         /\ \E a \in Moving(d) : Leave(stand, d, c) = Far(stand, d, c, a)
<1>1. PICK near : near = [a \in Moving(d) |-> Near(stand, d, c, a)]
  OBVIOUS
<1>2. PICK far : far = [a \in Moving(d) |-> Far(stand, d, c, a)]
  OBVIOUS
<1>3. Moving(d) \subseteq Dims /\ Moving(d) # {}
  BY DEF Moving, Looking
<1>4. ASSUME NEW a \in Moving(d)
      PROVE  /\ near[a] \in Int /\ far[a] \in Int /\ near[a] <= far[a]
             /\ near[a] = Near(stand, d, c, a) /\ far[a] = Far(stand, d, c, a)
  <2>1. Canonical(c[a])
    BY <1>3 DEF Cells3, Addresses
  <2>2. near[a] \in Int /\ far[a] \in Int /\ far[a] = near[a] + PerBlock(d, a)
    BY <1>1, <1>2, <2>1, BorderIs
  <2>3. PerBlock(d, a) \in Nat
    BY WeightIs
  <2>4. near[a] <= far[a]
    BY <2>2, <2>3
  <2> QED
    BY <1>1, <1>2, <2>2, <2>4
<1>5. Enter(stand, d, c) = Max2({0} \cup {near[a] : a \in Moving(d)})
  BY <1>4 DEF Enter
<1>6. Leave(stand, d, c) = Min2({far[a] : a \in Moving(d)})
  BY <1>4 DEF Leave
<1>7. PICK x \in Moving(d) : \A b \in Moving(d) : near[b] <= near[x]
  BY <1>3, <1>4, AxisExtremes
<1>8. PICK y \in Moving(d) : \A b \in Moving(d) : far[y] <= far[b]
  <2>1. PICK z \in Moving(d) : \A b \in Moving(d) : far[z] < far[b] \/ (far[z] = far[b] /\ z <= b)
    BY <1>3, <1>4, AxisExtremes
  <2> QED
    BY <1>4, <2>1
<1>9. Leave(stand, d, c) = far[y]
  <2>1. PICK S : S = {far[a] : a \in Moving(d)}
    OBVIOUS
  <2>2. S \subseteq Int /\ far[y] \in S /\ \A n \in S : far[y] <= n
    BY <1>4, <1>8, <2>1
  <2> QED
    BY <1>6, <2>1, <2>2, ExtremeIs
<1>10. Enter(stand, d, c) = IF near[x] < 0 THEN 0 ELSE near[x]
  <2>1. PICK S : S = {0} \cup {near[a] : a \in Moving(d)}
    OBVIOUS
  <2>2. S \subseteq Int /\ 0 \in S /\ near[x] \in S
    BY <1>4, <2>1
  <2>3. \A n \in S : n = 0 \/ n <= near[x]
    BY <1>7, <2>1
  <2>4. CASE near[x] < 0
    <3>1. \A n \in S : n <= 0
      <4>1. near[x] \in Int
        BY <1>4
      <4> QED
        BY <2>2, <2>3, <2>4, <4>1
    <3> QED
      BY <1>5, <2>1, <2>2, <2>4, <3>1, ExtremeIs
  <2>5. CASE ~(near[x] < 0)
    <3>1. \A n \in S : n <= near[x]
      BY <1>4, <2>3, <2>5
    <3> QED
      BY <1>5, <2>1, <2>2, <2>5, <3>1, ExtremeIs
  <2> QED
    BY <2>4, <2>5
<1> QED
  BY <1>4, <1>7, <1>8, <1>9, <1>10

\* Two cells that the ray goes through one after the other do not overlap.
LEMMA CellsApart ==
  ASSUME NEW stand, Standing(stand), NEW d, Looking(d), NEW x \in Cells3, NEW y \in Cells3, x # y,
         ~Beside(stand, d, x), ~Beside(stand, d, y),
         Enter(stand, d, x) < Leave(stand, d, x), Enter(stand, d, y) <= Enter(stand, d, x)
  PROVE  Leave(stand, d, y) <= Enter(stand, d, x)
<1>1. SUFFICES ASSUME Enter(stand, d, x) < Leave(stand, d, y) PROVE FALSE
  BY EnterLeave
<1>2. \A a \in Dims : x[a] = y[a]
  <2>1. ASSUME NEW a \in Dims, a \notin Moving(d) PROVE x[a] = y[a]
    BY <2>1 DEF Beside
  <2>2. ASSUME NEW a \in Moving(d) PROVE x[a] = y[a]
    <3>1. a \in Dims /\ Canonical(x[a]) /\ Canonical(y[a])
      BY WeightIs DEF Cells3, Addresses
    <3>2. /\ Near(stand, d, x, a) <= Enter(stand, d, x) /\ Leave(stand, d, x) <= Far(stand, d, x, a)
          /\ Near(stand, d, y, a) <= Enter(stand, d, y) /\ Leave(stand, d, y) <= Far(stand, d, y, a)
          /\ Enter(stand, d, x) \in Int /\ Enter(stand, d, y) \in Int
          /\ Leave(stand, d, x) \in Int /\ Leave(stand, d, y) \in Int
      BY EnterLeave
    <3>3. /\ Near(stand, d, x, a) \in Int /\ Far(stand, d, x, a) \in Int
          /\ Near(stand, d, y, a) \in Int /\ Far(stand, d, y, a) \in Int
      BY <3>1, BorderIs
    <3>4. /\ Near(stand, d, x, a) < Far(stand, d, y, a)
          /\ Near(stand, d, y, a) < Far(stand, d, x, a)
      BY <1>1, <3>2, <3>3
    <3> QED
      BY <3>1, <3>4, BordersApart
  <2> QED
    BY <2>1, <2>2
<1> QED
  BY <1>2 DEF Cells3

\* A state of the walk: the cell, and the distances of its far borders.
Along(stand, d, c, border) ==
  /\ c \in Cells3 /\ border \in [Dims -> Nat]
  /\ ~Beside(stand, d, c)
  /\ \A a \in Moving(d) : border[a] = Far(stand, d, c, a)
  /\ Enter(stand, d, c) <= Leave(stand, d, c)

\* The walk begins in the cell of the eye.
LEMMA AlongFirst ==
  ASSUME NEW stand, Standing(stand), NEW d, Looking(d)
  PROVE  /\ Along(stand, d, Cell(stand), FirstBorder(stand, d))
         /\ Enter(stand, d, Cell(stand)) = 0
<1>1. PICK c, border : c = Cell(stand) /\ border = FirstBorder(stand, d)
  OBVIOUS
<1>2. \A a \in Dims : c[a] = stand[a].cell /\ stand[a].cell \in Addresses /\ stand[a].fraction \in 0..(Sub - 1)
  BY <1>1 DEF Cell, Dims, Standing
<1>3. c \in Cells3
  <2>1. DOMAIN c = Dims /\ c = [a \in Dims |-> c[a]]
    BY <1>1 DEF Cell, Dims
  <2> QED
    BY <1>2, <2>1 DEF Cells3
<1>4. ASSUME NEW a \in Dims
      PROVE  /\ d[a] = 0 => border[a] = 0
             /\ d[a] > 0 => border[a] = (Sub - stand[a].fraction) * (Scale(d) \div d[a])
             /\ d[a] < 0 => border[a] = stand[a].fraction * (Scale(d) \div (-d[a]))
  <2> DEFINE first(b) == CASE d[b] = 0 -> 0
                           [] d[b] > 0 -> (Sub - stand[b].fraction) * (Scale(d) \div d[b])
                           [] d[b] < 0 -> stand[b].fraction * (Scale(d) \div (-d[b]))
  <2>1. border = <<first(1), first(2), first(3)>>
    BY <1>1 DEF FirstBorder
  <2>2. border[a] = first(a)
    <3> HIDE DEF first
    <3> QED
      BY <2>1 DEF Dims
  <2>3. d[a] \in Int
    BY DEF Looking
  <2> QED
    BY <2>2, <2>3
<1>5. ASSUME NEW a \in Moving(d)
      PROVE  /\ border[a] \in Nat /\ border[a] = Far(stand, d, c, a)
             /\ Near(stand, d, c, a) <= 0
  <2>1. PICK w, s, p, f, r : /\ w = Weight(d, a) /\ s = Sub /\ p = PerBlock(d, a) /\ f = Flat(c[a])
                             /\ r = stand[a].fraction
    OBVIOUS
  <2>2. /\ a \in Dims /\ d[a] \in Int /\ d[a] # 0
        /\ w \in Nat \ {0} /\ p = s * w /\ p \in Nat \ {0} /\ s \in Nat \ {0}
        /\ d[a] > 0 => Sign(d[a]) = 1 /\ w = Scale(d) \div d[a]
        /\ d[a] < 0 => Sign(d[a]) = -1 /\ w = Scale(d) \div (-d[a])
    BY <2>1, WeightIs, SubAssumption
  <2>3. r \in 0..(s - 1) /\ f \in Int /\ Canonical(c[a])
    BY <1>2, <2>1, <2>2, CanonicalFlat DEF Addresses
  <2>4. At(stand, a) = f * s + r
    BY <1>2, <2>1, <2>2 DEF At
  <2>5. Far(stand, d, c, a) = Near(stand, d, c, a) + p
    BY <2>1, <2>3, BorderIs
  <2>6. (f + 0) * s - (f * s + r) = -r /\ (f + 1) * s - (f * s + r) = s - r
    <3>1. f * s \in Int /\ (f + 1) * s = f * s + s /\ (f + 0) * s = f * s
      BY <2>2, <2>3
    <3> QED
      BY <2>2, <2>3, <3>1
  <2>7. r * w \in Nat /\ r * w <= p /\ (s - r) * w = p - r * w
    <3>1. (s - r) * w = s * w - r * w /\ (s - r) * w \in Nat /\ r * w \in Nat
      BY <2>2, <2>3
    <3> QED
      BY <2>2, <3>1
  <2>8. CASE d[a] > 0
    <3>1. border[a] = (s - r) * w
      BY <1>4, <2>1, <2>2, <2>8
    <3>2. Far(stand, d, c, a) = 1 * (s - r) * w
      BY <2>1, <2>2, <2>4, <2>6, <2>8 DEF Far, Toward, Weight
    <3>3. 1 * (s - r) * w = p - r * w
      BY <2>2, <2>3, <2>7
    <3> QED
      BY <2>2, <2>5, <2>7, <3>1, <3>2, <3>3, <2>1, <2>3, BorderIs
  <2>9. CASE d[a] < 0
    <3>1. border[a] = r * w
      BY <1>4, <2>1, <2>2, <2>9
    <3>2. Far(stand, d, c, a) = (-1) * (-r) * w
      BY <2>1, <2>2, <2>4, <2>6, <2>9 DEF Far, Toward, Weight
    <3>3. (-1) * (-r) * w = r * w
      BY <2>2, <2>3
    <3> QED
      BY <2>2, <2>5, <2>7, <3>1, <3>2, <3>3, <2>1, <2>3, BorderIs
  <2> QED
    BY <2>2, <2>8, <2>9
<1>6. border \in [Dims -> Nat]
  <2>1. ASSUME NEW a \in Dims PROVE border[a] \in Nat
    BY <1>4, <1>5 DEF Moving
  <2>2. DOMAIN border = Dims /\ border = [a \in Dims |-> border[a]]
    <3>1. PICK x, y, z : border = <<x, y, z>>
      BY <1>1 DEF FirstBorder
    <3> QED
      BY <3>1 DEF Dims
  <2> QED
    BY <2>1, <2>2
<1>7. Enter(stand, d, c) = 0
  BY <1>3, <1>5, BorderIs, EnterLeave
<1>8. Enter(stand, d, c) <= Leave(stand, d, c)
  BY <1>3, <1>5, <1>7, EnterLeave
<1>9. ~Beside(stand, d, c)
  BY <1>2 DEF Beside
<1> QED
  BY <1>1, <1>3, <1>5, <1>6, <1>7, <1>8, <1>9 DEF Along

\* One cell on along an axis, and back.
LEMMA StepIs ==
  ASSUME NEW c \in Cells3, NEW a \in Dims, NEW step \in {-1, 1}, NEW next, next = Stepped(c, a, step)
  PROVE  /\ next = NoCell <=> Flat(c[a]) + step \notin Addressable
         /\ next # NoCell =>
              /\ next \in Cells3 /\ Flat(next[a]) = Flat(c[a]) + step
              /\ \A o \in Dims \ {a} : next[o] = c[o]
              /\ Stepped(next, a, -step) = c
              /\ Neighbours(c, next)
<1>1. PICK to : to = TryOffset(Block, c[a], step)
  OBVIOUS
<1>2. next = IF to = NoAddress THEN NoCell ELSE [c EXCEPT ![a] = to]
  BY <1>1 DEF Stepped
<1>3. step \in Int64 /\ -step \in Int64 /\ step \in Int
  BY RadixFacts DEF Int64
<1>4. Canonical(c[a]) /\ Flat(c[a]) \in Int /\ Flat(c[a]) \in Addressable
  BY CanonicalFlat DEF Cells3, Addresses
<1>5. /\ to = NoAddress <=> Flat(c[a]) + step \notin Addressable
      /\ to # NoAddress => Canonical(to) /\ Flat(to) = Flat(c[a]) + step
  BY <1>1, <1>3, <1>4, BlockOffset
<1>6. [c EXCEPT ![a] = to] # NoCell
  <2>1. DOMAIN [c EXCEPT ![a] = to] = Dims
    BY DEF Cells3
  <2>2. DOMAIN <<>> = {}
    OBVIOUS
  <2> QED
    BY <2>1, <2>2 DEF NoCell, Dims
<1>7. ASSUME to # NoAddress
      PROVE  /\ next \in Cells3 /\ Flat(next[a]) = Flat(c[a]) + step
             /\ \A o \in Dims \ {a} : next[o] = c[o]
             /\ Stepped(next, a, -step) = c
             /\ Neighbours(c, next)
  <2>1. next = [c EXCEPT ![a] = to]
    BY <1>2, <1>7
  <2>2. to \in Addresses
    BY <1>5, <1>7, CanonicalIs, RadixFacts DEF Addresses, Digits
  <2>3. next \in Cells3 /\ next[a] = to /\ \A o \in Dims \ {a} : next[o] = c[o]
    BY <2>1, <2>2 DEF Cells3
  <2>4. Flat(next[a]) = Flat(c[a]) + step
    BY <1>5, <1>7, <2>3
  <2>5. PICK back : back = TryOffset(Block, to, -step)
    OBVIOUS
  <2>6. Flat(to) + (-step) = Flat(c[a])
    BY <1>3, <1>4, <1>5, <1>7
  <2>7. back # NoAddress /\ Canonical(back) /\ Flat(back) = Flat(c[a])
    BY <1>3, <1>4, <1>5, <1>7, <2>5, <2>6, BlockOffset
  <2>8. back = c[a]
    BY <1>4, <2>7, CanonicalIs, FlatDecides
  <2>9. Stepped(next, a, -step) = [next EXCEPT ![a] = c[a]]
    BY <2>3, <2>5, <2>7, <2>8 DEF Stepped
  <2>10. [next EXCEPT ![a] = c[a]] = c
    BY <2>1 DEF Cells3
  <2>11. Neighbours(c, next)
    <3>1. Flat(c[a]) - Flat(next[a]) = -step
      BY <1>3, <1>4, <2>4
    <3>2. Abs(Flat(c[a]) - Flat(next[a])) = 1
      BY <3>1 DEF Abs
    <3> QED
      BY <2>3, <3>2 DEF Neighbours
  <2> QED
    BY <2>3, <2>4, <2>9, <2>10, <2>11
<1> QED
  BY <1>2, <1>5, <1>6, <1>7

\* The axis of the next step has the nearest far border: there the ray leaves the cell.
LEMMA NextAxisIs ==
  ASSUME NEW d, Looking(d), NEW border \in [Dims -> Nat], NEW a, a = NextAxis(d, border)
  PROVE  /\ a \in Moving(d) /\ a \in Dims /\ border[a] \in Nat /\ Sign(d[a]) \in {-1, 1}
         /\ \A b \in Moving(d) : border[a] <= border[b]
<1>1. Moving(d) \subseteq Dims /\ Moving(d) # {}
  BY DEF Moving, Looking
<1>2. \E x \in Moving(d) : \A b \in Moving(d) : \/ border[x] < border[b]
                                                \/ border[x] = border[b] /\ x <= b
  BY <1>1, AxisExtremes
<1>3. /\ a \in Moving(d)
      /\ \A b \in Moving(d) : \/ border[a] < border[b]
                              \/ border[a] = border[b] /\ a <= b
  BY <1>2 DEF NextAxis
<1>4. Sign(d[a]) \in {-1, 1}
  BY <1>3, WeightIs
<1> QED
  BY <1>1, <1>3, <1>4

\* A step of the walk.
LEMMA AlongNext ==
  ASSUME NEW stand, Standing(stand), NEW d, Looking(d), NEW c, NEW border, Along(stand, d, c, border),
         NEW a, a = NextAxis(d, border), NEW next, next = Stepped(c, a, Sign(d[a]))
  PROVE  /\ Leave(stand, d, c) = border[a]
         /\ next # NoCell =>
              /\ Along(stand, d, next, [border EXCEPT ![a] = @ + PerBlock(d, a)])
              /\ Enter(stand, d, next) = border[a]
<1>1. c \in Cells3 /\ border \in [Dims -> Nat] /\ ~Beside(stand, d, c)
  BY DEF Along
<1>2. /\ a \in Moving(d) /\ a \in Dims /\ border[a] \in Nat /\ Sign(d[a]) \in {-1, 1}
      /\ \A b \in Moving(d) : border[a] <= border[b]
  BY <1>1, NextAxisIs
<1>3. \A b \in Moving(d) : b \in Dims /\ border[b] \in Nat /\ border[b] = Far(stand, d, c, b)
  BY <1>1, WeightIs DEF Along
<1>4. Leave(stand, d, c) = border[a]
  <2>1. PICK x \in Moving(d) : Leave(stand, d, c) = Far(stand, d, c, x)
    BY <1>1, EnterLeave
  <2>2. Leave(stand, d, c) <= border[a] /\ border[a] <= Leave(stand, d, c) /\ Leave(stand, d, c) \in Int
    BY <1>1, <1>2, <1>3, <2>1, EnterLeave
  <2> QED
    BY <1>2, <2>2
<1>5. ASSUME next # NoCell
      PROVE  /\ Along(stand, d, next, [border EXCEPT ![a] = @ + PerBlock(d, a)])
             /\ Enter(stand, d, next) = border[a]
  <2>1. /\ next \in Cells3 /\ Flat(next[a]) = Flat(c[a]) + Sign(d[a])
        /\ \A o \in Dims \ {a} : next[o] = c[o]
    BY <1>1, <1>2, <1>5, StepIs
  <2>2. PICK on : on = [border EXCEPT ![a] = @ + PerBlock(d, a)]
    OBVIOUS
  <2>3. PerBlock(d, a) \in Nat
    BY <1>2, WeightIs
  <2>4. /\ on \in [Dims -> Nat] /\ on[a] = border[a] + PerBlock(d, a)
        /\ \A o \in Dims \ {a} : on[o] = border[o]
    BY <1>1, <1>2, <2>2, <2>3
  <2>5. \A b \in Moving(d) : Canonical(c[b]) /\ Canonical(next[b])
    BY <1>1, <1>3, <2>1 DEF Cells3, Addresses
  <2>6. Near(stand, d, next, a) = border[a] /\ Far(stand, d, next, a) = on[a]
    BY <1>2, <1>3, <2>1, <2>4, <2>5, BordersApart, BorderIs
  <2>7. \A b \in Moving(d) \ {a} : /\ Near(stand, d, next, b) = Near(stand, d, c, b)
                                   /\ Far(stand, d, next, b) = on[b]
    BY <1>3, <2>1, <2>4 DEF Near, Far
  <2>8. \A b \in Moving(d) : Near(stand, d, next, b) <= border[a]
    <3>1. ASSUME NEW b \in Moving(d), b # a PROVE Near(stand, d, c, b) <= border[a]
      <4>1. /\ Near(stand, d, c, b) <= Enter(stand, d, c) /\ Enter(stand, d, c) \in Nat
            /\ Near(stand, d, c, b) \in Int /\ Enter(stand, d, c) <= border[a]
        BY <1>1, <1>4, <2>5, EnterLeave, BorderIs DEF Along
      <4> QED
        BY <1>2, <4>1
    <3> QED
      BY <1>2, <2>6, <2>7, <3>1
  <2>9. Enter(stand, d, next) = border[a]
    <3>1. /\ Enter(stand, d, next) \in Nat /\ border[a] <= Enter(stand, d, next)
          /\ Enter(stand, d, next) = 0 \/ \E b \in Moving(d) : Enter(stand, d, next) = Near(stand, d, next, b)
      BY <1>2, <2>1, <2>6, EnterLeave
    <3> QED
      BY <1>2, <2>8, <3>1
  <2>10. border[a] <= Leave(stand, d, next)
    <3>1. PICK x \in Moving(d) : Leave(stand, d, next) = Far(stand, d, next, x)
      BY <2>1, EnterLeave
    <3>2. Leave(stand, d, next) = on[x]
      BY <2>6, <2>7, <3>1
    <3>3. CASE x = a
      BY <1>2, <2>3, <2>4, <3>2, <3>3
    <3>4. CASE x # a
      BY <1>2, <1>3, <2>4, <3>1, <3>2, <3>4
    <3> QED
      BY <3>3, <3>4
  <2>11. ~Beside(stand, d, next)
    BY <1>1, <1>2, <2>1 DEF Beside
  <2> QED
    BY <2>1, <2>2, <2>4, <2>6, <2>7, <2>9, <2>10, <2>11 DEF Along
<1> QED
  BY <1>4, <1>5

\* What is reached at a distance is reached at a shorter one, and not at any distance.
LEMMA ReachIs ==
  ASSUME NEW d, Looking(d)
  PROVE  /\ \A t \in Nat : \A u \in 0..t : WithinReach(d, t) => WithinReach(d, u)
         /\ \E bound \in Nat : \A t \in Nat : WithinReach(d, t) => t <= bound
<1>1. PICK n : n = d[1] * d[1] + d[2] * d[2] + d[3] * d[3]
  OBVIOUS
<1>2. n \in Nat \ {0}
  <2>1. \A x \in Int : x * x \in Nat /\ (x # 0 => x * x \in Nat \ {0})
    OBVIOUS
  <2>2. PICK x, y, z : x = d[1] /\ y = d[2] /\ z = d[3]
    OBVIOUS
  <2>3. x \in Int /\ y \in Int /\ z \in Int /\ (x # 0 \/ y # 0 \/ z # 0)
    BY <2>2 DEF Looking, Dims
  <2>4. /\ x * x \in Nat /\ y * y \in Nat /\ z * z \in Nat
        /\ (x * x # 0 \/ y * y # 0 \/ z * z # 0)
    BY <2>1, <2>3
  <2>5. \A i, j, k \in Nat : i # 0 \/ j # 0 \/ k # 0 => i + j + k \in Nat \ {0}
    OBVIOUS
  <2>6. x * x + y * y + z * z \in Nat \ {0}
    BY <2>4, <2>5
  <2> QED
    BY <1>1, <2>2, <2>6
<1>3. PICK r : r = Reach * Reach * Sub * Sub * Scale(d) * Scale(d)
  OBVIOUS
<1>4. PICK m : m = (Reach * Sub) * Scale(d)
  OBVIOUS
<1>5. m \in Nat /\ r = m * m
  <2>1. PICK x, y, z : x = Reach /\ y = Sub /\ z = Scale(d)
    OBVIOUS
  <2>2. x \in Nat /\ y \in Nat /\ z \in Nat
    BY <2>1, InteractionAssumption, SubAssumption, ScaleIs
  <2>3. x * y \in Nat
    BY <2>2
  <2>4. (x * y) * z \in Nat
    BY <2>2, <2>3
  <2>5. x * x * y * y * z * z = ((x * y) * z) * ((x * y) * z)
    BY <2>2
  <2> QED
    BY <1>3, <1>4, <2>1, <2>4, <2>5
<1>6. \A t : WithinReach(d, t) <=> t * t * n <= m * m
  BY <1>1, <1>3, <1>5 DEF WithinReach
<1>7. ASSUME NEW t \in Nat, NEW u \in 0..t, WithinReach(d, t) PROVE WithinReach(d, u)
  <2>1. u \in Nat /\ u * u <= t * t /\ u * u \in Nat /\ t * t \in Nat
    BY <1>7
  <2>2. (u * u) * n <= (t * t) * n
    BY <1>2, <2>1
  <2>3. t * t * n <= m * m /\ t * t * n \in Nat /\ u * u * n \in Nat /\ m * m \in Nat
    BY <1>2, <1>5, <1>6, <1>7, <2>1
  <2> QED
    BY <1>6, <2>2, <2>3
<1>8. ASSUME NEW t \in Nat, WithinReach(d, t) PROVE t <= m
  <2>1. SUFFICES ASSUME m < t PROVE FALSE
    BY <1>5
  <2>2. m * m < t * t /\ t * t \in Nat /\ m * m \in Nat
    BY <1>5, <2>1
  <2>3. t * t <= (t * t) * n
    BY <1>2, <2>2
  <2>4. (t * t) * n <= m * m
    BY <1>6, <1>8
  <2> QED
    BY <1>2, <2>2, <2>3, <2>4
<1> QED
  BY <1>5, <1>7, <1>8

\* A function that is defined by itself on what is smaller exists: the walk ends.
\* (Done says where it ends and Out with what, After is the step, and Rank gets
\* smaller with every step.)
Recursive(H, D, Done, Out, After) == H = [s \in D |-> IF s \in Done THEN Out[s] ELSE H[After[s]]]

\* A definition by recursion of which every call is of a smaller rank defines a function:
\* it is built rank by rank.
LEMMA WalkExists ==
  ASSUME NEW D, NEW Done, NEW Out, NEW After \in [D -> D], NEW Rank \in [D -> Nat],
         \A s \in D \ Done : Rank[After[s]] < Rank[s]
  PROVE  \E H : Recursive(H, D, Done, Out, After)
<1> DEFINE Below(n) == {s \in D : Rank[s] < n}
           Upto(n, H) == H = [s \in Below(n) |-> IF s \in Done THEN Out[s] ELSE H[After[s]]]
           Failing == {n \in Nat : ~(\E H : Upto(n, H))}
<1>1. Failing = {}
  <2>1. SUFFICES ASSUME Failing # {} PROVE FALSE
    OBVIOUS
  <2>2. PICK n \in Failing : \A k \in Failing : n <= k
    <3>1. Failing \subseteq Nat
      OBVIOUS
    <3> HIDE DEF Failing
    <3> QED
      BY <2>1, <3>1, LeastNumber
  <2>3. n # 0
    <3>1. SUFFICES ASSUME n = 0 PROVE FALSE
      OBVIOUS
    <3>2. Below(n) = {}
      BY <3>1
    <3>3. PICK H : H = [s \in {} |-> s]
      OBVIOUS
    <3>4. Upto(n, H)
      BY <3>2, <3>3
    <3> QED
      BY <3>4
  <2>4. n - 1 \in Nat /\ n - 1 \notin Failing
    <3>1. n \in Nat
      OBVIOUS
    <3>2. n - 1 \in Nat /\ ~(n <= n - 1)
      BY <2>3, <3>1
    <3> HIDE DEF Failing
    <3> QED
      BY <2>2, <3>2
  <2>5. PICK H : Upto(n - 1, H)
    BY <2>4
  <2>6. PICK G : G = [s \in Below(n) |-> IF s \in Done THEN Out[s] ELSE H[After[s]]]
    OBVIOUS
  <2>7. ASSUME NEW s \in Below(n), s \notin Done PROVE G[After[s]] = H[After[s]]
    <3>1. After[s] \in D /\ Rank[After[s]] < Rank[s] /\ Rank[s] < n /\ Rank[After[s]] \in Nat /\ Rank[s] \in Nat
      BY <2>7
    <3>2. After[s] \in Below(n - 1) /\ After[s] \in Below(n)
      BY <2>2, <3>1
    <3> QED
      BY <2>5, <2>6, <3>2
  <2>8. Upto(n, G)
    <3>1. \A s \in Below(n) : (IF s \in Done THEN Out[s] ELSE H[After[s]]) = (IF s \in Done THEN Out[s] ELSE G[After[s]])
      BY <2>7
    <3> HIDE DEF Below
    <3> QED
      BY <2>6, <3>1
  <2> QED
    BY <2>2, <2>8
<1>2. \A n \in Nat : \E H : Upto(n, H)
  BY <1>1
<1>3. PICK T : T = [n \in Nat |-> CHOOSE H : Upto(n, H)]
  OBVIOUS
<1>4. \A n \in Nat : Upto(n, T[n])
  <2> HIDE DEF Upto
  <2> QED
    BY <1>2, <1>3
<1>5. ASSUME NEW s \in D, NEW n \in Nat, NEW m \in Nat, Rank[s] < n, Rank[s] < m
      PROVE  T[n][s] = T[m][s]
  <2> DEFINE Bad == {Rank[x] : x \in {y \in D : /\ Rank[y] < n /\ Rank[y] < m
                                               /\ T[n][y] # T[m][y]}}
  <2>1. SUFFICES ASSUME Bad # {} PROVE FALSE
    BY <1>5
  <2>2. PICK k \in Bad : \A j \in Bad : k <= j
    <3>1. Bad \subseteq Nat
      OBVIOUS
    <3> HIDE DEF Bad
    <3> QED
      BY <2>1, <3>1, LeastNumber
  <2>3. PICK x \in D : Rank[x] = k /\ Rank[x] < n /\ Rank[x] < m /\ T[n][x] # T[m][x]
    BY <2>2
  <2>4. /\ T[n][x] = IF x \in Done THEN Out[x] ELSE T[n][After[x]]
        /\ T[m][x] = IF x \in Done THEN Out[x] ELSE T[m][After[x]]
    <3>1. x \in Below(n) /\ x \in Below(m)
      BY <2>3
    <3>2. Upto(n, T[n]) /\ Upto(m, T[m])
      BY <1>4
    <3> HIDE DEF Below
    <3> QED
      BY <3>1, <3>2
  <2>5. x \notin Done /\ T[n][After[x]] # T[m][After[x]]
    BY <2>3, <2>4
  <2>6. After[x] \in D /\ Rank[After[x]] \in Nat /\ Rank[After[x]] < Rank[x] /\ Rank[x] \in Nat
    BY <2>5
  <2>7. Rank[After[x]] \in Bad
    BY <2>3, <2>5, <2>6
  <2> QED
    BY <2>2, <2>3, <2>6, <2>7
<1>6. PICK W : W = [s \in D |-> T[Rank[s] + 1][s]]
  OBVIOUS
<1>7. ASSUME NEW s \in D
      PROVE  W[s] = IF s \in Done THEN Out[s] ELSE W[After[s]]
  <2>1. PICK r \in Nat : r = Rank[s]
    OBVIOUS
  <2>2. W[s] = IF s \in Done THEN Out[s] ELSE T[r + 1][After[s]]
    <3>1. s \in Below(r + 1) /\ r + 1 \in Nat
      BY <2>1
    <3>2. Upto(r + 1, T[r + 1]) /\ W[s] = T[r + 1][s]
      BY <1>4, <1>6, <2>1, <3>1
    <3> HIDE DEF Below
    <3> QED
      BY <3>1, <3>2
  <2>3. ASSUME s \notin Done PROVE T[r + 1][After[s]] = W[After[s]]
    <3>1. After[s] \in D /\ Rank[After[s]] \in Nat /\ Rank[After[s]] < r
      BY <2>1, <2>3
    <3>2. PICK q \in Nat : q = Rank[After[s]]
      BY <3>1
    <3>3. W[After[s]] = T[q + 1][After[s]]
      BY <1>6, <3>1, <3>2
    <3>4. q + 1 \in Nat /\ r + 1 \in Nat /\ q < q + 1 /\ q < r + 1
      BY <3>1, <3>2
    <3> QED
      BY <1>5, <3>1, <3>2, <3>3, <3>4
  <2> QED
    BY <2>2, <2>3
<1> QED
  BY <1>6, <1>7 DEF Recursive

States == [Dims -> Addresses] \X [Dims -> Nat]
On(d, border) == [border EXCEPT ![NextAxis(d, border)] = @ + PerBlock(d, NextAxis(d, border))]
Ahead(d, s) == Stepped(s[1], NextAxis(d, s[2]), Sign(d[NextAxis(d, s[2])]))

\* The walk, as the function that Pick defines.
Walks(W, d, blocks) ==
  W = [s \in States |->
         IF ~WithinReach(d, s[2][NextAxis(d, s[2])]) \/ Ahead(d, s) = NoCell THEN NoPick
         ELSE IF Ahead(d, s) \in blocks
         THEN [block |-> Ahead(d, s),
               adjacent |-> Adjacent(Ahead(d, s), NextAxis(d, s[2]), Sign(d[NextAxis(d, s[2])]))]
         ELSE W[<<Ahead(d, s), On(d, s[2])>>]]

\* Pick is the first block where the eye is in one, and else the walk from its cell.
LEMMA PickIs ==
  ASSUME NEW stand, NEW d, NEW blocks
  PROVE  Pick(stand, d, blocks) =
           IF Cell(stand) \in blocks THEN [block |-> Cell(stand), adjacent |-> NoCell]
           ELSE (CHOOSE W : Walks(W, d, blocks))[<<Cell(stand), FirstBorder(stand, d)>>]
  BY DEF Pick, Walks, States, On, Ahead

\* Within reach, every step of the walk leaves fewer steps.
LEMMA StepsLeft ==
  ASSUME NEW d, Looking(d)
  PROVE  \E R \in [[Dims -> Nat] -> Nat] : \A border \in [Dims -> Nat] :
           /\ On(d, border) \in [Dims -> Nat]
           /\ WithinReach(d, border[NextAxis(d, border)]) => R[On(d, border)] < R[border]
<1>1. PICK bound \in Nat : \A t \in Nat : WithinReach(d, t) => t <= bound
  BY ReachIs
<1> DEFINE left(t) == IF t <= bound THEN bound + 1 - t ELSE 0
<1>2. PICK R : R = [border \in [Dims -> Nat] |-> left(border[1]) + left(border[2]) + left(border[3])]
  OBVIOUS
<1>3. \A t \in Nat : left(t) \in Nat /\ \A u \in Nat : /\ left(t + u) <= left(t)
                                                       /\ t <= bound /\ u # 0 => left(t + u) < left(t)
  BY <1>1
<1>4. R \in [[Dims -> Nat] -> Nat]
  <2>1. ASSUME NEW border \in [Dims -> Nat]
        PROVE  left(border[1]) + left(border[2]) + left(border[3]) \in Nat
    <3>1. border[1] \in Nat /\ border[2] \in Nat /\ border[3] \in Nat
      BY DEF Dims
    <3>2. left(border[1]) \in Nat /\ left(border[2]) \in Nat /\ left(border[3]) \in Nat
      BY <1>3, <3>1
    <3> HIDE DEF left
    <3> QED
      BY <3>2
  <2> HIDE DEF left
  <2> QED
    BY <1>2, <2>1
<1>5. ASSUME NEW border \in [Dims -> Nat]
      PROVE  /\ On(d, border) \in [Dims -> Nat]
             /\ WithinReach(d, border[NextAxis(d, border)]) => R[On(d, border)] < R[border]
  <2>1. PICK a, u : a = NextAxis(d, border) /\ u = PerBlock(d, a)
    OBVIOUS
  <2>2. a \in Moving(d) /\ a \in Dims /\ border[a] \in Nat
    BY <2>1, NextAxisIs
  <2>3. u \in Nat \ {0}
    BY <2>1, <2>2, WeightIs
  <2>4. PICK on : on = [border EXCEPT ![a] = @ + u]
    OBVIOUS
  <2>5. on = On(d, border)
    BY <2>1, <2>4 DEF On
  <2>6. /\ on \in [Dims -> Nat] /\ on[a] = border[a] + u
        /\ \A o \in Dims \ {a} : on[o] = border[o]
    BY <2>2, <2>3, <2>4
  <2>7. \A o \in Dims : border[o] \in Nat /\ left(border[o]) \in Nat /\ left(on[o]) \in Nat /\ left(on[o]) <= left(border[o])
    <3>1. ASSUME NEW o \in Dims
          PROVE border[o] \in Nat /\ left(border[o]) \in Nat /\ left(on[o]) \in Nat /\ left(on[o]) <= left(border[o])
      <4>1. border[o] \in Nat /\ on[o] \in Nat
        BY <2>6
      <4>2. left(border[o]) \in Nat /\ left(on[o]) \in Nat
        BY <1>3, <4>1
      <4>3. left(on[o]) <= left(border[o])
        BY <1>3, <2>3, <2>6, <4>1, <4>2
      <4> HIDE DEF left
      <4> QED
        BY <4>1, <4>2, <4>3
    <3> HIDE DEF left
    <3> QED
      BY <3>1
  <2>8. ASSUME WithinReach(d, border[a]) PROVE R[on] < R[border]
    <3>1. left(on[a]) < left(border[a])
      BY <1>1, <1>3, <2>2, <2>3, <2>6, <2>8
    <3>2. /\ R[on] = left(on[1]) + left(on[2]) + left(on[3])
          /\ R[border] = left(border[1]) + left(border[2]) + left(border[3])
      BY <1>2, <2>6
    <3>3. a = 1 \/ a = 2 \/ a = 3
      BY <2>2 DEF Dims
    <3>4. /\ left(on[1]) \in Nat /\ left(on[2]) \in Nat /\ left(on[3]) \in Nat
          /\ left(border[1]) \in Nat /\ left(border[2]) \in Nat /\ left(border[3]) \in Nat
          /\ left(on[1]) <= left(border[1]) /\ left(on[2]) <= left(border[2]) /\ left(on[3]) <= left(border[3])
      BY <2>7 DEF Dims
    <3> HIDE DEF left
    <3> QED
      BY <3>1, <3>2, <3>3, <3>4
  <2> QED
    BY <2>1, <2>5, <2>6, <2>8
<1> QED
  BY <1>4, <1>5

\* The walk of the ray is such a definition: the steps that are left are its rank.
LEMMA WalkDefined ==
  ASSUME NEW d, Looking(d), NEW blocks
  PROVE  \E W : Walks(W, d, blocks)
<1>1. PICK R \in [[Dims -> Nat] -> Nat] : \A border \in [Dims -> Nat] :
           /\ On(d, border) \in [Dims -> Nat]
           /\ WithinReach(d, border[NextAxis(d, border)]) => R[On(d, border)] < R[border]
  BY StepsLeft
<1>2. PICK Done : Done = {s \in States : \/ ~WithinReach(d, s[2][NextAxis(d, s[2])])
                                         \/ Ahead(d, s) = NoCell \/ Ahead(d, s) \in blocks}
  OBVIOUS
<1>3. PICK Out : Out = [s \in States |->
         IF ~WithinReach(d, s[2][NextAxis(d, s[2])]) \/ Ahead(d, s) = NoCell THEN NoPick
         ELSE [block |-> Ahead(d, s),
               adjacent |-> Adjacent(Ahead(d, s), NextAxis(d, s[2]), Sign(d[NextAxis(d, s[2])]))]]
  OBVIOUS
<1>4. PICK After : After = [s \in States |-> IF s \in Done THEN s ELSE <<Ahead(d, s), On(d, s[2])>>]
  OBVIOUS
<1>5. PICK Rank : Rank = [s \in States |-> R[s[2]]]
  OBVIOUS
<1>6. ASSUME NEW s \in States, s \notin Done
      PROVE  <<Ahead(d, s), On(d, s[2])>> \in States /\ R[On(d, s[2])] < R[s[2]]
  <2>1. s[1] \in Cells3 /\ s[2] \in [Dims -> Nat]
    BY DEF States, Cells3
  <2>2. PICK a : a = NextAxis(d, s[2])
    OBVIOUS
  <2>3. a \in Dims /\ Sign(d[a]) \in {-1, 1}
    BY <2>1, <2>2, NextAxisIs
  <2>4. Ahead(d, s) # NoCell /\ WithinReach(d, s[2][NextAxis(d, s[2])])
    BY <1>2, <1>6
  <2>5. Ahead(d, s) \in Cells3
    BY <2>1, <2>2, <2>3, <2>4, StepIs DEF Ahead
  <2> QED
    BY <1>1, <2>1, <2>4, <2>5 DEF States, Cells3
<1>7. After \in [States -> States]
  BY <1>4, <1>6
<1>8. Rank \in [States -> Nat]
  <2>1. \A s \in States : s[2] \in [Dims -> Nat]
    BY DEF States
  <2> QED
    BY <1>1, <1>5, <2>1
<1>9. \A s \in States \ Done : Rank[After[s]] < Rank[s]
  <2>1. ASSUME NEW s \in States \ Done PROVE Rank[After[s]] < Rank[s]
    <3>1. After[s] = <<Ahead(d, s), On(d, s[2])>>
      BY <1>4
    <3>2. Rank[After[s]] = R[On(d, s[2])] /\ Rank[s] = R[s[2]]
      BY <1>5, <1>6, <3>1
    <3> QED
      BY <1>6, <3>2
  <2> QED
    BY <2>1
<1>10. PICK H : Recursive(H, States, Done, Out, After)
  BY <1>7, <1>8, <1>9, WalkExists
<1> DEFINE turn(s) == IF s \in Done THEN Out[s] ELSE H[After[s]]
           body(s) == IF ~WithinReach(d, s[2][NextAxis(d, s[2])]) \/ Ahead(d, s) = NoCell THEN NoPick
                      ELSE IF Ahead(d, s) \in blocks
                      THEN [block |-> Ahead(d, s),
                            adjacent |-> Adjacent(Ahead(d, s), NextAxis(d, s[2]), Sign(d[NextAxis(d, s[2])]))]
                      ELSE H[<<Ahead(d, s), On(d, s[2])>>]
<1>11. \A s \in States : turn(s) = body(s)
  BY <1>2, <1>3, <1>4
<1>12. H = [s \in States |-> turn(s)]
  BY <1>10 DEF Recursive
<1>13. H = [s \in States |-> body(s)]
  <2> HIDE DEF turn, body
  <2> QED
    BY <1>11, <1>12
<1> QED
  BY <1>13, Zenon DEF Walks

\* One turn of the walk.
LEMMA WalkTurn ==
  ASSUME NEW stand, Standing(stand), NEW d, Looking(d), NEW blocks, NEW W, Walks(W, d, blocks),
         NEW c, NEW border, Along(stand, d, c, border),
         NEW a, a = NextAxis(d, border), NEW next, next = Stepped(c, a, Sign(d[a])),
         NEW on, on = On(d, border)
  PROVE  /\ Leave(stand, d, c) = border[a] /\ border[a] \in Nat /\ a \in Moving(d)
         /\ ~WithinReach(d, border[a]) \/ next = NoCell => W[<<c, border>>] = NoPick
         /\ WithinReach(d, border[a]) /\ next # NoCell =>
              /\ next \in Cells3 /\ Neighbours(c, next) /\ next # c
              /\ Along(stand, d, next, on) /\ Enter(stand, d, next) = border[a]
              /\ next \in blocks => W[<<c, border>>] = [block |-> next, adjacent |-> c]
              /\ next \notin blocks => W[<<c, border>>] = W[<<next, on>>]
<1>1. c \in Cells3 /\ border \in [Dims -> Nat]
  BY DEF Along
<1>2. a \in Moving(d) /\ a \in Dims /\ border[a] \in Nat /\ Sign(d[a]) \in {-1, 1}
  BY <1>1, NextAxisIs
<1>3. on = [border EXCEPT ![a] = @ + PerBlock(d, a)]
  BY DEF On
<1>4. Leave(stand, d, c) = border[a] /\ (next # NoCell => Along(stand, d, next, on) /\ Enter(stand, d, next) = border[a])
  <2>1. /\ Leave(stand, d, c) = border[a]
        /\ next # NoCell =>
              /\ Along(stand, d, next, [border EXCEPT ![a] = @ + PerBlock(d, a)])
              /\ Enter(stand, d, next) = border[a]
    BY AlongNext
  <2> QED
    BY <1>3, <2>1
<1>5. next # NoCell => /\ next \in Cells3 /\ Neighbours(c, next) /\ Stepped(next, a, -Sign(d[a])) = c
                       /\ next # c
  <2>1. next # NoCell => /\ next \in Cells3 /\ Neighbours(c, next) /\ Stepped(next, a, -Sign(d[a])) = c
                         /\ Flat(next[a]) = Flat(c[a]) + Sign(d[a])
    BY <1>1, <1>2, StepIs
  <2>2. Flat(c[a]) \in Int
    BY <1>1, <1>2, CanonicalFlat DEF Cells3, Addresses
  <2> QED
    BY <1>2, <2>1, <2>2
<1>6. PICK s : s = <<c, border>>
  OBVIOUS
<1>7. s \in States /\ s[1] = c /\ s[2] = border
  BY <1>1, <1>6 DEF States, Cells3
<1>8. Ahead(d, s) = next /\ On(d, s[2]) = on /\ NextAxis(d, s[2]) = a
  BY <1>7 DEF Ahead
<1>9. W[s] = IF ~WithinReach(d, border[a]) \/ next = NoCell THEN NoPick
             ELSE IF next \in blocks
             THEN [block |-> next, adjacent |-> Adjacent(next, a, Sign(d[a]))]
             ELSE W[<<next, on>>]
  BY <1>7, <1>8 DEF Walks
<1> QED
  BY <1>2, <1>4, <1>5, <1>6, <1>9 DEF Adjacent

\* Where the walk is, before it has met a block.
Walked(stand, d, blocks, c, border) ==
  /\ Along(stand, d, c, border) /\ c \notin blocks
  /\ c = Cell(stand) \/ Touches(stand, d, c)

\* What the walk finds from a cell on: of the blocks not before the end of the cell,
\* the first, and the way to it.
Sees(stand, d, blocks, c, hit) ==
  /\ hit = NoPick => \A x \in blocks : Crosses(stand, d, x) => Enter(stand, d, x) < Leave(stand, d, c)
  /\ hit # NoPick =>
       /\ hit.block \in blocks /\ Touches(stand, d, hit.block)
       /\ \A x \in blocks : Crosses(stand, d, x) /\ Leave(stand, d, c) <= Enter(stand, d, x)
                              => Enter(stand, d, hit.block) <= Enter(stand, d, x)
       /\ hit.adjacent \in Cells3 \ blocks /\ Neighbours(hit.adjacent, hit.block)
       /\ hit.adjacent = Cell(stand) \/ Touches(stand, d, hit.adjacent)
       /\ Enter(stand, d, hit.adjacent) <= Enter(stand, d, hit.block)

\* If the rest of the walk sees what there is to be seen from the next cell on, the walk
\* sees what there is to be seen from this one.
LEMMA SeesStep ==
  ASSUME NEW stand, Standing(stand), NEW d, Looking(d), NEW blocks, blocks \subseteq Cells3,
         NEW W, Walks(W, d, blocks), NEW c, NEW border, Walked(stand, d, blocks, c, border),
         NEW a, a = NextAxis(d, border), NEW next, next = Stepped(c, a, Sign(d[a])),
         NEW on, on = On(d, border),
         WithinReach(d, border[a]) /\ Walked(stand, d, blocks, next, on)
           => Sees(stand, d, blocks, next, W[<<next, on>>])
  PROVE  Sees(stand, d, blocks, c, W[<<c, border>>])
<1>1. Along(stand, d, c, border) /\ c \in Cells3 /\ ~Beside(stand, d, c)
      /\ Enter(stand, d, c) <= Leave(stand, d, c)
  BY DEF Walked, Along
<1>2. /\ Leave(stand, d, c) = border[a] /\ border[a] \in Nat /\ a \in Moving(d)
      /\ ~WithinReach(d, border[a]) \/ next = NoCell => W[<<c, border>>] = NoPick
      /\ WithinReach(d, border[a]) /\ next # NoCell =>
              /\ next \in Cells3 /\ Neighbours(c, next) /\ next # c
              /\ Along(stand, d, next, on) /\ Enter(stand, d, next) = border[a]
              /\ next \in blocks => W[<<c, border>>] = [block |-> next, adjacent |-> c]
              /\ next \notin blocks => W[<<c, border>>] = W[<<next, on>>]
  BY <1>1, WalkTurn
<1>3. ASSUME NEW x \in Cells3, Crosses(stand, d, x)
      PROVE  /\ ~Beside(stand, d, x) /\ WithinReach(d, Enter(stand, d, x))
             /\ Enter(stand, d, x) < Leave(stand, d, x) /\ Enter(stand, d, x) \in Nat /\ Leave(stand, d, x) \in Int
  BY <1>3, EnterLeave DEF Crosses, Touches
<1>4. CASE ~WithinReach(d, border[a])
  <2>1. ASSUME NEW x \in blocks, Crosses(stand, d, x) PROVE Enter(stand, d, x) < Leave(stand, d, c)
    <3>1. SUFFICES ASSUME border[a] <= Enter(stand, d, x) PROVE FALSE
      BY <1>2, <1>3, <2>1
    <3>2. WithinReach(d, Enter(stand, d, x)) /\ Enter(stand, d, x) \in Nat /\ border[a] \in 0..Enter(stand, d, x)
      BY <1>2, <1>3, <2>1, <3>1
    <3> QED
      BY <1>4, <3>2, ReachIs
  <2> QED
    BY <1>2, <1>4, <2>1 DEF Sees
<1>5. CASE WithinReach(d, border[a]) /\ next = NoCell
  <2>1. ASSUME NEW x \in blocks, Crosses(stand, d, x) PROVE Enter(stand, d, x) < Leave(stand, d, c)
    <3>1. Flat(c[a]) + Sign(d[a]) \notin Addressable /\ a \in Dims /\ Sign(d[a]) \in {-1, 1}
      <4>1. a \in Dims /\ Sign(d[a]) \in {-1, 1}
        BY <1>1, NextAxisIs DEF Along
      <4> QED
        BY <1>1, <1>5, <4>1, StepIs
    <3>2. /\ Canonical(x[a]) /\ Canonical(c[a])
          /\ Flat(x[a]) \in Addressable /\ Flat(c[a]) \in Addressable
      BY <1>1, <3>1, CanonicalFlat DEF Cells3, Addresses
    <3>3. PICK low, high : Addressable = low..high /\ low \in Int /\ high \in Int
      BY AddressableInterval
    <3>4. Sign(d[a]) * (Flat(x[a]) - Flat(c[a])) <= 0
      <4>1. PICK f, g : f = Flat(x[a]) /\ g = Flat(c[a])
        OBVIOUS
      <4>2. f \in low..high /\ g \in low..high
        BY <3>2, <3>3, <4>1
      <4>3. CASE Sign(d[a]) = 1
        BY <3>1, <3>3, <4>1, <4>2, <4>3
      <4>4. CASE Sign(d[a]) = -1
        BY <3>1, <3>3, <4>1, <4>2, <4>4
      <4> QED
        BY <3>1, <4>3, <4>4
    <3>5. Far(stand, d, x, a) <= Far(stand, d, c, a)
      BY <1>2, <3>2, <3>4, BordersApart
    <3>6. Leave(stand, d, x) <= Far(stand, d, x, a) /\ Far(stand, d, c, a) = border[a] /\ Far(stand, d, x, a) \in Int
      BY <1>1, <1>2, <3>2, EnterLeave, BorderIs DEF Along
    <3> QED
      BY <1>2, <1>3, <2>1, <3>5, <3>6
  <2> QED
    BY <1>2, <1>5, <2>1 DEF Sees
<1>6. CASE WithinReach(d, border[a]) /\ next # NoCell
  <2>1. /\ next \in Cells3 /\ ~Beside(stand, d, next) /\ Touches(stand, d, next)
        /\ Enter(stand, d, next) = Leave(stand, d, c)
    <3>1. Along(stand, d, next, on) /\ Enter(stand, d, next) = border[a]
      BY <1>2, <1>6
    <3> QED
      BY <1>2, <1>6, <3>1 DEF Along, Touches
  <2>2. CASE next \in blocks
    <3>1. PICK hit : hit = W[<<c, border>>]
      OBVIOUS
    <3>2. hit = [block |-> next, adjacent |-> c]
      BY <1>2, <1>6, <2>2, <3>1
    <3>3. hit.block = next /\ hit.adjacent = c /\ hit # NoPick
      <4>1. DOMAIN hit = {"block", "adjacent"} /\ DOMAIN NoPick = {}
        BY <3>2 DEF NoPick
      <4> QED
        BY <3>2, <4>1
    <3>4. c \notin blocks /\ (c = Cell(stand) \/ Touches(stand, d, c))
      BY DEF Walked
    <3> QED
      BY <1>1, <1>2, <1>6, <2>1, <2>2, <3>1, <3>3, <3>4 DEF Sees
  <2>3. CASE next \notin blocks
    <3>1. W[<<c, border>>] = W[<<next, on>>] /\ Walked(stand, d, blocks, next, on)
      BY <1>2, <1>6, <2>1, <2>3 DEF Walked
    <3>2. PICK hit : hit = W[<<next, on>>]
      OBVIOUS
    <3>3. Sees(stand, d, blocks, next, hit)
      BY <1>6, <3>1, <3>2
    <3>4. ASSUME NEW x \in blocks, Crosses(stand, d, x), Leave(stand, d, c) <= Enter(stand, d, x)
          PROVE  Leave(stand, d, next) <= Enter(stand, d, x)
      <4>1. x \in Cells3 /\ x # next
        BY <2>3
      <4> QED
        BY <1>3, <2>1, <3>4, <4>1, CellsApart
    <3>5. hit = NoPick => \A x \in blocks : Crosses(stand, d, x) => Enter(stand, d, x) < Leave(stand, d, c)
      <4>1. ASSUME hit = NoPick, NEW x \in blocks, Crosses(stand, d, x), Leave(stand, d, c) <= Enter(stand, d, x)
            PROVE FALSE
        <5>1. Leave(stand, d, next) <= Enter(stand, d, x) /\ Enter(stand, d, x) < Leave(stand, d, next)
          BY <3>3, <3>4, <4>1 DEF Sees
        <5> QED
          BY <1>3, <2>1, <4>1, <5>1, EnterLeave
      <4>2. \A x \in blocks : Crosses(stand, d, x) => Enter(stand, d, x) \in Nat
        BY <1>3
      <4> QED
        BY <1>2, <4>1, <4>2
    <3> QED
      BY <3>1, <3>2, <3>3, <3>4, <3>5 DEF Sees
  <2> QED
    BY <2>2, <2>3
<1> QED
  BY <1>4, <1>5, <1>6

\* A walk does not go on for ever: no set of states holds, for each, the next one
\* within reach.
LEMMA WalkEnds ==
  ASSUME NEW d, Looking(d), NEW S, S \subseteq States,
         \A s \in S : /\ WithinReach(d, s[2][NextAxis(d, s[2])])
                      /\ <<Ahead(d, s), On(d, s[2])>> \in S
  PROVE  S = {}
<1>1. PICK R \in [[Dims -> Nat] -> Nat] : \A border \in [Dims -> Nat] :
           /\ On(d, border) \in [Dims -> Nat]
           /\ WithinReach(d, border[NextAxis(d, border)]) => R[On(d, border)] < R[border]
  BY StepsLeft
<1>2. SUFFICES ASSUME S # {} PROVE FALSE
  OBVIOUS
<1>3. \A s \in S : s[2] \in [Dims -> Nat]
  BY DEF States
<1>4. PICK T : T = {R[s[2]] : s \in S}
  OBVIOUS
<1>5. T \subseteq Nat /\ T # {}
  <2>1. \A s \in S : R[s[2]] \in Nat
    BY <1>1, <1>3
  <2> QED
    BY <1>2, <1>4, <2>1
<1>6. PICK n \in T : \A k \in T : n <= k
  BY <1>5, LeastNumber
<1>7. PICK s \in S : n = R[s[2]]
  BY <1>4, <1>6
<1>8. PICK v : v = <<Ahead(d, s), On(d, s[2])>>
  OBVIOUS
<1>9. v \in S /\ v[2] = On(d, s[2]) /\ R[v[2]] < R[s[2]]
  BY <1>1, <1>3, <1>8
<1>10. R[v[2]] \in T /\ R[v[2]] \in Nat /\ n \in Nat
  BY <1>4, <1>5, <1>6, <1>9
<1> QED
  BY <1>6, <1>7, <1>9, <1>10

\* The walk sees what there is to be seen: the states in which it would not are a set
\* that never ends, and there is none but the empty set.
LEMMA WalkSees ==
  ASSUME NEW stand, Standing(stand), NEW d, Looking(d), NEW blocks, blocks \subseteq Cells3,
         NEW W, Walks(W, d, blocks), NEW c, NEW border, Walked(stand, d, blocks, c, border)
  PROVE  Sees(stand, d, blocks, c, W[<<c, border>>])
<1>1. PICK S : S = {s \in States : /\ Walked(stand, d, blocks, s[1], s[2])
                                   /\ ~Sees(stand, d, blocks, s[1], W[<<s[1], s[2]>>])}
  OBVIOUS
<1>2. ASSUME NEW s \in S
      PROVE  /\ WithinReach(d, s[2][NextAxis(d, s[2])])
             /\ <<Ahead(d, s), On(d, s[2])>> \in S
  <2>1. PICK e, b, a, next, on : /\ e = s[1] /\ b = s[2] /\ a = NextAxis(d, b)
                                 /\ next = Stepped(e, a, Sign(d[a])) /\ on = On(d, b)
    OBVIOUS
  <2>2. Walked(stand, d, blocks, e, b) /\ ~Sees(stand, d, blocks, e, W[<<e, b>>])
    BY <1>1, <2>1
  <2>3. /\ WithinReach(d, b[a]) /\ Walked(stand, d, blocks, next, on)
        /\ ~Sees(stand, d, blocks, next, W[<<next, on>>])
    BY <2>1, <2>2, SeesStep
  <2>4. <<next, on>> \in States
    BY <2>3 DEF Walked, Along, States, Cells3
  <2>5. <<next, on>> \in S
    BY <1>1, <2>3, <2>4
  <2> QED
    BY <2>1, <2>3, <2>5 DEF Ahead
<1>3. S \subseteq States
  BY <1>1
<1>4. S = {}
  BY <1>2, <1>3, WalkEnds
<1>5. PICK s : s = <<c, border>>
  OBVIOUS
<1>6. s \in States /\ s[1] = c /\ s[2] = border
  BY <1>5 DEF Walked, Along, States, Cells3
<1> QED
  BY <1>1, <1>4, <1>6

\* The first state of a walk.
LEMMA FirstWalked ==
  ASSUME NEW stand, Standing(stand), NEW d, Looking(d), NEW blocks, Cell(stand) \notin blocks
  PROVE  Walked(stand, d, blocks, Cell(stand), FirstBorder(stand, d))
  BY AlongFirst DEF Walked

\* What is picked is the first block that the ray goes through.
LEMMA PickSees ==
  ASSUME NEW stand, Standing(stand), NEW d, Looking(d), NEW blocks, blocks \subseteq Cells3,
         NEW hit, hit = Pick(stand, d, blocks)
  PROVE  /\ Cell(stand) \in blocks => hit = [block |-> Cell(stand), adjacent |-> NoCell]
         /\ Cell(stand) \notin blocks /\ hit = NoPick => \A x \in blocks : ~Crosses(stand, d, x)
         /\ Cell(stand) \notin blocks /\ hit # NoPick =>
              /\ hit.block \in blocks /\ Touches(stand, d, hit.block)
              /\ \A x \in blocks : Crosses(stand, d, x) => Enter(stand, d, hit.block) <= Enter(stand, d, x)
              /\ hit.adjacent \in Cells3 \ blocks /\ hit.adjacent # NoCell
              /\ Neighbours(hit.adjacent, hit.block)
              /\ hit.adjacent = Cell(stand) \/ Touches(stand, d, hit.adjacent)
              /\ Enter(stand, d, hit.adjacent) <= Enter(stand, d, hit.block)
<1>1. PICK here, border, W : /\ here = Cell(stand) /\ border = FirstBorder(stand, d)
                             /\ W = CHOOSE V : Walks(V, d, blocks)
  OBVIOUS
<1>2. hit = IF here \in blocks THEN [block |-> here, adjacent |-> NoCell] ELSE W[<<here, border>>]
  BY <1>1, PickIs
<1>3. CASE here \in blocks
  BY <1>1, <1>2, <1>3
<1>4. CASE here \notin blocks
  <2>1. Walks(W, d, blocks)
    BY <1>1, WalkDefined
  <2>2. Walked(stand, d, blocks, here, border)
    BY <1>1, <1>4, FirstWalked
  <2>3. Sees(stand, d, blocks, here, hit)
    BY <1>2, <1>4, <2>1, <2>2, WalkSees
  <2>4. here \in Cells3 /\ ~Beside(stand, d, here) /\ Enter(stand, d, here) = 0
    BY <1>1, <2>2, AlongFirst DEF Walked, Along
  <2>5. ASSUME NEW x \in blocks, Crosses(stand, d, x)
        PROVE  /\ Leave(stand, d, here) <= Enter(stand, d, x)
               /\ Leave(stand, d, here) \in Int /\ Enter(stand, d, x) \in Int
    <3>1. /\ x \in Cells3 /\ x # here /\ ~Beside(stand, d, x)
          /\ Enter(stand, d, x) < Leave(stand, d, x)
      BY <1>4, <2>5 DEF Crosses, Touches
    <3>2. Enter(stand, d, x) \in Nat /\ Leave(stand, d, here) \in Int
      BY <2>4, <3>1, EnterLeave
    <3>3. Enter(stand, d, here) <= Enter(stand, d, x)
      BY <2>4, <3>2
    <3> QED
      BY <2>4, <3>1, <3>2, <3>3, CellsApart
  <2>6. \A x \in Cells3 : x # NoCell
    <3>1. ASSUME NEW x \in Cells3 PROVE x # NoCell
      <4>1. DOMAIN x = Dims /\ DOMAIN <<>> = {}
        BY DEF Cells3
      <4> QED
        BY <4>1 DEF NoCell, Dims
    <3> QED
      BY <3>1
  <2> QED
    BY <1>1, <1>4, <2>3, <2>5, <2>6 DEF Sees
<1> QED
  BY <1>3, <1>4

\* With one block more, where the walk came from, the walk ends in that block.
Offers(stand, d, blocks, W, cell, V, c, border) ==
  /\ Walks(W, d, blocks) /\ Walks(V, d, blocks \cup {cell})
  /\ Along(stand, d, c, border) /\ c # cell
  /\ W[<<c, border>>] # NoPick /\ W[<<c, border>>].adjacent = cell

\* Once the picked cell is filled, the walk along the same ray stops at it.
LEMMA FindsAgain ==
  ASSUME NEW stand, Standing(stand), NEW d, Looking(d), NEW blocks,
         NEW W, NEW cell, NEW V, NEW c, NEW border, Offers(stand, d, blocks, W, cell, V, c, border)
  PROVE  V[<<c, border>>] # NoPick /\ V[<<c, border>>].block = cell
<1>0. Walks(W, d, blocks) /\ Walks(V, d, blocks \cup {cell})
  BY DEF Offers
<1> DEFINE Found(e, b) == V[<<e, b>>] # NoPick /\ V[<<e, b>>].block = cell
           Offered(e, b) == /\ Along(stand, d, e, b) /\ e # cell
                            /\ W[<<e, b>>] # NoPick /\ W[<<e, b>>].adjacent = cell
<1>1. PICK S : S = {s \in States : Offered(s[1], s[2]) /\ ~Found(s[1], s[2])}
  OBVIOUS
<1>2. ASSUME NEW s \in S
      PROVE  /\ WithinReach(d, s[2][NextAxis(d, s[2])])
             /\ <<Ahead(d, s), On(d, s[2])>> \in S
  <2>1. PICK e, b, a, next, on : /\ e = s[1] /\ b = s[2] /\ a = NextAxis(d, b)
                                 /\ next = Stepped(e, a, Sign(d[a])) /\ on = On(d, b)
    OBVIOUS
  <2>2. Offered(e, b) /\ ~Found(e, b)
    BY <1>1, <2>1
  <2>3. /\ ~WithinReach(d, b[a]) \/ next = NoCell => W[<<e, b>>] = NoPick
        /\ WithinReach(d, b[a]) /\ next # NoCell =>
              /\ Along(stand, d, next, on)
              /\ next \in blocks => W[<<e, b>>] = [block |-> next, adjacent |-> e]
              /\ next \notin blocks => W[<<e, b>>] = W[<<next, on>>]
    BY <1>0, <2>1, <2>2, WalkTurn
  <2>4. WithinReach(d, b[a]) /\ next # NoCell
    BY <2>2, <2>3
  <2>5. next \notin blocks /\ W[<<e, b>>] = W[<<next, on>>]
    BY <2>2, <2>3, <2>4
  <2>6. /\ next \in blocks \cup {cell} => V[<<e, b>>] = [block |-> next, adjacent |-> e]
        /\ next \notin blocks \cup {cell} => V[<<e, b>>] = V[<<next, on>>]
    BY <1>0, <2>1, <2>2, <2>4, WalkTurn
  <2>7. next # cell
    <3>1. SUFFICES ASSUME next = cell PROVE FALSE
      OBVIOUS
    <3>2. V[<<e, b>>] = [block |-> cell, adjacent |-> e]
      BY <2>6, <3>1
    <3>3. V[<<e, b>>] # NoPick /\ V[<<e, b>>].block = cell
      <4>1. DOMAIN V[<<e, b>>] = {"block", "adjacent"} /\ DOMAIN NoPick = {}
        BY <3>2 DEF NoPick
      <4> QED
        BY <3>2, <4>1
    <3> QED
      BY <2>2, <3>3
  <2>8. Offered(next, on) /\ ~Found(next, on)
    <3>1. V[<<e, b>>] = V[<<next, on>>]
      BY <2>5, <2>6, <2>7
    <3> QED
      BY <2>2, <2>3, <2>4, <2>5, <2>7, <3>1
  <2>9. <<next, on>> \in States
    BY <2>8 DEF Along, States, Cells3
  <2>10. <<next, on>> \in S
    <3> HIDE DEF Offered, Found
    <3> QED
      BY <1>1, <2>8, <2>9
  <2> QED
    BY <2>1, <2>4, <2>10 DEF Ahead
<1>3. S \subseteq States
  BY <1>1
<1>4. S = {}
  BY <1>2, <1>3, WalkEnds
<1>5. PICK s : s = <<c, border>>
  OBVIOUS
<1>6. s \in States /\ s[1] = c /\ s[2] = border
  BY <1>5 DEF Offers, Along, States, Cells3
<1>7. Offered(c, border)
  BY DEF Offers
<1>8. Found(c, border)
  <2> HIDE DEF Offered, Found
  <2> QED
    BY <1>1, <1>4, <1>6, <1>7
<1> QED
  BY <1>8

\* A block that is placed where the pick offers is what the same ray picks next.
LEMMA PicksPlaced ==
  ASSUME NEW stand, Standing(stand), NEW d, Looking(d), NEW blocks, blocks \subseteq Cells3,
         Pick(stand, d, blocks) # NoPick, Pick(stand, d, blocks).adjacent # NoCell
  PROVE  LET cell == Pick(stand, d, blocks).adjacent
         IN /\ Pick(stand, d, blocks \cup {cell}) # NoPick
            /\ Pick(stand, d, blocks \cup {cell}).block = cell
<1>1. PICK hit, cell, more, again : /\ hit = Pick(stand, d, blocks) /\ cell = hit.adjacent
                                    /\ more = blocks \cup {cell} /\ again = Pick(stand, d, more)
  OBVIOUS
<1>2. PICK here, border, W, V : /\ here = Cell(stand) /\ border = FirstBorder(stand, d)
                                /\ W = CHOOSE U : Walks(U, d, blocks)
                                /\ V = CHOOSE U : Walks(U, d, more)
  OBVIOUS
<1>3. hit = IF here \in blocks THEN [block |-> here, adjacent |-> NoCell] ELSE W[<<here, border>>]
  BY <1>1, <1>2, PickIs
<1>4. again = IF here \in more THEN [block |-> here, adjacent |-> NoCell] ELSE V[<<here, border>>]
  BY <1>1, <1>2, PickIs
<1>5. hit # NoPick /\ cell # NoCell
  BY <1>1
<1>6. here \notin blocks /\ hit = W[<<here, border>>]
  <2>1. [block |-> here, adjacent |-> NoCell].adjacent = NoCell
    OBVIOUS
  <2> QED
    BY <1>1, <1>3, <1>5, <2>1
<1>7. cell \in Cells3
  BY <1>1, <1>2, <1>5, <1>6, PickSees
<1>8. again # NoPick /\ again.block = cell
  <2>1. CASE here = cell
    <3>1. again = [block |-> cell, adjacent |-> NoCell]
      BY <1>1, <1>4, <2>1
    <3>2. DOMAIN again = {"block", "adjacent"} /\ DOMAIN NoPick = {}
      BY <3>1 DEF NoPick
    <3>3. again.block = cell
      BY <3>1
    <3> QED
      BY <3>2, <3>3
  <2>2. CASE here # cell
    <3>1. Walks(W, d, blocks) /\ Walks(V, d, blocks \cup {cell})
      BY <1>1, <1>2, WalkDefined
    <3>2. Along(stand, d, here, border)
      BY <1>2, AlongFirst
    <3>3. again = V[<<here, border>>]
      BY <1>1, <1>4, <1>6, <2>2
    <3>4. W[<<here, border>>] # NoPick /\ W[<<here, border>>].adjacent = cell
      BY <1>1, <1>5, <1>6
    <3>5. V[<<here, border>>] # NoPick /\ V[<<here, border>>].block = cell
      <4>1. Offers(stand, d, blocks, W, cell, V, here, border)
        BY <2>2, <3>1, <3>2, <3>4 DEF Offers
      <4> QED
        BY <4>1, FindsAgain
    <3> QED
      BY <3>3, <3>5
  <2> QED
    BY <2>1, <2>2
<1> QED
  BY <1>1, <1>8
-----------------------------------------------------------------------------
(* The player in the world.                                                *)

\* The blocks of the world are cells with an address, in chunks that are loaded.
PlayerInv == InteractionTypeOK /\ solid \subseteq Cells3

\* The constants of the player, in the terms of the lemmas.
LEMMA PlayerFacts ==
  /\ \A stand \in Stands : Standing(stand)
  /\ \A d \in Aims : Looking(d)
  /\ Generated \subseteq Cells3
  /\ MaxHeld \in Nat /\ MaxQueue \in Nat /\ MaxClicks \in Nat
  BY InteractionAssumption DEF Standing, Looking, Cells3

\* The invariant holds at first.
LEMMA PlayerInit == InteractionInit => PlayerInv
<1> SUFFICES ASSUME InteractionInit PROVE PlayerInv
  OBVIOUS
<1>1. solid \subseteq Cells3 /\ \A c \in solid : ChunkOfCell(c) \in loaded
  BY PlayerFacts DEF InteractionInit
<1>2. \A c \in solid : \A a \in Dims : Canonical(c[a])
  BY <1>1 DEF Cells3, Addresses
<1>3. Len(queue) <= MaxQueue /\ clicks \in 0..MaxClicks
  BY PlayerFacts DEF InteractionInit
<1> QED
  BY <1>1, <1>2, <1>3 DEF PlayerInv, InteractionTypeOK, InteractionInit

\* A click changes nothing, places the cell that is picked next, or removes what was
\* picked.
LEMMA ClickIs ==
  ASSUME PlayerInv, PressPrimary \/ PressSecondary
  PROVE  /\ solid' \subseteq Cells3 /\ \A c \in solid' : ChunkOfCell(c) \in loaded
         /\ \/ solid' = solid
            \/ \E c \in solid' \ solid : /\ solid' = solid \cup {c}
                                         /\ Pick(eye, aim, solid') # NoPick
                                         /\ Pick(eye, aim, solid').block = c
            \/ \E c \in solid \ solid' : /\ solid' = solid \ {c}
                                         /\ Pick(eye, aim, solid).block = c
<1>1. /\ Standing(eye) /\ Looking(aim) /\ solid \subseteq Cells3
      /\ \A c \in solid : ChunkOfCell(c) \in loaded
  BY PlayerFacts DEF PlayerInv, InteractionTypeOK
<1>2. PICK hit : hit = Pick(eye, aim, solid)
  OBVIOUS
<1>3. CASE PressPrimary
  <2>1. solid' = IF hit = NoPick THEN solid
                 ELSE IF hit.adjacent = NoCell \/ hit.adjacent \in solid THEN solid
                 ELSE Placed(hit.adjacent)
    BY <1>2, <1>3 DEF PressPrimary
  <2>2. PICK cell : cell = hit.adjacent
    OBVIOUS
  <2>3. CASE hit = NoPick \/ cell = NoCell \/ cell \in solid \/ ChunkOfCell(cell) \notin loaded
    <3>1. solid' = solid
      BY <2>1, <2>2, <2>3 DEF Placed
    <3> QED
      BY <1>1, <3>1
  <2>4. CASE hit # NoPick /\ cell # NoCell /\ cell \notin solid /\ ChunkOfCell(cell) \in loaded
    <3>1. solid' = solid \cup {cell}
      BY <2>1, <2>2, <2>4 DEF Placed
    <3>2. Cell(eye) \notin solid
      <4>1. SUFFICES ASSUME Cell(eye) \in solid PROVE FALSE
        OBVIOUS
      <4>2. hit = [block |-> Cell(eye), adjacent |-> NoCell]
        BY <1>1, <1>2, <4>1, PickSees
      <4>3. hit.adjacent = NoCell
        BY <4>2
      <4> QED
        BY <2>2, <2>4, <4>3
    <3>3. cell \in Cells3
      BY <1>1, <1>2, <2>2, <2>4, <3>2, PickSees
    <3>4. /\ Pick(eye, aim, solid) # NoPick /\ Pick(eye, aim, solid).adjacent = cell
          /\ Pick(eye, aim, solid).adjacent # NoCell
      BY <1>2, <2>2, <2>4
    <3>5. /\ Pick(eye, aim, solid \cup {cell}) # NoPick
          /\ Pick(eye, aim, solid \cup {cell}).block = cell
      <4>1. /\ Pick(eye, aim, solid \cup {Pick(eye, aim, solid).adjacent}) # NoPick
            /\ Pick(eye, aim, solid \cup {Pick(eye, aim, solid).adjacent}).block
                 = Pick(eye, aim, solid).adjacent
        BY <1>1, <3>4, PicksPlaced
      <4> QED
        BY <3>4, <4>1
    <3>6. cell \in solid' \ solid /\ Pick(eye, aim, solid') # NoPick /\ Pick(eye, aim, solid').block = cell
      BY <2>4, <3>1, <3>5
    <3> QED
      BY <1>1, <2>4, <3>1, <3>3, <3>6
  <2> QED
    BY <2>3, <2>4
<1>4. CASE PressSecondary
  <2>1. solid' = IF hit = NoPick THEN solid ELSE Removed(hit.block)
    BY <1>2, <1>4 DEF PressSecondary
  <2>2. PICK cell : cell = hit.block
    OBVIOUS
  <2>3. solid' = solid \/ solid' = solid \ {cell}
    BY <2>1, <2>2 DEF Removed
  <2>4. CASE cell \in solid /\ solid' = solid \ {cell}
    BY <1>1, <1>2, <2>2, <2>4
  <2>5. CASE solid' = solid
    BY <1>1, <2>5
  <2>6. CASE cell \notin solid /\ solid' = solid \ {cell}
    <3>1. solid' = solid
      BY <2>6
    <3> QED
      BY <1>1, <3>1
  <2> QED
    BY <2>3, <2>4, <2>5, <2>6
<1> QED
  BY <1>3, <1>4

\* What a step leaves of the world: cells in loaded chunks, and changed only by a
\* click unless chunks come or go.
LEMMA WorldStep ==
  ASSUME InputInv, PlayerInv, InteractionNext
  PROVE  /\ eye' \in Stands /\ aim' \in Aims /\ loaded' \in Residencies
         /\ solid' \subseteq Cells3 /\ \A c \in solid' : ChunkOfCell(c) \in loaded'
         /\ EditsWhatIsAimedAt
<1>1. /\ eye \in Stands /\ aim \in Aims /\ loaded \in Residencies
      /\ solid \subseteq Cells3 /\ \A c \in solid : ChunkOfCell(c) \in loaded
  BY DEF PlayerInv, InteractionTypeOK
<1>2. CASE PollEvent
  <2>1. PICK e : /\ e = Head(queue)
                 /\ aim' = IF e.type = "motion" THEN e.aim ELSE aim
                 /\ IF Pressed(e, "primary") THEN PressPrimary
                    ELSE IF Pressed(e, "secondary") THEN PressSecondary
                    ELSE UNCHANGED solid
    BY <1>2 DEF PollEvent
  <2>2. queue # <<>> /\ UNCHANGED <<eye, loaded>> /\ queue \in Seq(Events)
    BY <1>2 DEF PollEvent, InputInv, InputTypeOK
  <2>3. e \in Events
    BY <2>1, <2>2
  <2>4. e.type = "motion" => e.aim \in Aims
    BY <2>3 DEF Events, KeyEvents
  <2>5. aim' \in Aims
    BY <1>1, <2>1, <2>4
  <2>6. CASE PressPrimary \/ PressSecondary
    <3>1. CASE solid' = solid
      BY <1>1, <2>2, <2>5, <3>1 DEF EditsWhatIsAimedAt
    <3>2. CASE solid' # solid
      <4>1. e.type = "down"
        BY <2>1, <3>2 DEF Pressed
      <4>2. aim' = aim /\ eye' = eye
        BY <2>1, <2>2, <4>1
      <4>3. /\ solid' \subseteq Cells3 /\ \A c \in solid' : ChunkOfCell(c) \in loaded
            /\ \/ \E c \in solid' \ solid : /\ solid' = solid \cup {c}
                                            /\ Pick(eye, aim, solid') # NoPick
                                            /\ Pick(eye, aim, solid').block = c
               \/ \E c \in solid \ solid' : /\ solid' = solid \ {c}
                                            /\ Pick(eye, aim, solid).block = c
        BY <2>6, <3>2, ClickIs
      <4>4. EditsWhatIsAimedAt
        <5>1. Pick(eye', aim', solid') = Pick(eye, aim, solid')
          BY <4>2
        <5> QED
          BY <4>3, <5>1 DEF EditsWhatIsAimedAt
      <4> QED
        BY <1>1, <2>2, <4>2, <4>3, <4>4
    <3> QED
      BY <3>1, <3>2
  <2>7. CASE UNCHANGED solid
    BY <1>1, <2>2, <2>5, <2>7 DEF EditsWhatIsAimedAt
  <2> QED
    BY <2>1, <2>6, <2>7
<1>3. CASE Frame
  <2>1. PICK stand \in IF "move" \in down THEN Stands ELSE {eye}, now \in Residencies :
          /\ eye' = stand /\ loaded' = now
          /\ solid' = {c \in solid : ChunkOfCell(c) \in now}
                        \cup {c \in Generated : ChunkOfCell(c) \in now \ loaded}
    BY <1>3 DEF Frame
  <2>2. eye' \in Stands /\ aim' = aim
    BY <1>1, <1>3, <2>1 DEF Frame
  <2>3. solid' \subseteq Cells3 /\ \A c \in solid' : ChunkOfCell(c) \in loaded'
    BY <1>1, <2>1, PlayerFacts
  <2>4. loaded' = loaded => solid' = solid
    BY <1>1, <2>1
  <2> QED
    BY <1>1, <2>1, <2>2, <2>3, <2>4 DEF EditsWhatIsAimedAt
<1>4. CASE Player
  BY <1>1, <1>4 DEF Player, sight, world, EditsWhatIsAimedAt
<1> QED
  BY <1>2, <1>3, <1>4 DEF InteractionNext

\* What a step leaves of the window and of the bounds of the model.
LEMMA WindowBounds ==
  ASSUME InputInv, PlayerInv, InteractionNext
  PROVE  focused' \in BOOLEAN /\ running' \in BOOLEAN /\ clicks' \in 0..MaxClicks /\ Len(queue') <= MaxQueue
<1>1. /\ focused \in BOOLEAN /\ running \in BOOLEAN /\ clicks \in 0..MaxClicks /\ Len(queue) <= MaxQueue
      /\ queue \in Seq(Events)
  BY DEF PlayerInv, InteractionTypeOK, InputInv, InputTypeOK
<1>2. MaxQueue \in Nat /\ MaxClicks \in Nat
  BY PlayerFacts
<1>3. CASE PollEvent
  <2>1. queue # <<>> /\ queue' = Tail(queue) /\ UNCHANGED window /\ running' \in BOOLEAN
    BY <1>3 DEF PollEvent
  <2>2. Len(queue') <= MaxQueue
    BY <1>1, <1>2, <2>1
  <2> QED
    BY <1>1, <2>1, <2>2 DEF window
<1>4. CASE Frame
  BY <1>1, <1>4 DEF Frame, window
<1>5. CASE Player
  <2>1. ASSUME NEW e, Post(e) PROVE Len(queue') <= MaxQueue
    <3>1. Len(queue') = Len(queue) + 1 /\ Len(queue) \in Nat /\ Len(queue) < MaxQueue
      BY <1>1, <2>1 DEF Post
    <3> QED
      BY <1>2, <3>1
  <2>2. ASSUME NEW k \in Keys \cup Buttons, Press(k)
        PROVE  focused' = focused /\ clicks' \in 0..MaxClicks /\ Len(queue') <= MaxQueue
    <3>1. clicks' \in 0..MaxClicks /\ focused' = focused
      BY <1>1, <1>2, <2>2 DEF Press
    <3>2. queue' = queue \/ Post(Event("down", k, FALSE))
      BY <2>2 DEF Press
    <3> QED
      BY <1>1, <2>1, <3>1, <3>2
  <2>3. ASSUME NEW k \in Keys \cup Buttons, Repeat(k) \/ Release(k)
        PROVE  focused' = focused /\ clicks' = clicks /\ Len(queue') <= MaxQueue
    <3>1. queue' = queue \/ (\E e : Post(e))
      BY <2>3 DEF Repeat, Release
    <3> QED
      BY <1>1, <2>1, <2>3, <3>1 DEF Repeat, Release, window
  <2>4. ASSUME (\E a \in Aims : MoveMouse(a)) \/ LoseFocus \/ GainFocus \/ CloseWindow
        PROVE  focused' \in BOOLEAN /\ clicks' = clicks /\ Len(queue') <= MaxQueue
    <3>1. queue' = queue \/ (\E e : Post(e))
      BY <2>4 DEF MoveMouse, LoseFocus, GainFocus, CloseWindow
    <3> QED
      BY <1>1, <2>1, <2>4, <3>1 DEF MoveMouse, LoseFocus, GainFocus, CloseWindow, window
  <2>5. running' = running
    BY <1>5 DEF Player
  <2> QED
    BY <1>1, <1>5, <2>2, <2>3, <2>4, <2>5 DEF Player
<1> QED
  BY <1>3, <1>4, <1>5 DEF InteractionNext

\* Every step keeps it.
LEMMA PlayerStep == InputInv /\ PlayerInv /\ [InteractionNext]_interaction => PlayerInv'
<1> SUFFICES ASSUME InputInv, PlayerInv, [InteractionNext]_interaction PROVE PlayerInv'
  OBVIOUS
<1>1. CASE InteractionNext
  <2>1. InputInv'
    BY <1>1, InputNext
  <2>2. flashlight' \in BOOLEAN /\ presses' \in {0, 1} /\ held' \subseteq Keys \cup Buttons
    BY <2>1 DEF InputInv, InputTypeOK
  <2>3. down' \subseteq Keys \cup Buttons
    <3>1. PICK keys \in Beliefs', lit \in Lights' : Foretold(keys, lit)'
      BY <2>1 DEF InputInv
    <3>2. down' = keys[0] /\ Len(queue') \in Nat
      BY <2>1, <3>1 DEF Foretold, InputInv, InputTypeOK
    <3>3. 0 \in 0..Len(queue')
      BY <3>2
    <3> QED
      BY <3>1, <3>2, <3>3 DEF Beliefs
  <2>4. /\ eye' \in Stands /\ aim' \in Aims /\ loaded' \in Residencies
        /\ solid' \subseteq Cells3 /\ \A c \in solid' : ChunkOfCell(c) \in loaded'
    BY <1>1, WorldStep
  <2>5. \A c \in solid' : \A a \in Dims : Canonical(c[a])
    BY <2>4 DEF Cells3, Addresses
  <2>6. focused' \in BOOLEAN /\ running' \in BOOLEAN /\ clicks' \in 0..MaxClicks /\ Len(queue') <= MaxQueue
    BY <1>1, WindowBounds
  <2> QED
    BY <2>2, <2>3, <2>4, <2>5, <2>6 DEF PlayerInv, InteractionTypeOK
<1>2. CASE UNCHANGED interaction
  BY <1>2 DEF interaction, window, sight, world, PlayerInv, InteractionTypeOK
<1> QED
  BY <1>1, <1>2

LEMMA PlayerHolds == InteractionSpec => [](InputInv /\ PlayerInv)
  BY InputInit, InputNext, PlayerInit, PlayerStep, PTL DEF InteractionSpec

\* What is picked is the first solid block that the ray goes through, and what is
\* offered for placement is an empty cell on the ray, next to its face.
THEOREM PickHolds == InteractionSpec => []PickInv
<1>1. PlayerInv => PickInv
  <2> SUFFICES ASSUME PlayerInv PROVE PickIsFirstSeen
    BY DEF PlayerInv, PickInv
  <2>1. Standing(eye) /\ Looking(aim) /\ solid \subseteq Cells3
    BY PlayerFacts DEF PlayerInv, InteractionTypeOK
  <2>2. PICK hit, here : hit = Pick(eye, aim, solid) /\ here = Cell(eye)
    OBVIOUS
  <2>3. /\ here \in solid => hit = [block |-> here, adjacent |-> NoCell]
        /\ here \notin solid /\ hit = NoPick => \A x \in solid : ~Crosses(eye, aim, x)
        /\ here \notin solid /\ hit # NoPick =>
              /\ hit.block \in solid /\ Touches(eye, aim, hit.block)
              /\ \A x \in solid : Crosses(eye, aim, x) => Enter(eye, aim, hit.block) <= Enter(eye, aim, x)
              /\ hit.adjacent \in Cells3 \ solid /\ hit.adjacent # NoCell
              /\ Neighbours(hit.adjacent, hit.block)
              /\ hit.adjacent = here \/ Touches(eye, aim, hit.adjacent)
              /\ Enter(eye, aim, hit.adjacent) <= Enter(eye, aim, hit.block)
    BY <2>1, <2>2, PickSees
  <2> QED
    BY <2>2, <2>3 DEF PickIsFirstSeen
<1> QED
  BY <1>1, PlayerHolds, PTL

\* A click edits the block that the player aims at, and only that one; what was placed
\* is what the same ray picks next.
THEOREM ClicksHold == InteractionSpec => ClicksEditWhatIsAimedAt
<1>1. InputInv /\ PlayerInv /\ [InteractionNext]_interaction => [EditsWhatIsAimedAt]_interaction
  BY WorldStep
<1> QED
  BY <1>1, PlayerHolds, PTL DEF InteractionSpec, ClicksEditWhatIsAimedAt
=============================================================================
