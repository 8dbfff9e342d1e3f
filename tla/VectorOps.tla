------------------------------- MODULE VectorOps ------------------------------
(***************************************************************************)
(* The vector helpers of recompiled/ppc/ppc_context.h, which recompiled    *)
(* code calls for instructions that the host does not have.                *)
(*                                                                         *)
(* A vector is a function from lane numbers, 0 the lowest, to unsigned     *)
(* numbers.  The guest's byte e of a quadword is lane 15 - e, so that a    *)
(* big-endian load reverses memory.  Arithmetic is lane by lane: an        *)
(* instance gives a lane Bits bits, and a word of the float conversions    *)
(* WordBits, of which a float keeps Mantissa.                              *)
(***************************************************************************)
EXTENDS Powers, Sequences, FiniteSets

CONSTANTS Bits,          \* of a lane of the arithmetic
          WordBits,      \* of an integer that is converted
          Mantissa,      \* significant bits of a float
          Memory         \* bytes, from address 0: two quadwords and more

VARIABLES operation, operands, outcome
vectorVars == <<operation, operands, outcome>>

ASSUME VectorAssumption == /\ Bits \in Nat \ {0} /\ WordBits \in Nat
                           /\ Mantissa \in 2 .. WordBits - 2
                           /\ Memory \in [0 .. 47 -> 1 .. 254]

Empty == 255             \* 0xFF in a mask: pshufb writes 0 there

NaN == -1000000          \* stands for the floats that are not numbers

Flip(x, width) == IF x < pow2[width - 1] THEN x + pow2[width - 1] ELSE x - pow2[width - 1]
Signed(x, width) == IF x < pow2[width - 1] THEN x ELSE x - pow2[width]

-----------------------------------------------------------------------------
(* The tables: the row for an address r bytes behind a quadword.           *)
VectorMaskL(r) == [i \in 0 .. 15 |-> IF i < r THEN Empty ELSE 15 - i + r]
VectorMaskR(r) == [i \in 0 .. 15 |-> IF i < r THEN r - 1 - i ELSE Empty]
VectorShiftTableL(r) == [i \in 0 .. 15 |-> 15 - i + r]
VectorShiftTableR(r) == [i \in 0 .. 15 |-> 31 - i - r]

Shuffle(v, mask) == [i \in 0 .. 15 |-> IF mask[i] >= 128 THEN 0 ELSE v[mask[i] % 16]]

(* _mm_perm_epi8_: bit 4 of a lane of c takes b's lane, the low bits say   *)
(* which, counted from the other end.                                      *)
PermFromLowEnd(a, b, c) ==
    [i \in 0 .. 15 |-> IF (c[i] \div 16) % 2 = 1 THEN b[c[i] % 16] ELSE a[c[i] % 16]]

Perm(a, b, c) ==
    LET e == [i \in 0 .. 15 |-> 15 - (c[i] % 16)]
    IN  [i \in 0 .. 15 |-> IF (c[i] \div 16) % 2 = 1 THEN Shuffle(b, e)[i] ELSE Shuffle(a, e)[i]]

(* The loads of recompiled code: a quadword as it is in memory, reversed,  *)
(* and its part from an address on and before an address.                  *)
Quadword(address) == [i \in 0 .. 15 |-> Memory[16 * (address \div 16) + i]]
lvx(address) == [i \in 0 .. 15 |-> Quadword(address)[15 - i]]
lvlx(address) == Shuffle(Quadword(address), VectorMaskL(address % 16))
lvrx(address) == Shuffle(Quadword(address), VectorMaskR(address % 16))
Or(v, w) == [i \in 0 .. 15 |-> IF 0 \in {v[i], w[i]} THEN v[i] + w[i] ELSE Empty]

(* An unaligned load, by its two parts, and by a permutation of the        *)
(* quadwords it lies in; and an aligned one that is put r bytes later.  No *)
(* byte of an instance's memory is 0 or 255, which two bytes would give.   *)
LoadByParts(address) == Or(lvlx(address), lvrx(address + 16))
LoadByPerm(address) == Perm(lvx(address), lvx(address + 16), VectorShiftTableL(address % 16))
ShiftByPerm(address) == Perm(lvx(0), lvx(16), VectorShiftTableR(address % 16))

-----------------------------------------------------------------------------
(* A saturating add: b, or what a leaves, whichever is less.               *)
AddsUnsigned(a, b) == LET rest == pow2[Bits] - 1 - a IN (a + IF rest < b THEN rest ELSE b) % pow2[Bits]

(* The average and the comparison of lanes, with the sign flipped.         *)
AvgUnsigned(a, b) == (a + b + 1) \div 2
AvgSigned(a, b) == Flip(AvgUnsigned(Flip(a, Bits), Flip(b, Bits)), Bits)
GreaterUnsigned(a, b) == Signed(Flip(a, Bits), Bits) > Signed(Flip(b, Bits), Bits)

(* PPCCRRegister: the compares of numbers, one of which may be a NaN, and  *)
(* of the lanes of a vector: lt says all, eq says none.                    *)
CompareNumbers(left, right) ==
    LET un == NaN \in {left, right}
    IN  [lt |-> ~un /\ left < right, gt |-> ~un /\ left > right, eq |-> ~un /\ left = right, un |-> un]

setFromMask(mask) ==
    [lt |-> \A i \in DOMAIN mask : mask[i], gt |-> FALSE, eq |-> \A i \in DOMAIN mask : ~mask[i], un |-> FALSE]

(* _mm_vsr on words of Bits bits: 64-bit lanes are shifted, and the second *)
(* word is put in again with the bits that come from the third.            *)
Number(words) == words[1] + pow2[Bits] * words[2] + pow2[2 * Bits] * words[3] + pow2[3 * Bits] * words[4]
WordOf(number, i) == (number \div pow2[Bits * (i - 1)]) % pow2[Bits]
vsr(words, n) ==
    LET low == (words[1] + pow2[Bits] * words[2]) \div pow2[n]
        high == (words[3] + pow2[Bits] * words[4]) \div pow2[n]
        middle == (words[2] + pow2[Bits] * words[3]) \div pow2[n]
    IN  <<WordOf(low, 1), WordOf(middle, 1), WordOf(high, 1), WordOf(high, 2)>>

(* _mm_vctsxs: the host's conversion gives the least integer for whatever  *)
(* does not fit; that is mended where the sign is clear, and for a NaN.    *)
Least == -(pow2[WordBits - 1])
cvttps(x) == IF x = NaN THEN Least ELSE IF x < Least \/ x > -Least - 1 THEN Least ELSE x
vctsxs(x) ==
    IF x = NaN THEN 0
    ELSE IF cvttps(x) = Least /\ x >= 0 THEN -Least - 1 ELSE cvttps(x)

(* _mm_cvtepu32_ps_: what the sign bit makes negative for the host is      *)
(* rounded by hand, to even, on its bits; a carry out of the word is the   *)
(* next power of two.                                                      *)
DroppedBits == WordBits - Mantissa
RoundEven(x, drop) ==
    LET unit == pow2[drop]
        below == x \div unit
        rest == 2 * (x % unit)
    IN  unit * (below + IF rest > unit \/ (rest = unit /\ below % 2 = 1) THEN 1 ELSE 0)
cvtepi32(x) ==
    LET length == CHOOSE n \in 0 .. WordBits : x < pow2[n] /\ \A m \in 0 .. n - 1 : x >= pow2[m]
    IN  IF length > Mantissa THEN RoundEven(x, length - Mantissa) ELSE x
cvtepu32(x) ==
    LET bit == (x \div pow2[DroppedBits]) % 2
        sum == (x + pow2[DroppedBits - 1] - 1 + bit) % pow2[WordBits]
        mantissa == Signed(sum, WordBits) \div pow2[DroppedBits]
    IN  IF x < pow2[WordBits - 1] THEN cvtepi32(x) ELSE (pow2[Mantissa] + mantissa) * pow2[DroppedBits]

-----------------------------------------------------------------------------
(* One operation on any operands.  Both tables have it alone.              *)
VectorInit == operation = "none" /\ operands = <<>> /\ outcome = <<>>

Do(name, args, result) ==
    /\ operation = "none"
    /\ operation' = name
    /\ operands' = [op \in {name} |-> args]
    /\ outcome' = [op \in {name} |-> result]

Lane == 0 .. pow2[Bits] - 1
Loads == \E address \in 0 .. 31 :
    \/ Do("load", <<address>>, LoadByParts(address))
    \/ Do("load", <<address>>, LoadByPerm(address))
    \/ Do("shift", <<address>>, ShiftByPerm(address))
Arithmetic == \E a, b \in Lane :
    \/ Do("adds", <<a, b>>, AddsUnsigned(a, b))
    \/ Do("avg", <<a, b>>, AvgSigned(a, b))
    \/ Do("cmpgt", <<a, b>>, setFromMask(<<GreaterUnsigned(a, b), GreaterUnsigned(a, 1)>>))
Compares == \E a, b \in {NaN} \cup {-1, 0, 1} : Do("compare", <<a, b>>, CompareNumbers(a, b))
Shifts == \E words \in [1 .. 4 -> {0, pow2[Bits] - 1, 5 % pow2[Bits]}], n \in 0 .. Bits - 1 :
    Do("vsr", <<words, n>>, vsr(words, n))
Conversions ==
    \/ \E x \in {NaN} \cup (2 * Least .. -2 * Least) : Do("vctsxs", <<x>>, vctsxs(x))
    \/ \E x \in 0 .. pow2[WordBits] - 1 : Do("cvtepu", <<x>>, cvtepu32(x))

VectorNext == Loads \/ Arithmetic \/ Compares \/ Shifts \/ Conversions
VectorSpec == VectorInit /\ [][VectorNext]_vectorVars

-----------------------------------------------------------------------------
Smaller(a, b) == IF a < b THEN a ELSE b

(* What the guest's processor computes, of operands x and y.               *)
Computes(name, x, y, got) ==
    /\ name = "load" => got = [i \in 0 .. 15 |-> Memory[x + 15 - i]]
    /\ name = "shift" => got = [i \in 0 .. 15 |-> Memory[31 - i - (x % 16)]]
    /\ name = "adds" => got = Smaller(x + y, pow2[Bits] - 1)
    /\ name = "avg" =>
         Signed(got, Bits) = (Signed(x, Bits) + Signed(y, Bits) + 1) \div 2
    /\ name = "cmpgt" =>
         got.lt = (x > y /\ x > 1) /\ got.eq = (x <= y /\ x <= 1)
    /\ name = "compare" =>
         IF NaN \in {x, y} THEN got = [lt |-> FALSE, gt |-> FALSE, eq |-> FALSE, un |-> TRUE]
         ELSE got = [lt |-> x < y, gt |-> y < x, eq |-> x = y, un |-> FALSE]
    /\ name = "vsr" => Number(got) = Number(x) \div pow2[y]
    /\ name = "vctsxs" =>
         got = IF x = NaN THEN 0 ELSE IF x < Least THEN Least ELSE Smaller(x, -Least - 1)
    /\ name = "cvtepu" =>
         LET length == CHOOSE n \in 0 .. WordBits :
                         x < pow2[n] /\ (n > 0 => x >= pow2[n - 1])
         IN  got = IF length > Mantissa THEN RoundEven(x, length - Mantissa) ELSE x

(* What the guest's processor computes: both ways of loading from an      *)
(* address that is not aligned give the sixteen bytes from there, and      *)
(* lvsr's the bytes that many places later; adds saturate, averages round  *)
(* up, comparisons are unsigned and their summary says all, some or none;  *)
(* a NaN is unordered; a shift moves bits from word to word; a float that  *)
(* fits no integer becomes the nearest one, a NaN 0; and an unsigned word  *)
(* becomes the nearest float, to even.                                     *)
VectorsMatch ==
    Computes(operation, operands[operation][1], operands[operation][2], outcome[operation])

=============================================================================
