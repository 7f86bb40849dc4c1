-------------------------------- MODULE Bits --------------------------------
(***************************************************************************)
(* The bit puzzles of bits.c and the answers tests.c computes for them, on *)
(* words of W bits: 31 of the code is W - 1 here, a byte is a quarter of a *)
(* word.  A word is the set of the positions of its ones.                  *)
(***************************************************************************)
EXTENDS Integers, FiniteSets, FiniteSetsExt

CONSTANT W

BitsAssumption == W \in Nat /\ W >= 2

Bit == 0..(W - 1)
Word == SUBSET Bit
top == W - 1
byte_bits == W \div 4

\* The operators of C on such words; << and >> by a number.
x & y == x \cap y
x | y == x \cup y
x ^^ y == (x \ y) \cup (y \ x)
Neg(x) == Bit \ x                                  \* ~
Bang(x) == IF x = {} THEN {0} ELSE {}              \* !
shl(x, n) == {i + n : i \in x} \cap Bit
sar(x, n) == {i \in Bit : IF i + n < W THEN i + n \in x ELSE top \in x}

word(n) == {i \in Bit : (n \div 2^i) % 2 = 1}
int == [x \in Word |-> MapThenSumSet(LAMBDA i : IF i = top THEN -(2^i) ELSE 2^i, x)]
x ++ y == word(int[x] + int[y])                    \* +
one == {0}
ones == Bit

----------------------------------------------------------------------------
\* bits.c

absVal(x) == (sar(x, top) & one) ++ (x ^^ sar(x, top))

addOK(x, y) ==
    LET signx == sar(x, top) & one
        signy == sar(y, top) & one
        sumsign == sar(x ++ y, top) & one
    IN  Bang(sumsign ^^ signy) | Bang(sumsign ^^ signx)

allEvenBits(x) ==
    LET quarter == {i \in 0..(byte_bits - 1) : i % 2 = 0}  \* 0x55
        bitmask == shl(quarter, 3 * byte_bits) | shl(quarter, 2 * byte_bits)
                   | shl(quarter, byte_bits) | quarter
    IN  Bang((bitmask & x) ^^ bitmask)

bang(x) == (sar(x, top) | sar(Neg(x) ++ one, top)) ++ one

bitAnd(x, y) == Neg(Neg(x) | Neg(y))

bitMask_open(highbit, lowbit) == \* mutant: without the bit highbit
    LET diff == word(highbit) ++ (Neg(word(lowbit)) ++ one)
    IN  (shl(ones, lowbit) ^^ shl(ones, highbit)) & Neg(sar(diff, top))
bitMask(highbit, lowbit) ==
    LET diff == word(highbit) ++ (Neg(word(lowbit)) ++ one)
        high_equal_low == shl(ones, lowbit) ^^ shl(ones, highbit)
    IN  (high_equal_low | shl(one, highbit)) & Neg(sar(diff, top))

bitXor(x, y) == Neg(x & y) & Neg(Neg(x) & Neg(y))

byteSwap(x, n, m) ==
    LET ff == 0..(byte_bits - 1)
        nbits == n * byte_bits
        mbits == m * byte_bits
        swapped == shl(sar(x, nbits) & ff, mbits) | shl(sar(x, mbits) & ff, nbits)
        zeromask == Neg(shl(ff, nbits) | shl(ff, mbits))
    IN  (x & zeromask) | swapped

conditional(x, y, z) ==
    LET maskx == sar(shl(Bang(Bang(x)), top), top)
    IN  (maskx & (y ^^ z)) ^^ z

copyLSB(x) == sar(shl(x & one, top), top)

ezThreeFourths(x) ==
    LET add3 == x ++ x ++ x
        signadd == sar(add3, top) & one
        rem_and_pos == signadd & Bang(Bang(add3 & {0, 1}))
    IN  sar(add3, 2) ++ rem_and_pos

fitsBits(x, n) ==
    LET size_minus_n == W - n
    IN  Bang(sar(shl(x, size_minus_n), size_minus_n) ^^ x)

getByte(x, n) == sar(x, n * byte_bits) & (0..(byte_bits - 1))

isAsciiDigit(x) ==
    LET TMIN == shl(one, top)
        addlower == x ++ Neg(word(48)) ++ one
        addupper == x ++ Neg(TMIN | word(57))
    IN  Bang(sar(addlower, top) | sar(addupper, top))

isEqual(x, y) == Bang(x ^^ y)

isLess(x, y) ==
    LET signx == sar(x, top) & one
        signy == sar(y, top) & one
        signequal == Bang(signy ^^ signx)
        nonnegative == sar(x ++ Neg(y), top) & one
        xyequal == Bang(Bang(y ^^ x))
    IN  (signx & Bang(signy)) | (nonnegative & xyequal & signequal)

isNonNegative(x) == Bang(sar(x, top))

isPower2(x) ==
    LET xminus1 == x ++ ones
    IN  Bang(xminus1 & x) & Bang(sar(x, top) & one) & Bang(Bang(x))

isTmin(x) == Bang((x ^^ (Neg(x) ++ one)) ++ Bang(x))

minusOne == sar(shl(one, top), top)

\* When n is 0 the code shifts by 32, which C leaves undefined; the mask then
\* clears whatever it gave.
rotateLeft(x, n) ==
    LET zeromask == Neg(shl(ones, n))
    IN  shl(x, n) | (sar(x, W - n) & zeromask)

satMul2(x) ==
    LET TMIN == shl(one, top)
        change == sar((x ++ x) ^^ x, top)
        posor0 == Neg(sar(x, top)) ^^ TMIN
    IN  (posor0 & change) | (Neg(change) & (x ++ x))

subOK(x, y) ==
    LET signx == sar(x, top) & one
        signy == sar(y, top) & one
        signdiff == sar(x ++ (Neg(y) ++ one), top) & one
    IN  Bang(Bang(signdiff ^^ signy) & (signx ^^ signy))

----------------------------------------------------------------------------
\* tests.c, on the integers the words stand for

TMin == -(2^top)
TMax == 2^top - 1
wrap(n) == int[word(n)]
truth(P) == IF P THEN 1 ELSE 0
Ints == TMin..TMax

test_absVal(x) == IF x < 0 THEN wrap(-x) ELSE x
test_addOK(x, y) == truth(x + y \in Ints)
test_allEvenBits(x) == truth(\A i \in Bit : i % 2 = 0 => i \in word(x))
test_bang(x) == truth(x = 0)
test_bitAnd(x, y) == int[word(x) \cap word(y)]
test_bitMask(highbit, lowbit) == int[lowbit..highbit]
test_bitXor(x, y) == int[word(x) ^^ word(y)]
test_byteSwap(x, n, m) ==
    LET moved == [i \in Bit |->
            CASE i \div byte_bits = n -> m * byte_bits + (i % byte_bits)
              [] i \div byte_bits = m -> n * byte_bits + (i % byte_bits)
              [] OTHER -> i]
    IN  int[{moved[i] : i \in word(x)}]
test_conditional(x, y, z) == IF x # 0 THEN y ELSE z
test_copyLSB(x) == IF x % 2 = 1 THEN -1 ELSE 0
quotient(a, b) == IF a >= 0 THEN a \div b ELSE -((-a) \div b)  \* C's /
test_ezThreeFourths(x) == quotient(wrap(x * 3), 4)
test_fitsBits(x, n) ==
    LET TMin_n == wrap(-(2^(n - 1)))
        TMax_n == wrap(2^(n - 1) - 1)
    IN  truth(x >= TMin_n /\ x <= TMax_n)
test_getByte(x, n) == (x \div 2^(n * byte_bits)) % 2^byte_bits
test_isAsciiDigit(x) == truth(48 <= x /\ x <= 57)
test_isEqual(x, y) == truth(x = y)
test_isLess(x, y) == truth(x < y)
test_isNonNegative(x) == truth(x >= 0)
test_isPower2(x) == truth(\E i \in 0..(top - 1) : x = 2^i)
test_isTmin(x) == truth(x = TMin)
test_minusOne == -1
test_rotateLeft(x, n) ==
    LET u[i \in 0..n] ==
            IF i = 0 THEN word(x)
            ELSE shl(u[i - 1], 1) | (IF top \in u[i - 1] THEN one ELSE {})
    IN  int[u[n]]
test_satMul2(x) ==
    IF quotient(wrap(x + x), 2) # x THEN IF x < 0 THEN TMin ELSE TMax
    ELSE 2 * x
test_subOK(x, y) == truth(x - y \in Ints)
=============================================================================
