------------------------------- MODULE Puzzles -------------------------------
(***************************************************************************)
(* btest.c runs the puzzles of decl.c: each solution is given arguments    *)
(* from its ranges and its answer is compared with the reference's.        *)
(***************************************************************************)
EXTENDS Bits, Sequences

CONSTANT Sampled  \* values for the last two arguments of conditional, of
                  \* which btest samples the three ranges too

VARIABLES name, given, r, rt

vars == <<name, given, r, rt>>

any == Ints
bits == 0..top
bytes == 0..3
Ranges == [
    absVal |-> <<(-TMax)..TMax>>, addOK |-> <<any, any>>, allEvenBits |-> <<any>>,
    bang |-> <<any>>, bitAnd |-> <<any, any>>, bitMask |-> <<bits, bits>>,
    bitXor |-> <<any, any>>, byteSwap |-> <<any, bytes, bytes>>,
    conditional |-> <<any, Sampled, Sampled>>, copyLSB |-> <<any>>,
    ezThreeFourths |-> <<any>>, fitsBits |-> <<any, 1..W>>,
    getByte |-> <<any, bytes>>, isAsciiDigit |-> <<any>>, isEqual |-> <<any, any>>,
    isLess |-> <<any, any>>, isNonNegative |-> <<any>>, isPower2 |-> <<any>>,
    isTmin |-> <<any>>, minusOne |-> <<>>, rotateLeft |-> <<any, bits>>,
    satMul2 |-> <<any>>, subOK |-> <<any, any>>]

PuzzlesAssumption == Sampled \subseteq Ints

Init == name = "" /\ given = <<>> /\ r = 0 /\ rt = 0

ran(f, solution, reference) ==
    name' = f /\ r' = int[solution] /\ rt' = reference
runs(f) == name = "" /\ f \in DOMAIN Ranges

test_0_arg == /\ runs("minusOne") /\ given' = <<>>
              /\ ran("minusOne", minusOne, test_minusOne)

test_1_arg ==
    \E f \in DOMAIN Ranges : /\ runs(f)
      /\ Len(Ranges[f]) = 1
      /\ \E a \in Ranges[f][1] :
           LET x == word(a) IN
           /\ given' = <<a>>
           /\ CASE f = "absVal" -> ran(f, absVal(x), test_absVal(a))
                [] f = "allEvenBits" -> ran(f, allEvenBits(x), test_allEvenBits(a))
                [] f = "bang" -> ran(f, bang(x), test_bang(a))
                [] f = "copyLSB" -> ran(f, copyLSB(x), test_copyLSB(a))
                [] f = "ezThreeFourths" -> ran(f, ezThreeFourths(x), test_ezThreeFourths(a))
                [] f = "isAsciiDigit" -> ran(f, isAsciiDigit(x), test_isAsciiDigit(a))
                [] f = "isNonNegative" -> ran(f, isNonNegative(x), test_isNonNegative(a))
                [] f = "isPower2" -> ran(f, isPower2(x), test_isPower2(a))
                [] f = "isTmin" -> ran(f, isTmin(x), test_isTmin(a))
                [] f = "satMul2" -> ran(f, satMul2(x), test_satMul2(a))

test_2_arg ==
    \E f \in DOMAIN Ranges : /\ runs(f)
      /\ Len(Ranges[f]) = 2
      /\ \E a \in Ranges[f][1], b \in Ranges[f][2] :
           LET x == word(a)
               y == word(b)
           IN
           /\ given' = <<a, b>>
           /\ CASE f = "addOK" -> ran(f, addOK(x, y), test_addOK(a, b))
                [] f = "bitAnd" -> ran(f, bitAnd(x, y), test_bitAnd(a, b))
                [] f = "bitMask" -> ran(f, bitMask(a, b), test_bitMask(a, b))
                [] f = "bitXor" -> ran(f, bitXor(x, y), test_bitXor(a, b))
                [] f = "fitsBits" -> ran(f, fitsBits(x, b), test_fitsBits(a, b))
                [] f = "getByte" -> ran(f, getByte(x, b), test_getByte(a, b))
                [] f = "isEqual" -> ran(f, isEqual(x, y), test_isEqual(a, b))
                [] f = "isLess" -> ran(f, isLess(x, y), test_isLess(a, b))
                [] f = "rotateLeft" -> ran(f, rotateLeft(x, b), test_rotateLeft(a, b))
                [] f = "subOK" -> ran(f, subOK(x, y), test_subOK(a, b))

test_3_arg ==
    \E f \in DOMAIN Ranges : /\ runs(f)
      /\ Len(Ranges[f]) = 3
      /\ \E a \in Ranges[f][1], b \in Ranges[f][2], c \in Ranges[f][3] :
           /\ given' = <<a, b, c>>
           /\ CASE f = "byteSwap" ->
                     ran(f, byteSwap(word(a), b, c), test_byteSwap(a, b, c))
                [] f = "conditional" ->
                     ran(f, conditional(word(a), word(b), word(c)),
                         test_conditional(a, b, c))

Next == test_0_arg \/ test_1_arg \/ test_2_arg \/ test_3_arg
Spec == Init /\ [][Next]_vars

\* bits.c against tests.c: with every argument of its ranges, overflow and
\* the ends of the ranges included, each solution gives the reference's answer.
\* For satMul2 both differ from the examples below.
SolutionsAgree == r = rt

\* "satMul2(0x30000000) = 0x60000000, satMul2(0x40000000) = 0x7FFFFFFF (saturate
\* to TMax), satMul2(0x60000000) = 0x80000000 (saturate to TMin)" (bits.c:421-423).
\* The last one is not so: twice a positive number saturates to TMax.
hex(digit) == digit * 2 ^ (W - 4)
SatMul2Examples == name = "satMul2" =>
    /\ given = <<hex(3)>> => r = hex(6)
    /\ given = <<hex(4)>> => r = TMax
    /\ given = <<hex(6)>> => r = TMin
=============================================================================
