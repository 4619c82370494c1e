------------------------------ MODULE Firmware ------------------------------
(***************************************************************************)
(* The self-tests of the firmware the tb/core bench runs by default, as     *)
(* functions of their inputs: sieve.c, multest.c against the multiplier of  *)
(* the core (riscv_mult.sv), and what print.c and stats.c print of them.    *)
(* Words of multest have 2 * HalfBits bits (32 in the code); the hash of    *)
(* sieve.c has its 32 bits, as two halves of 16.                            *)
(***************************************************************************)
EXTENDS Integers, Sequences, FiniteSets, SequencesExt, Bitwise

CONSTANTS
    HalfBits,      \* half the width of the multiplier's words
    MaxCount       \* bound: the counters stats.c prints

ASSUME FirmwareAssumption == HalfBits \in Nat \ {0} /\ MaxCount \in Nat \ {0}

-----------------------------------------------------------------------------
(* print.c *)

\* The decimal digits of a number, the first one first; 0 has one digit.
print_dec[val \in Nat] ==
    IF val < 10 THEN <<val>> ELSE Append(print_dec[val \div 10], val % 10)

print_hex(val, digits) == [i \in 1..digits |-> (val \div 16^(digits - i)) % 16]

Value(base, digits) == FoldLeft(LAMBDA v, d : base * v + d, 0, digits)

-----------------------------------------------------------------------------
(* stats.c: the number is filled up to a width, with zeros or with dots but *)
(* for the place next to it.                                                *)

\* Characters beside the ten digits.
Blank == 10
Dot   == 11

\* The buffer, the last digit first; 0 has no digit of its own here.
buffer(val, digits, zero_pad) ==
    LET own == IF val = 0 THEN <<>> ELSE Reverse(print_dec[val])
    IN  [i \in 1..Max({digits, Len(own)}) |->
           IF i <= Len(own) THEN own[i] ELSE IF zero_pad THEN 0 ELSE Blank]

\* It is printed from its end; a blank in the first place would be compared
\* with what lies before the buffer.
stats_print_dec(val, digits, zero_pad) ==
    LET b == buffer(val, digits, zero_pad)
    IN  Reverse([i \in DOMAIN b |-> IF b[i] = Blank /\ b[i - 1] = Blank THEN Dot ELSE b[i]])

\* Cycles per instruction, in hundredths: the unsigned product may wrap.
stats(num_cycles, num_instr, words) ==
    [cycles |-> stats_print_dec(num_cycles, 8, FALSE),
     instrs |-> stats_print_dec(num_instr, 8, FALSE),
     whole  |-> stats_print_dec(num_cycles \div num_instr, 0, FALSE),
     part   |-> stats_print_dec((((100 * num_cycles) % words) \div num_instr) % 100, 2, TRUE)]

-----------------------------------------------------------------------------
(* sieve.c *)

BITMAP_SIZE == 64

\* A word as <<upper half, lower half>>; b fits in the lower one.
mkhash(a, b) == LET low == a[2] * 33
                IN  <<(a[1] * 33 + low \div 2^16) % 2^16, (low % 2^16) ^^ b>>

Suffix(idx) == IF idx \div 10 = 1 THEN "th"
               ELSE CASE idx % 10 = 1 -> "st" [] idx % 10 = 2 -> "nd"
                      [] idx % 10 = 3 -> "rd" [] OTHER -> "th"

print_prime(s, val) ==
    LET idx == Len(s.printed) + 1
    IN  [s EXCEPT !.printed = Append(@, <<print_dec[idx], Suffix(idx), print_dec[val]>>),
                  !.hash = mkhash(mkhash(@, idx), val)]

\* faulty: the odd multiples start after the third
CrossedLate(prime) == {k \in 0..BITMAP_SIZE - 1 :
                         2 * k + 3 > 3 * prime /\ (2 * k + 3) % prime = 0}

\* The bits of the odd multiples of prime, from its double on.
Crossed(prime) == {k \in 0..BITMAP_SIZE - 1 :
                      2 * k + 3 >= 2 * prime /\ (2 * k + 3) % prime = 0}

Visit(s, i) ==
    IF i \in s.bitmap THEN s
    ELSE [print_prime(s, 3 + 2 * i) EXCEPT !.bitmap = @ \cup Crossed(3 + 2 * i)]

sieve == FoldLeft(Visit, print_prime([bitmap |-> {}, printed |-> <<>>, hash |-> <<0, 5381>>], 2),
                  [i \in 1..BITMAP_SIZE |-> i - 1])

-----------------------------------------------------------------------------
(* multest.c: the four products, as C computes them with words of twice the *)
(* width.                                                                   *)

Half  == 2^HalfBits
Words == 2^(2 * HalfBits)
Pairs == (0..Words - 1) \X (0..Words - 1)

SignedOf(x, size) == IF x >= size \div 2 THEN x - size ELSE x

\* The bits of a product of twice the width, from the upper word.
Upper(product) == ((product % (Words * Words)) \div Words) % Words

Soft(a, b) == LET as == SignedOf(a, Words)  bs == SignedOf(b, Words)
              IN  [mul |-> (a * b) % Words, mulh |-> Upper(as * bs),
                   mulhsu |-> Upper(as * b), mulhu |-> Upper(a * b)]

-----------------------------------------------------------------------------
(* riscv_mult.sv: mul takes one step, the others four, of a half times a    *)
(* half each, with operand c as their memory and a carry beside it.         *)

short_op(x, upper, signed) ==
    LET half == IF upper THEN x \div Half ELSE x % Half
    IN  IF signed THEN SignedOf(half, Half) ELSE half

short_op_c(s) == IF s.carry THEN s.c - Words ELSE s.c

\* Two bits more than a word.
short_mac(s, a, b) == (short_op_c(s) + a * b) % (4 * Words)

short_result(mac, arith, imm) ==
    ((IF arith THEN SignedOf(mac, 4 * Words) ELSE mac % Words) \div 2^imm) % Words

STEP0(s, a, b, signed) ==
    LET mac == short_mac(s, short_op(a, FALSE, FALSE), short_op(b, FALSE, FALSE))
    IN  [s EXCEPT !.c = short_result(mac, FALSE, HalfBits)]

STEP1(s, a, b, signed) ==
    LET mac == short_mac(s, short_op(a, FALSE, FALSE), short_op(b, TRUE, signed.b))
    IN  [c |-> short_result(mac, TRUE, 0), carry |-> (mac \div Words) % 2 = 1]

STEP2(s, a, b, signed) ==
    LET mac == short_mac(s, short_op(a, TRUE, signed.a), short_op(b, FALSE, FALSE))
    IN  [c |-> short_result(mac, TRUE, HalfBits), carry |-> FALSE]

FINISH(s, a, b, signed) ==
    short_result(short_mac(s, short_op(a, TRUE, signed.a), short_op(b, TRUE, signed.b)), FALSE, 0)

MUL_H(a, b, signed) ==
    LET s0 == STEP0([c |-> 0, carry |-> FALSE], a, b, signed)
        s1 == STEP1(s0, a, b, signed)
        s2 == STEP2(s1, a, b, signed)
    IN  FINISH(s2, a, b, signed)

MUL_MAC32(a, b) == (SignedOf(a, Words) * SignedOf(b, Words)) % Words

Hard(a, b) == [mul    |-> MUL_MAC32(a, b),
               mulh   |-> MUL_H(a, b, [a |-> TRUE, b |-> TRUE]),
               mulhsu |-> MUL_H(a, b, [a |-> TRUE, b |-> FALSE]),
               mulhu  |-> MUL_H(a, b, [a |-> FALSE, b |-> FALSE])]

multest == \A pair \in Pairs : Soft(pair[1], pair[2]) = Hard(pair[1], pair[2])

-----------------------------------------------------------------------------
(* What the self-tests rest on. *)

Primes == {n \in 2..2 * BITMAP_SIZE + 1 : \A d \in 2..n - 1 : n % d # 0}

\* The sieve prints all primes below its bound and nothing else, numbered, and
\* its hash is the one it is compared with.
SievePasses ==
    /\ {Value(10, line[3]) : line \in ToSet(sieve.printed)} = Primes
    /\ \A i \in DOMAIN sieve.printed :
          /\ Value(10, sieve.printed[i][1]) = i
          /\ i > 1 => Value(10, sieve.printed[i - 1][3]) < Value(10, sieve.printed[i][3])
    /\ print_hex(sieve.hash[1], 4) \o print_hex(sieve.hash[2], 4)
          = <<1, 7, 7, 2, 10, 4, 8, 15>>

NumberIn(text) == Value(10, SelectSeq(text, LAMBDA ch : ch \in 0..9))

\* What is printed of the counters can be read back, their quotient as long as
\* the product it is computed from does not wrap.
StatsAreTrue ==
    \A num_cycles \in 1..MaxCount, num_instr \in 1..MaxCount :
        LET text == stats(num_cycles, num_instr, 50 * MaxCount)
        IN  /\ num_instr <= num_cycles =>
                  /\ NumberIn(text.cycles) = num_cycles /\ NumberIn(text.instrs) = num_instr
                  /\ Len(text.cycles) = 8 /\ Len(text.instrs) = 8 /\ Len(text.part) = 2
            /\ 100 * num_cycles < 50 * MaxCount =>
                  100 * NumberIn(text.whole) + NumberIn(text.part)
                     = (100 * num_cycles) \div num_instr
=============================================================================
