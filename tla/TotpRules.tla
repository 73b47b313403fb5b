------------------------------ MODULE TotpRules ------------------------------
(***************************************************************************)
(* TotpService: the window in which a code is accepted, and the base32 form *)
(* in which the secret is stored.  The code of a counter (HOTP) is the      *)
(* counter itself: two counters rarely have the same six digits.            *)
(***************************************************************************)
EXTENDS Integers, Sequences, Arrays

Period == 30      \* TotpService.PERIOD, in seconds

CodeAt(clock) == clock \div Period

VerifyCode(code, clock) == code - CodeAt(clock) \in -1 .. 1

\* The accumulator keeps 32 bits and is read below its lowest 12: at most four
\* bits are left over when a byte or a letter comes in.
Width == 4096

EncodeByte(acc, byte) ==
    LET value == (acc.value * 256 + byte) % Width
        bits  == acc.bits + 8
        digit(n) == (value \div 2 ^ (bits - n)) % 32
    IN  IF bits >= 10
        THEN [value |-> value, bits |-> bits - 10,
              out |-> acc.out \o <<digit(5), digit(10)>>]
        ELSE [value |-> value, bits |-> bits - 5, out |-> Append(acc.out, digit(5))]

Base32Encode(bytes) ==
    LET end == Reduce(EncodeByte, [value |-> 0, bits |-> 0, out |-> <<>>], bytes)
    IN  IF end.bits = 0 THEN end.out
        ELSE Append(end.out, (end.value * 2 ^ (5 - end.bits)) % 32)

DecodeLetter(acc, digit) ==
    LET value == (acc.value * 32 + digit) % Width
        bits  == acc.bits + 5
    IN  IF bits >= 8
        THEN [value |-> value, bits |-> bits - 8,
              out |-> Append(acc.out, (value \div 2 ^ (bits - 8)) % 256)]
        ELSE [value |-> value, bits |-> bits, out |-> acc.out]

Base32Decode(digits) ==
    Reduce(DecodeLetter, [value |-> 0, bits |-> 0, out |-> <<>>], digits).out
=============================================================================
