------------------------------ MODULE ByteRules -------------------------------
(* Bytes, and numbers that are written in them with the lowest byte first: *)
(* what common/src/wire.cpp and common/src/checksum.cpp have in common.    *)
EXTENDS Integers, SequencesExt

CONSTANT Radix          \* a byte is a number below Radix (256)

ASSUME RadixAssumption == Radix \in Nat /\ Radix > 1

Bytes == 0 .. Radix - 1

\* A number in so many bytes; what does not fit is lost, as in the static_cast
\* of a size to std::uint32_t.
Digits(n, width) ==
    LET rest[k \in 1 .. width] == IF k = 1 THEN n ELSE rest[k - 1] \div Radix
    IN  [k \in 1 .. width |-> rest[k] % Radix]

Number(digits) ==
    LET from[k \in 1 .. Len(digits) + 1] ==
            IF k > Len(digits) THEN 0 ELSE digits[k] + Radix * from[k + 1]
    IN  from[1]

\* Radix to the power of the width: what its bytes can count to, and one more.
Capacity(width) ==
    LET power[k \in 0 .. width] == IF k = 0 THEN 1 ELSE Radix * power[k - 1]
    IN  power[width]
=============================================================================
