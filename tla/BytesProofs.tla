----------------------------- MODULE BytesProofs ------------------------------
(* What becomes of bytes: the decoders of Wire, for all bytes, sizes and   *)
(* fields, and the hash of Checksum, for all outputs, primes and widths.   *)
(*                                                                         *)
(* Numbers and their bytes come first (DigitsOfNumber, NumberOfDigits),    *)
(* then the cursor, whatever the bytes are; then FlattenSeq puts sequences *)
(* one behind the other (FlattenPlaces), from which follow what is         *)
(* accepted and what becomes of bytes that were encoded from something.    *)
(*                                                                         *)
(* For the hash, one byte loses nothing of what was hashed before it, nor  *)
(* of itself (AppendByteFacts), so one different byte shows (OneByteShows);*)
(* the bytes of a call begin with a number that says where they end        *)
(* (SameBytes), so call by call the bytes of an output tell what it is     *)
(* (SameCalls, NoneBegins).                                                *)
EXTENDS Wire, Checksum, InductionLemmas, SequenceTheorems

LEMMA Widths ==
    /\ Radix \in Nat /\ Radix > 1
    /\ WordSize \in Nat /\ WordSize > 0
    /\ LengthSize \in Nat /\ LengthSize > 0
    /\ DoubleSize \in Nat /\ DoubleSize > 0
    /\ SequenceSize \in Nat /\ SequenceSize > 0
  BY WireAssumption, RadixAssumption

-----------------------------------------------------------------------------
(* A number and its bytes.                                                 *)

\* What is left of a number when its lowest byte is taken off.
LEMMA DivMod ==
    ASSUME NEW r \in Nat, r > 1, NEW d \in 0 .. r - 1, NEW m \in Nat
    PROVE  ((d + r * m) % r) = d /\ ((d + r * m) \div r) = m
<1>1. PICK n \in Nat : n = d + r * m
  OBVIOUS
<1>2. n = r * (n \div r) + (n % r) /\ n % r \in 0 .. r - 1 /\ n \div r \in Nat
  BY <1>1
<1>3. PICK q \in Nat, e \in 0 .. r - 1 : q = n \div r /\ e = n % r
  BY <1>2
<1>4. d + r * m = e + r * q
  BY <1>1, <1>2, <1>3
<1>5. q = m
  <2>1. r * (m - q) = e - d
    BY <1>4
  <2>2. CASE m - q >= 1
    BY <2>1, <2>2
  <2>3. CASE m - q <= -1
    BY <2>1, <2>3
  <2> QED BY <2>2, <2>3
<1> QED BY <1>1, <1>3, <1>4, <1>5

\* What the bytes of a number are worth, from the k-th on.
IsWorth(worth, digits) ==
    worth = [k \in 1 .. Len(digits) + 1 |->
               IF k > Len(digits) THEN 0 ELSE digits[k] + Radix * worth[k + 1]]

LEMMA NumberIsWorth ==
    ASSUME NEW width \in Nat, NEW digits \in [1 .. width -> Bytes]
    PROVE  \E worth : IsWorth(worth, digits) /\ Number(digits) = worth[1]
<1>1. Len(digits) = width
  BY LenProperties, SeqDef
<1> DEFINE step == [k \in 1 .. width |-> [n \in Nat |->
                      digits[width + 1 - k] + Radix * n]]
           Worth(f) == [k \in 1 .. Len(digits) + 1 |->
               IF k > Len(digits) THEN 0 ELSE digits[k] + Radix * f[k + 1]]
           chosen == CHOOSE f : f = Worth(f)
<1>2. Steps(step, width, Nat)
  BY Widths DEF Bytes, Steps
<1>3. PICK f : Iterates(f, width, Nat, 0, step)
  <2> HIDE DEF step
  <2> QED BY <1>2, Recursion
<1>4. PICK g : g = [k \in 1 .. width + 1 |-> f[width + 1 - k]]
  OBVIOUS
<1>5. g = Worth(g)
  <2>1. ASSUME NEW k \in 1 .. width
        PROVE  g[k] = digits[k] + Radix * g[k + 1]
    <3>1. PICK j \in 1 .. width : j = width + 1 - k
      OBVIOUS
    <3>2. g[k] = f[j] /\ g[k + 1] = f[j - 1] /\ width + 1 - j = k
      BY <1>4, <3>1
    <3>3. f[j] = digits[width + 1 - j] + Radix * f[j - 1]
      <4>1. f[j] = step[j][f[j - 1]] /\ f[j - 1] \in Nat
        <5> HIDE DEF step
        <5>1. j - 1 \in 0 .. width
          OBVIOUS
        <5> QED BY <1>3, <5>1 DEF Iterates
      <4> QED BY <4>1
    <3> QED BY <3>2, <3>3
  <2>2. g[width + 1] = 0
    BY <1>3, <1>4 DEF Iterates
  <2>3. ASSUME NEW k \in 1 .. width + 1
        PROVE  g[k] = IF k > width THEN 0 ELSE digits[k] + Radix * g[k + 1]
    BY <2>1, <2>2
  <2>4. g = [k \in 1 .. width + 1 |-> g[k]]
    BY <1>4
  <2> HIDE DEF step
  <2> QED BY <1>1, <2>3, <2>4
<1>6. chosen = Worth(chosen)
  <2> HIDE DEF Worth
  <2> QED BY <1>5
<1>7. Number(digits) = chosen[1]
  BY Zenon DEF Number
<1> QED BY <1>6, <1>7 DEF IsWorth

LEMMA WorthIsNatural ==
    ASSUME NEW width \in Nat, NEW digits \in [1 .. width -> Bytes],
           NEW worth, IsWorth(worth, digits)
    PROVE  /\ \A k \in 1 .. width + 1 : worth[k] \in Nat
           /\ \A k \in 1 .. width : worth[k] = digits[k] + Radix * worth[k + 1]
           /\ worth[width + 1] = 0
<1>1. Len(digits) = width
  BY LenProperties, SeqDef
<1>2. /\ \A k \in 1 .. width : worth[k] = digits[k] + Radix * worth[k + 1]
      /\ worth[width + 1] = 0
  BY <1>1 DEF IsWorth
<1> DEFINE T == {k \in 0 .. width : worth[width + 1 - k] \in Nat}
<1>3. 0 \in T
  BY <1>2
<1>4. ASSUME NEW k \in 0 .. width - 1, k \in T
      PROVE  k + 1 \in T
  <2>1. PICK j \in 1 .. width : j = width + 1 - (k + 1) /\ j + 1 = width + 1 - k
    OBVIOUS
  <2>2. worth[j + 1] \in Nat /\ digits[j] \in Nat
    BY <1>4, <2>1 DEF Bytes
  <2>3. digits[j] + Radix * worth[j + 1] \in Nat
    <3>1. \A a, b, c \in Nat : a + b * c \in Nat
      OBVIOUS
    <3> QED BY <2>2, <3>1, Widths
  <2>4. worth[j] \in Nat
    BY <1>2, <2>3
  <2> QED BY <2>1, <2>4
<1>5. \A k \in 0 .. width : k \in T
  <2> HIDE DEF T
  <2> QED BY <1>3, <1>4, UpTo
<1>6. ASSUME NEW k \in 1 .. width + 1
      PROVE  worth[k] \in Nat
  <2>1. PICK j \in 0 .. width : j = width + 1 - k /\ width + 1 - j = k
    OBVIOUS
  <2> QED BY <1>5, <2>1
<1> QED BY <1>2, <1>6

\* What is left of a number when k - 1 bytes were taken off.
IsRest(rest, n, width) ==
    rest = [k \in 1 .. width |-> IF k = 1 THEN n ELSE rest[k - 1] \div Radix]

LEMMA DigitsAreOfRests ==
    ASSUME NEW width \in Nat, NEW n \in Nat
    PROVE  \E rest : /\ IsRest(rest, n, width)
                     /\ Digits(n, width) = [k \in 1 .. width |-> rest[k] % Radix]
<1> DEFINE step == [k \in 1 .. width |-> [m \in Nat |-> m \div Radix]]
           Rest(f) == [k \in 1 .. width |-> IF k = 1 THEN n ELSE f[k - 1] \div Radix]
           chosen == CHOOSE f : f = Rest(f)
<1>1. Steps(step, width, Nat)
  BY Widths DEF Steps
<1>2. PICK f : Iterates(f, width, Nat, n, step)
  <2> HIDE DEF step
  <2> QED BY <1>1, Recursion
<1>3. PICK g : g = [k \in 1 .. width |-> f[k - 1]]
  OBVIOUS
<1>4. g = Rest(g)
  <2>1. ASSUME NEW k \in 1 .. width
        PROVE  g[k] = IF k = 1 THEN n ELSE g[k - 1] \div Radix
    <3>1. CASE k = 1
      BY <1>2, <1>3, <3>1 DEF Iterates
    <3>2. CASE k # 1
      <4>1. PICK j \in 1 .. width : j = k - 1
        BY <3>2
      <4>2. f[j] = step[j][f[j - 1]] /\ f[j - 1] \in Nat
        <5> HIDE DEF step
        <5>1. j - 1 \in 0 .. width
          OBVIOUS
        <5> QED BY <1>2, <5>1 DEF Iterates
      <4>3. f[j] = f[j - 1] \div Radix
        BY <4>2
      <4> QED BY <1>3, <3>2, <4>1, <4>3
    <3> QED BY <3>1, <3>2
  <2> HIDE DEF step
  <2>2. g = [k \in 1 .. width |-> g[k]]
    BY <1>3
  <2> QED BY <2>1, <2>2
<1>5. chosen = Rest(chosen)
  <2> HIDE DEF Rest
  <2> QED BY <1>4
<1>6. Digits(n, width) = [k \in 1 .. width |-> chosen[k] % Radix]
  BY Zenon DEF Digits
<1> QED BY <1>5, <1>6 DEF IsRest

\* The bytes of a field are those of the number read from it.
LEMMA DigitsOfNumber ==
    ASSUME NEW width \in Nat, NEW digits \in [1 .. width -> Bytes]
    PROVE  Number(digits) \in Nat /\ Digits(Number(digits), width) = digits
<1>1. PICK worth : IsWorth(worth, digits) /\ Number(digits) = worth[1]
  BY NumberIsWorth
<1>2. /\ \A k \in 1 .. width + 1 : worth[k] \in Nat
      /\ \A k \in 1 .. width : worth[k] = digits[k] + Radix * worth[k + 1]
  BY <1>1, WorthIsNatural
<1>3. Number(digits) \in Nat
  BY <1>1, <1>2
<1>4. PICK rest : /\ IsRest(rest, Number(digits), width)
                  /\ Digits(Number(digits), width)
                       = [k \in 1 .. width |-> rest[k] % Radix]
  BY <1>3, DigitsAreOfRests
<1>5. ASSUME NEW k \in 1 .. width
      PROVE  worth[k] % Radix = digits[k] /\ worth[k] \div Radix = worth[k + 1]
  <2>1. digits[k] \in 0 .. Radix - 1
    BY DEF Bytes
  <2>2. worth[k + 1] \in Nat
    BY <1>2
  <2>3. PICK d \in 0 .. Radix - 1, m \in Nat : d = digits[k] /\ m = worth[k + 1]
    BY <2>1, <2>2
  <2>4. ((d + Radix * m) % Radix) = d /\ ((d + Radix * m) \div Radix) = m
    BY DivMod, Widths
  <2>5. worth[k] = d + Radix * m
    BY <1>2, <2>3
  <2> QED BY <2>3, <2>4, <2>5
<1> DEFINE T == {k \in 0 .. width : k < width => rest[k + 1] = worth[k + 1]}
<1>6. 0 \in T
  BY <1>1, <1>4 DEF IsRest
<1>7. ASSUME NEW k \in 0 .. width - 1, k \in T
      PROVE  k + 1 \in T
  <2>1. CASE k + 1 < width
    <3>1. PICK j \in 1 .. width : j = k + 1 /\ j + 1 \in 1 .. width /\ j + 1 # 1
      BY <2>1
    <3>2. rest[j] = worth[j]
      BY <1>7, <3>1
    <3>3. rest[j + 1] = rest[j] \div Radix
      BY <1>4, <3>1 DEF IsRest
    <3> QED BY <1>5, <3>1, <3>2, <3>3
  <2>2. CASE ~ (k + 1 < width)
    BY <2>2
  <2> QED BY <2>1, <2>2
<1>8. \A k \in 0 .. width : k \in T
  <2> HIDE DEF T
  <2> QED BY <1>6, <1>7, UpTo
<1>9. ASSUME NEW k \in 1 .. width
      PROVE  rest[k] = worth[k]
  <2>1. PICK j \in 0 .. width : j + 1 = k /\ j < width
    OBVIOUS
  <2> QED BY <1>8, <2>1
<1> QED BY <1>3, <1>4, <1>5, <1>9

-----------------------------------------------------------------------------
(* The cursor.                                                             *)

CursorInv ==
    /\ job \in Jobs
    /\ offset \in 0 .. Len(job.bytes)
    /\ field \in Nat
    /\ job.kind = "record" => field <= Len(Fields)
    /\ job.kind = "record" /\ verdict = "ok" => offset = Len(job.bytes)

LEMMA JobFacts ==
    ASSUME CursorInv
    PROVE  /\ job.kind \in {"record", "frames"}
           /\ job.bytes \in Seq(Bytes)
           /\ Len(job.bytes) \in Nat /\ Len(job.bytes) < WordSize
           /\ Len(Fields) \in Nat
           /\ \A cursor \in 0 .. Len(job.bytes) :
                Remaining(cursor) = Len(job.bytes) - cursor
<1>1. /\ job.kind \in {"record", "frames"} /\ job.bytes \in Seq(Bytes)
      /\ Len(job.bytes) < WordSize /\ Fields \in Seq({"sequence", "string", "money"})
  BY WireAssumption DEF CursorInv
<1>2. Len(job.bytes) \in Nat /\ Len(Fields) \in Nat
  BY <1>1, LenProperties
<1>3. ASSUME NEW cursor \in 0 .. Len(job.bytes)
      PROVE  Remaining(cursor) = Len(job.bytes) - cursor
  <2>1. /\ Len(job.bytes) - cursor \in Nat
        /\ Len(job.bytes) - cursor < WordSize
    BY <1>1, <1>2, Widths
  <2>2. \A word, left \in Nat : left < word => left % word = left
    OBVIOUS
  <2> QED BY <2>1, <2>2, Widths DEF Remaining
<1> QED BY <1>1, <1>2, <1>3

\* What is read are bytes.
LEMMA TakenFacts ==
    ASSUME CursorInv, NEW cursor \in 0 .. Len(job.bytes), NEW width \in Nat
    PROVE  /\ Taken(cursor, width) \in [1 .. width -> Bytes]
           /\ Len(Taken(cursor, width)) = width
           /\ cursor + width <= Len(job.bytes) =>
                \A k \in 1 .. width : Taken(cursor, width)[k] = job.bytes[cursor + k]
<1>1. 0 \in Bytes /\ \A k \in DOMAIN job.bytes : job.bytes[k] \in Bytes
  BY JobFacts, Widths DEF Bytes
<1>2. Taken(cursor, width) \in [1 .. width -> Bytes]
  BY <1>1 DEF Taken
<1>3. DOMAIN job.bytes = 1 .. Len(job.bytes)
  BY JobFacts, LenProperties
<1>4. cursor + width <= Len(job.bytes) =>
         \A k \in 1 .. width : Taken(cursor, width)[k] = job.bytes[cursor + k]
  BY <1>3, JobFacts DEF Taken
<1>5. Len(Taken(cursor, width)) = width
  BY <1>2, LenProperties, SeqDef
<1> QED BY <1>2, <1>4, <1>5

\* What a step that reads a field does to the cursor.
LEMMA StringStep ==
    ASSUME CursorInv, ReadString
    PROVE  \/ /\ verdict' = "truncated" /\ offset' \in 0 .. Len(job.bytes)
              /\ UNCHANGED <<job, field, result>>
              /\ \/ Len(job.bytes) < offset + LengthSize
                 \/ Len(job.bytes)
                      < offset + LengthSize + Number(Taken(offset, LengthSize))
           \/ \E length \in Nat :
                /\ offset + LengthSize + length <= Len(job.bytes)
                /\ length = Number(Taken(offset, LengthSize))
                /\ Got(Taken(offset + LengthSize, length),
                       offset + LengthSize + length)
<1> DEFINE digits == Taken(offset, LengthSize)
<1>1. offset \in 0 .. Len(job.bytes)
  BY DEF CursorInv
<1>2. digits \in [1 .. LengthSize -> Bytes]
  BY <1>1, TakenFacts, Widths
<1>3. PICK length \in Nat : length = Number(digits)
  BY <1>2, DigitsOfNumber, Widths
<1>4. Remaining(offset) = Len(job.bytes) - offset /\ Len(job.bytes) \in Nat
  BY <1>1, JobFacts
<1>5. CASE Remaining(offset) < LengthSize
  BY <1>1, <1>4, <1>5, Widths DEF ReadString, Fail
<1>6. CASE ~ (Remaining(offset) < LengthSize)
  <2>1. offset + LengthSize \in 0 .. Len(job.bytes)
    BY <1>1, <1>4, <1>6, Widths
  <2>2. Remaining(offset + LengthSize) = Len(job.bytes) - (offset + LengthSize)
    BY <2>1, JobFacts
  <2>3. CASE TooLong(length, offset + LengthSize)
    <3>1. Len(job.bytes) < offset + LengthSize + length
      BY <1>4, <2>1, <2>2, <2>3 DEF TooLong
    <3> QED BY <1>3, <1>6, <2>1, <2>3, <3>1 DEF ReadString, Fail
  <2>4. CASE ~ TooLong(length, offset + LengthSize)
    <3>1. offset + LengthSize + length <= Len(job.bytes)
      BY <1>4, <2>1, <2>2, <2>4 DEF TooLong
    <3>2. Got(Taken(offset + LengthSize, length), offset + LengthSize + length)
      BY <1>3, <1>6, <2>4 DEF ReadString
    <3> QED BY <1>3, <3>1, <3>2
  <2> QED BY <2>3, <2>4
<1> QED BY <1>5, <1>6

LEMMA SequenceStep ==
    ASSUME CursorInv, ReadSequence
    PROVE  \/ /\ verdict' = "truncated" /\ offset' \in 0 .. Len(job.bytes)
              /\ UNCHANGED <<job, field, result>>
              /\ Len(job.bytes) < offset + SequenceSize
           \/ /\ offset + SequenceSize <= Len(job.bytes)
              /\ Got(Taken(offset, SequenceSize), offset + SequenceSize)
<1>1. offset \in 0 .. Len(job.bytes)
  BY DEF CursorInv
<1>2. Remaining(offset) = Len(job.bytes) - offset /\ Len(job.bytes) \in Nat
  BY <1>1, JobFacts
<1> QED BY <1>1, <1>2, Widths DEF ReadSequence, Fail

LEMMA MoneyStep ==
    ASSUME CursorInv, ReadMoney
    PROVE  \/ /\ \/ /\ verdict' = "truncated"
                    /\ Len(job.bytes) < offset + 1 + DoubleSize
                 \/ /\ verdict' = "invalid_number" /\ Taken(offset, 1)[1] > 1
                    /\ offset + 1 <= Len(job.bytes)
              /\ offset' \in 0 .. Len(job.bytes)
              /\ UNCHANGED <<job, field, result>>
           \/ /\ offset + 1 + DoubleSize <= Len(job.bytes)
              /\ \/ /\ Taken(offset, 1)[1] = 1
                    /\ Got(Taken(offset + 1, DoubleSize), offset + 1 + DoubleSize)
                 \/ /\ Taken(offset, 1)[1] = 0
                    /\ Got(Nullopt, offset + 1 + DoubleSize)
<1>1. offset \in 0 .. Len(job.bytes)
  BY DEF CursorInv
<1>2. Remaining(offset) = Len(job.bytes) - offset /\ Len(job.bytes) \in Nat
  BY <1>1, JobFacts
<1>3. PICK present \in Nat : present = Taken(offset, 1)[1]
  <2>1. Taken(offset, 1) \in [1 .. 1 -> Bytes]
    BY <1>1, TakenFacts
  <2> QED BY <2>1 DEF Bytes
<1>4. CASE Remaining(offset) < 1
  BY <1>1, <1>2, <1>4, Widths DEF ReadMoney, Fail
<1>5. CASE ~ (Remaining(offset) < 1)
  <2>1. offset + 1 \in 0 .. Len(job.bytes)
    BY <1>1, <1>2, <1>5
  <2>2. Remaining(offset + 1) = Len(job.bytes) - (offset + 1)
    BY <2>1, JobFacts
  <2>3. CASE Remaining(offset + 1) < DoubleSize
    BY <1>2, <1>5, <2>1, <2>2, <2>3, Widths DEF ReadMoney, Fail
  <2>4. CASE ~ (Remaining(offset + 1) < DoubleSize)
    <3>1. offset + 1 + DoubleSize \in 0 .. Len(job.bytes)
      BY <1>2, <2>1, <2>2, <2>4, Widths
    <3>2. CASE present > 1
      BY <1>3, <1>5, <2>1, <2>4, <3>1, <3>2 DEF ReadMoney, Fail
    <3>3. CASE present = 1
      BY <1>3, <1>5, <2>4, <3>1, <3>3 DEF ReadMoney
    <3>4. CASE present = 0
      BY <1>3, <1>5, <2>4, <3>1, <3>4 DEF ReadMoney
    <3> QED BY <3>2, <3>3, <3>4
  <2> QED BY <2>3, <2>4
<1> QED BY <1>4, <1>5

LEMMA FrameStep ==
    ASSUME CursorInv, ReadFrame
    PROVE  \/ /\ \/ /\ verdict' = "truncated"
                    /\ \/ Len(job.bytes) < offset + LengthSize
                       \/ Len(job.bytes) < offset + LengthSize
                                             + Number(Taken(offset, LengthSize))
                 \/ /\ verdict' = "invalid_length"
                    /\ Number(Taken(offset, LengthSize)) > MaxMessage
                    /\ offset + LengthSize <= Len(job.bytes)
              /\ offset' \in 0 .. Len(job.bytes)
              /\ UNCHANGED <<job, field, result>>
           \/ \E length \in Nat :
                /\ offset + LengthSize + length <= Len(job.bytes)
                /\ length = Number(Taken(offset, LengthSize))
                /\ length <= MaxMessage
                /\ Got(Taken(offset + LengthSize, length),
                       offset + LengthSize + length)
<1> DEFINE digits == Taken(offset, LengthSize)
<1>1. offset \in 0 .. Len(job.bytes)
  BY DEF CursorInv
<1>2. digits \in [1 .. LengthSize -> Bytes]
  BY <1>1, TakenFacts, Widths
<1>3. PICK length \in Nat : length = Number(digits)
  BY <1>2, DigitsOfNumber, Widths
<1>4. Remaining(offset) = Len(job.bytes) - offset /\ Len(job.bytes) \in Nat
  BY <1>1, JobFacts
<1>5. CASE Remaining(offset) < LengthSize
  BY <1>1, <1>4, <1>5, Widths DEF ReadFrame, Fail
<1>6. CASE ~ (Remaining(offset) < LengthSize)
  <2>1. offset + LengthSize \in 0 .. Len(job.bytes)
    BY <1>1, <1>4, <1>6, Widths
  <2>2. Remaining(offset + LengthSize) = Len(job.bytes) - (offset + LengthSize)
    BY <2>1, JobFacts
  <2>3. CASE length > MaxMessage
    BY <1>3, <1>6, <2>1, <2>3 DEF ReadFrame, Fail
  <2>4. CASE ~ (length > MaxMessage) /\ TooLong(length, offset + LengthSize)
    <3>1. Len(job.bytes) < offset + LengthSize + length
      BY <1>4, <2>1, <2>2, <2>4 DEF TooLong
    <3> QED BY <1>3, <1>6, <2>1, <2>4, <3>1 DEF ReadFrame, Fail
  <2>5. CASE ~ (length > MaxMessage) /\ ~ TooLong(length, offset + LengthSize)
    <3>1. offset + LengthSize + length <= Len(job.bytes)
      BY <1>4, <2>1, <2>2, <2>5 DEF TooLong
    <3>2. Got(Taken(offset + LengthSize, length), offset + LengthSize + length)
      BY <1>3, <1>6, <2>5 DEF ReadFrame
    <3>3. length <= MaxMessage
      BY <2>5, WireAssumption
    <3> QED BY <1>3, <3>1, <3>2, <3>3
  <2> QED BY <2>3, <2>4, <2>5
<1> QED BY <1>5, <1>6

LEMMA CursorNext ==
    ASSUME CursorInv, [Next]_vars
    PROVE  CursorInv'
<1>1. offset \in 0 .. Len(job.bytes) /\ field \in Nat /\ Len(job.bytes) \in Nat
  BY JobFacts DEF CursorInv
<1>2. ASSUME verdict' # "ok", offset' \in 0 .. Len(job.bytes),
             UNCHANGED <<job, field>>
      PROVE  CursorInv'
  BY <1>2 DEF CursorInv
<1>3. ASSUME NEW value, NEW cursor \in 0 .. Len(job.bytes), Got(value, cursor),
             verdict = "reading", job.kind = "record" => field < Len(Fields)
      PROVE  CursorInv'
  BY <1>1, <1>3, JobFacts DEF CursorInv, Got
<1>4. CASE ReadSequence
  <2>1. verdict = "reading" /\ field < Len(Fields)
    BY <1>4 DEF ReadSequence, Expects, Reading
  <2> QED BY <1>1, <1>2, <1>3, <1>4, <2>1, SequenceStep, Widths
<1>5. CASE ReadString
  <2>1. verdict = "reading" /\ field < Len(Fields)
    BY <1>5 DEF ReadString, Expects, Reading
  <2> QED BY <1>1, <1>2, <1>3, <1>5, <2>1, StringStep, Widths
<1>6. CASE ReadMoney
  <2>1. verdict = "reading" /\ field < Len(Fields)
    BY <1>6 DEF ReadMoney, Expects, Reading
  <2> QED BY <1>1, <1>2, <1>3, <1>6, <2>1, MoneyStep, Widths
<1>7. CASE ReadFrame
  <2>1. verdict = "reading" /\ job.kind # "record"
    BY <1>7 DEF ReadFrame, Reading
  <2> QED BY <1>1, <1>2, <1>3, <1>7, <2>1, FrameStep, Widths
<1>8. CASE EndOfRecord
  BY <1>8 DEF EndOfRecord, CursorInv
<1>9. CASE EndOfFrames
  BY <1>9 DEF EndOfFrames, Reading, CursorInv
<1>10. CASE UNCHANGED vars
  BY <1>10 DEF vars, CursorInv
<1> QED
  BY <1>4, <1>5, <1>6, <1>7, <1>8, <1>9, <1>10 DEF Next, Done

LEMMA CursorInit == Init => CursorInv
<1> SUFFICES ASSUME Init PROVE CursorInv
  OBVIOUS
<1>1. Len(job.bytes) \in Nat /\ Len(Fields) \in Nat
  BY WireAssumption, LenProperties DEF Init
<1> QED BY <1>1 DEF Init, CursorInv

LEMMA CursorInvariant == Spec => []CursorInv
  BY CursorInit, CursorNext, PTL DEF Spec

\* No bytes, however damaged, move the cursor of a decoder out of them; and a
\* record is accepted only when it used them all.
THEOREM CursorStaysInside == Spec => []CursorInside
<1>1. CursorInv => CursorInside
  BY DEF CursorInv, CursorInside
<1> QED BY <1>1, CursorInvariant, PTL

-----------------------------------------------------------------------------
(* What was read of a record is what its encoding says.                    *)

Values == Seq(Bytes) \cup {Nullopt}

\* Between the two places is the encoding of the value, up to the bytes of an
\* amount that is not there.
IsRead(bytes, kind, value, from, to) ==
    /\ EncodeField(kind, value) \in Seq(Bytes)
    /\ to = from + Len(EncodeField(kind, value))
    /\ \A k \in 1 .. Len(EncodeField(kind, value)) :
         \/ kind = "money" /\ value = Nullopt /\ k >= 2
         \/ EncodeField(kind, value)[k] = bytes[from + k]

AreRead(bytes, values, starts, n) ==
    /\ starts \in [1 .. n + 1 -> Nat]
    /\ starts[1] = 0
    /\ \A f \in 1 .. n :
         IsRead(bytes, Fields[f], values[f], starts[f], starts[f + 1])

LEMMA StringIsRead ==
    ASSUME CursorInv, NEW cursor \in 0 .. Len(job.bytes), NEW length \in Nat,
           length = Number(Taken(cursor, LengthSize)),
           cursor + LengthSize + length <= Len(job.bytes)
    PROVE  /\ Taken(cursor + LengthSize, length) \in Values
           /\ IsRead(job.bytes, "string", Taken(cursor + LengthSize, length),
                     cursor, cursor + LengthSize + length)
<1>1. Len(job.bytes) \in Nat /\ LengthSize \in Nat
  BY JobFacts, Widths
<1>2. PICK text \in 0 .. Len(job.bytes) : text = cursor + LengthSize
  <2>1. cursor + LengthSize \in 0 .. Len(job.bytes)
    BY <1>1
  <2> QED BY <2>1
<1>3. PICK digits, value : /\ digits = Taken(cursor, LengthSize)
                           /\ value = Taken(text, length)
  OBVIOUS
<1>4. /\ digits \in [1 .. LengthSize -> Bytes] /\ Len(digits) = LengthSize
      /\ \A k \in 1 .. LengthSize : digits[k] = job.bytes[cursor + k]
  <2>1. cursor + LengthSize <= Len(job.bytes)
    BY <1>1
  <2> QED BY <1>1, <1>3, <2>1, TakenFacts
<1>5. /\ value \in [1 .. length -> Bytes] /\ Len(value) = length
      /\ \A k \in 1 .. length : value[k] = job.bytes[text + k]
  <2>1. text + length <= Len(job.bytes)
    BY <1>1, <1>2
  <2> QED BY <1>3, <2>1, TakenFacts
<1>6. digits \in Seq(Bytes) /\ value \in Seq(Bytes)
  BY <1>1, <1>4, <1>5, SeqDef
<1>7. EncodeField("string", value) = digits \o value
  <2>1. Digits(length, LengthSize) = digits
    BY <1>1, <1>3, <1>4, DigitsOfNumber
  <2> QED BY <1>5, <2>1 DEF EncodeField, AppendString
<1>8. PICK e : e = digits \o value
  OBVIOUS
<1>9. /\ e \in Seq(Bytes) /\ Len(e) = LengthSize + length
      /\ \A k \in 1 .. LengthSize : e[k] = digits[k]
      /\ \A k \in 1 .. length : e[LengthSize + k] = value[k]
  <2>1. /\ e \in Seq(Bytes) /\ Len(e) = Len(digits) + Len(value)
        /\ \A k \in 1 .. Len(digits) : e[k] = digits[k]
        /\ \A k \in 1 .. Len(value) : e[Len(digits) + k] = value[k]
    BY <1>6, <1>8, ConcatProperties
  <2> QED BY <1>4, <1>5, <2>1
<1>10. ASSUME NEW k \in 1 .. Len(e)
       PROVE  e[k] = job.bytes[cursor + k]
  <2>1. CASE k <= LengthSize
    <3>1. k \in 1 .. LengthSize
      BY <1>1, <2>1
    <3> QED BY <1>4, <1>9, <3>1
  <2>2. CASE k > LengthSize
    <3>1. PICK i \in 1 .. length : k = LengthSize + i /\ text + i = cursor + k
      <4>1. /\ k - LengthSize \in 1 .. length
            /\ k = LengthSize + (k - LengthSize)
            /\ text + (k - LengthSize) = cursor + k
        BY <1>1, <1>2, <1>9, <2>2
      <4> QED BY <4>1
    <3> QED BY <1>5, <1>9, <3>1
  <2> QED BY <1>1, <1>9, <2>1, <2>2
<1>11. cursor + LengthSize + length = cursor + Len(e)
  BY <1>1, <1>9
<1>12. IsRead(job.bytes, "string", value, cursor, cursor + LengthSize + length)
  BY <1>7, <1>8, <1>9, <1>10, <1>11 DEF IsRead
<1> QED BY <1>2, <1>3, <1>6, <1>12 DEF Values

LEMMA SequenceIsRead ==
    ASSUME CursorInv, NEW cursor \in 0 .. Len(job.bytes),
           cursor + SequenceSize <= Len(job.bytes)
    PROVE  /\ Taken(cursor, SequenceSize) \in Values
           /\ IsRead(job.bytes, "sequence", Taken(cursor, SequenceSize),
                     cursor, cursor + SequenceSize)
<1>1. PICK value : value = Taken(cursor, SequenceSize)
  OBVIOUS
<1>2. /\ value \in [1 .. SequenceSize -> Bytes] /\ Len(value) = SequenceSize
      /\ \A k \in 1 .. SequenceSize : value[k] = job.bytes[cursor + k]
  BY <1>1, Widths, TakenFacts
<1>3. value \in Seq(Bytes)
  BY <1>2, Widths, SeqDef
<1>4. EncodeField("sequence", value) = value
  BY DEF EncodeField
<1> QED BY <1>1, <1>2, <1>3, <1>4 DEF IsRead, Values

\* A presence byte and the bytes of a double, of whatever value.
LEMMA FlaggedBytes ==
    ASSUME NEW flag \in Bytes, NEW value \in [1 .. DoubleSize -> Bytes]
    PROVE  /\ value \in Seq(Bytes) /\ <<flag>> \o value \in Seq(Bytes)
           /\ Len(<<flag>> \o value) = 1 + DoubleSize
           /\ (<<flag>> \o value)[1] = flag
           /\ \A k \in 1 .. DoubleSize : (<<flag>> \o value)[1 + k] = value[k]
<1>1. value \in Seq(Bytes) /\ Len(value) = DoubleSize
  BY Widths, SeqDef, LenProperties
<1>2. PICK head : head = <<flag>>
  OBVIOUS
<1>3. head \in Seq(Bytes) /\ Len(head) = 1 /\ head[1] = flag
  BY <1>2
<1>4. 1 \in 1 .. 1
  OBVIOUS
<1> QED BY <1>1, <1>2, <1>3, <1>4, ConcatProperties

LEMMA MoneyIsRead ==
    ASSUME CursorInv, NEW cursor \in 0 .. Len(job.bytes),
           cursor + 1 + DoubleSize <= Len(job.bytes),
           Taken(cursor, 1)[1] = 1
    PROVE  /\ Taken(cursor + 1, DoubleSize) \in Values
           /\ IsRead(job.bytes, "money", Taken(cursor + 1, DoubleSize),
                     cursor, cursor + 1 + DoubleSize)
<1>1. Len(job.bytes) \in Nat /\ DoubleSize \in Nat /\ 1 \in Bytes
  BY JobFacts, Widths DEF Bytes
<1>2. PICK text \in 0 .. Len(job.bytes) : text = cursor + 1
  <2>1. cursor + 1 \in 0 .. Len(job.bytes)
    BY <1>1
  <2> QED BY <2>1
<1>3. PICK value : value = Taken(text, DoubleSize)
  OBVIOUS
<1>4. /\ value \in [1 .. DoubleSize -> Bytes] /\ Len(value) = DoubleSize
      /\ \A k \in 1 .. DoubleSize : value[k] = job.bytes[text + k]
  <2>1. text + DoubleSize <= Len(job.bytes)
    BY <1>1, <1>2
  <2> QED BY <1>1, <1>3, <2>1, TakenFacts
<1>5. PICK e : e = <<1>> \o value
  OBVIOUS
<1>6. /\ value \in Seq(Bytes) /\ e \in Seq(Bytes) /\ Len(e) = 1 + DoubleSize
      /\ e[1] = 1
      /\ \A k \in 1 .. DoubleSize : e[1 + k] = value[k]
  BY <1>1, <1>4, <1>5, FlaggedBytes
<1>7. EncodeField("money", value) = e
  <2>1. value # Nullopt
    BY <1>6, WireAssumption
  <2> QED BY <1>5, <2>1 DEF EncodeField, AppendMoney
<1>8. job.bytes[cursor + 1] = 1
  <2>1. cursor + 1 <= Len(job.bytes)
    BY <1>1
  <2>2. PICK w \in Nat : w = 1
    OBVIOUS
  <2>3. \A k \in 1 .. w : Taken(cursor, w)[k] = job.bytes[cursor + k]
    BY <2>1, <2>2, TakenFacts
  <2> QED BY <2>2, <2>3
<1>9. ASSUME NEW k \in 1 .. Len(e)
      PROVE  e[k] = job.bytes[cursor + k]
  <2>1. CASE k = 1
    BY <1>6, <1>8, <2>1
  <2>2. CASE k > 1
    <3>1. PICK i \in 1 .. DoubleSize : k = 1 + i /\ text + i = cursor + k
      <4>1. /\ k - 1 \in 1 .. DoubleSize /\ k = 1 + (k - 1)
            /\ text + (k - 1) = cursor + k
        BY <1>1, <1>2, <1>6, <2>2
      <4> QED BY <4>1
    <3> QED BY <1>4, <1>6, <3>1
  <2> QED BY <1>1, <1>6, <2>1, <2>2
<1>10. cursor + 1 + DoubleSize = cursor + Len(e)
  BY <1>1, <1>6
<1>11. IsRead(job.bytes, "money", value, cursor, cursor + 1 + DoubleSize)
  BY <1>6, <1>7, <1>9, <1>10 DEF IsRead
<1> QED BY <1>2, <1>3, <1>6, <1>11 DEF Values

\* The encoding of an amount that is not there: all but one byte is filler.
LEMMA AbsentIsFiller ==
    /\ EncodeField("money", Nullopt) \in Seq(Bytes)
    /\ Len(EncodeField("money", Nullopt)) = 1 + DoubleSize
    /\ EncodeField("money", Nullopt)[1] = 0
<1>1. PICK value : value = [k \in 1 .. DoubleSize |-> 0]
  OBVIOUS
<1>2. 0 \in Bytes /\ value \in [1 .. DoubleSize -> Bytes]
  BY <1>1, Widths DEF Bytes
<1>3. EncodeField("money", Nullopt) = <<0>> \o value
  BY <1>1 DEF EncodeField, AppendMoney
<1> QED BY <1>2, <1>3, FlaggedBytes

LEMMA AbsentIsRead ==
    ASSUME CursorInv, NEW cursor \in 0 .. Len(job.bytes),
           cursor + 1 + DoubleSize <= Len(job.bytes),
           Taken(cursor, 1)[1] = 0
    PROVE  /\ Nullopt \in Values
           /\ IsRead(job.bytes, "money", Nullopt, cursor, cursor + 1 + DoubleSize)
<1>1. Len(job.bytes) \in Nat /\ DoubleSize \in Nat
  BY JobFacts, Widths
<1>2. PICK e : e = EncodeField("money", Nullopt)
  OBVIOUS
<1>3. e \in Seq(Bytes) /\ Len(e) = 1 + DoubleSize /\ e[1] = 0
  BY <1>2, AbsentIsFiller
<1>4. job.bytes[cursor + 1] = 0
  <2>1. cursor + 1 <= Len(job.bytes)
    BY <1>1
  <2>2. PICK w \in Nat : w = 1
    OBVIOUS
  <2>3. \A k \in 1 .. w : Taken(cursor, w)[k] = job.bytes[cursor + k]
    BY <2>1, <2>2, TakenFacts
  <2> QED BY <2>2, <2>3
<1>5. \A k \in 1 .. Len(e) : k >= 2 \/ e[k] = job.bytes[cursor + k]
  <2> SUFFICES ASSUME NEW k \in 1 .. Len(e)
               PROVE  k >= 2 \/ e[k] = job.bytes[cursor + k]
    OBVIOUS
  <2>1. k = 1 \/ k >= 2
    BY <1>1, <1>3
  <2> QED BY <1>3, <1>4, <2>1
<1>6. cursor + 1 + DoubleSize = cursor + Len(e)
  BY <1>1, <1>3
<1> QED BY <1>2, <1>3, <1>5, <1>6 DEF IsRead, Values

\* The fields read so far are one behind the other, up to the cursor.
AcceptInv ==
    /\ CursorInv
    /\ job.kind = "record" /\ verdict \in {"reading", "ok"} =>
         /\ result \in Seq(Values) /\ Len(result) = field
         /\ \E starts : /\ AreRead(job.bytes, result, starts, field)
                        /\ starts[field + 1] = offset
         /\ verdict = "ok" => field = Len(Fields)

\* One more field.
LEMMA FieldIsRead ==
    ASSUME AcceptInv, CursorInv', job.kind = "record", verdict = "reading",
           field < Len(Fields), NEW value \in Values, NEW to \in Nat,
           IsRead(job.bytes, Fields[field + 1], value, offset, to),
           Got(value, to)
    PROVE  AcceptInv'
<1>1. /\ result \in Seq(Values) /\ Len(result) = field /\ field \in Nat
      /\ offset \in Nat
  BY DEF AcceptInv, CursorInv
<1>2. PICK starts : /\ AreRead(job.bytes, result, starts, field)
                    /\ starts[field + 1] = offset
  BY DEF AcceptInv
<1>3. /\ result' = Append(result, value) /\ field' = field + 1 /\ offset' = to
      /\ job' = job /\ verdict' = "reading"
  BY DEF Got
<1>4. PICK n \in Nat : n = field + 1
  BY <1>1
<1>5. PICK longer :
         longer = [f \in 1 .. n + 1 |-> IF f = n + 1 THEN to ELSE starts[f]]
  OBVIOUS
<1>6. /\ result' \in Seq(Values) /\ Len(result') = n
      /\ \A f \in 1 .. field : result'[f] = result[f]
      /\ result'[n] = value
  BY <1>1, <1>3, <1>4, AppendProperties
<1>7. /\ longer \in [1 .. n + 1 -> Nat]
      /\ \A f \in 1 .. n : longer[f] = starts[f]
      /\ longer[n + 1] = to
  <2>1. /\ starts \in [1 .. n -> Nat]
        /\ \A f \in 1 .. n : f \in 1 .. n + 1 /\ f # n + 1
        /\ \A f \in 1 .. n + 1 : f = n + 1 \/ f \in 1 .. n
        /\ n + 1 \in 1 .. n + 1
    BY <1>2, <1>4 DEF AreRead
  <2> QED BY <1>5, <2>1
<1>8. ASSUME NEW f \in 1 .. n
      PROVE  IsRead(job.bytes, Fields[f], result'[f], longer[f], longer[f + 1])
  <2>1. CASE f = n
    <3>1. /\ result'[f] = value /\ longer[f] = offset /\ longer[f + 1] = to
          /\ Fields[f] = Fields[field + 1]
      BY <1>2, <1>4, <1>6, <1>7, <2>1
    <3> QED BY <3>1
  <2>2. CASE f # n
    <3>1. f \in 1 .. field /\ f + 1 \in 1 .. n
      BY <1>1, <1>4, <2>2
    <3>2. /\ result'[f] = result[f] /\ longer[f] = starts[f]
          /\ longer[f + 1] = starts[f + 1]
      BY <1>6, <1>7, <3>1
    <3>3. IsRead(job.bytes, Fields[f], result[f], starts[f], starts[f + 1])
      BY <1>2, <3>1 DEF AreRead
    <3> QED BY <3>2, <3>3
  <2> QED BY <2>1, <2>2
<1>9. longer[1] = 0
  <2>1. 1 \in 1 .. n /\ starts[1] = 0
    BY <1>1, <1>2, <1>4 DEF AreRead
  <2> QED BY <1>7, <2>1
<1>10. AreRead(job.bytes, result', longer, n)
  BY <1>7, <1>8, <1>9 DEF AreRead
<1>11. /\ AreRead(job'.bytes, result', longer, field')
       /\ longer[field' + 1] = offset'
  BY <1>3, <1>4, <1>7, <1>10
<1>12. \E beginnings : /\ AreRead(job'.bytes, result', beginnings, field')
                       /\ beginnings[field' + 1] = offset'
  BY <1>11
<1>13. verdict' # "ok" /\ Len(result') = field'
  BY <1>3, <1>4, <1>6
<1> QED BY <1>6, <1>12, <1>13 DEF AcceptInv

\* Nothing is read, and nothing is accepted.
LEMMA FailureAcceptsNothing ==
    ASSUME CursorInv', verdict' \notin {"reading", "ok"}
    PROVE  AcceptInv'
  BY DEF AcceptInv

LEMMA AcceptNext ==
    ASSUME AcceptInv, [Next]_vars
    PROVE  AcceptInv'
<1>1. CursorInv /\ CursorInv'
  BY CursorNext DEF AcceptInv
<1>2. /\ offset \in 0 .. Len(job.bytes) /\ offset \in Nat
      /\ field \in Nat /\ Len(job.bytes) \in Nat
  BY <1>1, JobFacts DEF CursorInv
<1>3. CASE ReadSequence
  <2>1. /\ job.kind = "record" /\ verdict = "reading" /\ field < Len(Fields)
        /\ Fields[field + 1] = "sequence"
    BY <1>3 DEF ReadSequence, Expects, Reading
  <2>2. CASE verdict' = "truncated"
    BY <1>1, <2>2, FailureAcceptsNothing
  <2>3. CASE /\ offset + SequenceSize <= Len(job.bytes)
             /\ Got(Taken(offset, SequenceSize), offset + SequenceSize)
    <3>1. /\ Taken(offset, SequenceSize) \in Values
          /\ IsRead(job.bytes, "sequence", Taken(offset, SequenceSize),
                    offset, offset + SequenceSize)
      BY <1>1, <1>2, <2>3, SequenceIsRead
    <3>2. offset + SequenceSize \in Nat
      BY <1>2, Widths
    <3> QED BY <1>1, <2>1, <2>3, <3>1, <3>2, FieldIsRead
  <2> QED BY <1>1, <1>3, <2>2, <2>3, SequenceStep
<1>4. CASE ReadString
  <2>1. /\ job.kind = "record" /\ verdict = "reading" /\ field < Len(Fields)
        /\ Fields[field + 1] = "string"
    BY <1>4 DEF ReadString, Expects, Reading
  <2>2. CASE verdict' = "truncated"
    BY <1>1, <2>2, FailureAcceptsNothing
  <2>3. ASSUME NEW length \in Nat,
               offset + LengthSize + length <= Len(job.bytes),
               length = Number(Taken(offset, LengthSize)),
               Got(Taken(offset + LengthSize, length),
                   offset + LengthSize + length)
        PROVE  AcceptInv'
    <3>1. /\ Taken(offset + LengthSize, length) \in Values
          /\ IsRead(job.bytes, "string", Taken(offset + LengthSize, length),
                    offset, offset + LengthSize + length)
      BY <1>1, <1>2, <2>3, StringIsRead
    <3>2. offset + LengthSize + length \in Nat
      BY <1>2, Widths
    <3> QED BY <1>1, <2>1, <2>3, <3>1, <3>2, FieldIsRead
  <2> QED BY <1>1, <1>4, <2>2, <2>3, StringStep
<1>5. CASE ReadMoney
  <2>1. /\ job.kind = "record" /\ verdict = "reading" /\ field < Len(Fields)
        /\ Fields[field + 1] = "money"
    BY <1>5 DEF ReadMoney, Expects, Reading
  <2>2. offset + 1 + DoubleSize \in Nat
    BY <1>2, Widths
  <2>3. CASE verdict' \in {"truncated", "invalid_number"}
    BY <1>1, <2>3, FailureAcceptsNothing
  <2>4. CASE /\ offset + 1 + DoubleSize <= Len(job.bytes)
             /\ Taken(offset, 1)[1] = 1
             /\ Got(Taken(offset + 1, DoubleSize), offset + 1 + DoubleSize)
    <3>1. /\ Taken(offset + 1, DoubleSize) \in Values
          /\ IsRead(job.bytes, "money", Taken(offset + 1, DoubleSize),
                    offset, offset + 1 + DoubleSize)
      BY <1>1, <1>2, <2>4, MoneyIsRead
    <3> QED BY <1>1, <2>1, <2>2, <2>4, <3>1, FieldIsRead
  <2>5. CASE /\ offset + 1 + DoubleSize <= Len(job.bytes)
             /\ Taken(offset, 1)[1] = 0
             /\ Got(Nullopt, offset + 1 + DoubleSize)
    <3>1. /\ Nullopt \in Values
          /\ IsRead(job.bytes, "money", Nullopt, offset, offset + 1 + DoubleSize)
      BY <1>1, <1>2, <2>5, AbsentIsRead
    <3> QED BY <1>1, <2>1, <2>2, <2>5, <3>1, FieldIsRead
  <2> QED BY <1>1, <1>5, <2>3, <2>4, <2>5, MoneyStep
<1>6. CASE ReadFrame \/ EndOfFrames
  <2>1. job' = job /\ job.kind = "frames"
    BY <1>6 DEF ReadFrame, EndOfFrames, Reading, Fail, Got
  <2> QED BY <1>1, <2>1 DEF AcceptInv
<1>7. CASE EndOfRecord
  <2>1. /\ job' = job /\ offset' = offset /\ field' = field /\ result' = result
        /\ field = Len(Fields) /\ verdict = "reading" /\ job.kind = "record"
    BY <1>7 DEF EndOfRecord, Reading
  <2> QED BY <1>1, <2>1 DEF AcceptInv
<1>8. CASE UNCHANGED vars
  BY <1>1, <1>8 DEF AcceptInv, vars
<1> QED
  BY <1>3, <1>4, <1>5, <1>6, <1>7, <1>8 DEF Next, Done

LEMMA AcceptInvariant == Spec => []AcceptInv
<1>1. Init => AcceptInv
  <2> SUFFICES ASSUME Init PROVE AcceptInv
    OBVIOUS
  <2>1. /\ field = 0 /\ offset = 0 /\ result = <<>> /\ verdict = "reading"
    BY DEF Init
  <2>2. PICK starts : starts = [f \in 1 .. 0 + 1 |-> 0]
    OBVIOUS
  <2>3. /\ starts \in [1 .. 0 + 1 -> Nat] /\ starts[1] = 0 /\ starts[0 + 1] = 0
        /\ 1 .. 0 = {}
    BY <2>2
  <2>4. AreRead(job.bytes, result, starts, 0)
    BY <2>3 DEF AreRead
  <2>5. <<>> \in Seq(Values) /\ Len(<<>>) = 0
    OBVIOUS
  <2> QED BY CursorInit, <2>1, <2>3, <2>4, <2>5 DEF AcceptInv
<1> QED BY <1>1, AcceptNext, PTL DEF Spec

\* Nothing in the bytes is skipped and nothing in the record made up: what is
\* accepted is, byte by byte, the encoding of what it is decoded to, up to the
\* filler of the amounts that are not there.
THEOREM AcceptsEncodingsOnly == Spec => []AcceptsOnlyEncodings
<1>1. AcceptInv => AcceptsOnlyEncodings
  <2> SUFFICES ASSUME AcceptInv, job.kind = "record", verdict = "ok"
               PROVE  AcceptsOnlyEncodings
    BY DEF AcceptsOnlyEncodings
  <2> DEFINE Start(f) == Len(FlattenSeq([g \in 1 .. f - 1 |->
                               EncodeField(Fields[g], result[g])]))
             absent == UNION {Start(f) + 2 .. Start(f) + 1 + DoubleSize :
                              f \in {f \in DOMAIN Fields :
                                     Fields[f] = "money" /\ result[f] = Nullopt}}
  <2>1. PICK n \in Nat : n = Len(Fields) /\ n = field
    BY JobFacts DEF AcceptInv
  <2>2. DOMAIN Fields = 1 .. n
    BY <2>1, WireAssumption, LenProperties
  <2>3. PICK starts : /\ AreRead(job.bytes, result, starts, n)
                      /\ starts[n + 1] = Len(job.bytes)
    BY <2>1 DEF AcceptInv, CursorInv
  <2>4. PICK seqs : seqs = [f \in 1 .. n |-> EncodeField(Fields[f], result[f])]
    OBVIOUS
  <2>5. /\ \A f \in 1 .. n :
             /\ seqs[f] \in Seq(Bytes)
             /\ starts[f + 1] = starts[f] + Len(seqs[f])
             /\ \A k \in 1 .. Len(seqs[f]) :
                  \/ Fields[f] = "money" /\ result[f] = Nullopt /\ k >= 2
                  \/ seqs[f][k] = job.bytes[starts[f] + k]
        /\ starts \in [1 .. n + 1 -> Nat] /\ starts[1] = 0
    BY <2>3, <2>4 DEF AreRead, IsRead
  <2>6. seqs \in [1 .. n -> Seq(Bytes)] /\ AreStarts(starts, seqs, n)
    BY <2>4, <2>5 DEF AreStarts
  <2>7. PICK whole : whole = FlattenSeq(seqs)
    OBVIOUS
  <2>8. whole \in Seq(Bytes) /\ IsPlaced(whole, seqs, starts, n)
    BY <2>6, <2>7, FlattenPlaces
  <2>9. EncodeRecord(result) = whole
    BY <2>2, <2>4, <2>7 DEF EncodeRecord
  <2>10. /\ Len(whole) = Len(job.bytes) /\ Len(job.bytes) \in Nat
         /\ DOMAIN whole = 1 .. Len(job.bytes)
    BY <2>3, <2>8, LenProperties, JobFacts DEF IsPlaced, AcceptInv
  <2>11. ASSUME NEW f \in 1 .. n
         PROVE  Start(f) = starts[f]
    <3>1. PICK m \in Nat : m = f - 1 /\ m + 1 = f
      <4>1. f - 1 \in Nat /\ (f - 1) + 1 = f
        OBVIOUS
      <4> QED BY <4>1
    <3>2. PICK firsts, begun :
             /\ firsts = [g \in 1 .. m |-> EncodeField(Fields[g], result[g])]
             /\ begun = [g \in 1 .. m + 1 |-> starts[g]]
      OBVIOUS
    <3>3. \A g \in 1 .. m : /\ g \in 1 .. n /\ g \in 1 .. m + 1
                            /\ g + 1 \in 1 .. m + 1
      BY <3>1
    <3>4. /\ \A g \in 1 .. m : firsts[g] = seqs[g]
          /\ \A g \in 1 .. m + 1 : begun[g] = starts[g] /\ g \in 1 .. n + 1
          /\ 1 \in 1 .. m + 1 /\ m + 1 \in 1 .. m + 1
      BY <2>4, <3>1, <3>2, <3>3
    <3>5. firsts \in [1 .. m -> Seq(Bytes)]
      BY <2>5, <3>2, <3>3, <3>4
    <3>6. begun \in [1 .. m + 1 -> Nat] /\ begun[1] = 0
      BY <2>5, <3>2, <3>4
    <3>7. \A g \in 1 .. m : begun[g + 1] = begun[g] + Len(firsts[g])
      BY <2>5, <3>3, <3>4
    <3>8. AreStarts(begun, firsts, m)
      BY <3>6, <3>7 DEF AreStarts
    <3>9. IsPlaced(FlattenSeq(firsts), firsts, begun, m)
      BY <3>5, <3>8, FlattenPlaces
    <3>10. Len(FlattenSeq(firsts)) = starts[f]
      BY <3>1, <3>4, <3>9 DEF IsPlaced
    <3> QED BY <3>1, <3>2, <3>10
  <2>12. ASSUME NEW k \in 1 .. Len(job.bytes), k \notin absent
         PROVE  whole[k] = job.bytes[k]
    <3>1. k \in 1 .. starts[n + 1]
      BY <2>3
    <3>2. PICK f \in 1 .. n : \E i \in 1 .. Len(seqs[f]) : k = starts[f] + i
      BY <2>8, <3>1 DEF IsPlaced
    <3>3. PICK i \in 1 .. Len(seqs[f]) : k = starts[f] + i
      BY <3>2
    <3>4. whole[k] = seqs[f][i]
      BY <2>8, <3>3 DEF IsPlaced
    <3>5. ~ (Fields[f] = "money" /\ result[f] = Nullopt /\ i >= 2)
      <4> SUFFICES ASSUME Fields[f] = "money", result[f] = Nullopt, i >= 2
                   PROVE  FALSE
        OBVIOUS
      <4>1. Len(seqs[f]) = 1 + DoubleSize
        BY <2>4, AbsentIsFiller
      <4>2. k \in starts[f] + 2 .. starts[f] + 1 + DoubleSize
        <5>1. PICK s \in Nat : s = starts[f]
          BY <2>5
        <5> QED BY <3>3, <4>1, <5>1, Widths
      <4>3. k \in Start(f) + 2 .. Start(f) + 1 + DoubleSize
        BY <2>11, <4>2
      <4> HIDE DEF Start
      <4> QED BY <2>2, <2>12, <4>3
    <3> QED BY <2>5, <3>3, <3>4, <3>5
  <2> HIDE DEF Start, absent
  <2>13. /\ Len(whole) = Len(job.bytes)
         /\ \A k \in DOMAIN whole \ absent : whole[k] = job.bytes[k]
    BY <2>10, <2>12
  <2> USE DEF Start, absent
  <2> QED BY <2>9, <2>13, Zenon DEF AcceptsOnlyEncodings
<1> QED BY <1>1, AcceptInvariant, PTL

-----------------------------------------------------------------------------
(* What fits its field is read as it was written.                          *)

IsPower(power, width) ==
    power = [k \in 0 .. width |-> IF k = 0 THEN 1 ELSE Radix * power[k - 1]]

LEMMA CapacityIsPower ==
    ASSUME NEW width \in Nat
    PROVE  \E power : IsPower(power, width) /\ Capacity(width) = power[width]
<1> DEFINE step == [k \in 1 .. width |-> [m \in Nat |-> Radix * m]]
           Power(f) == [k \in 0 .. width |-> IF k = 0 THEN 1 ELSE Radix * f[k - 1]]
           chosen == CHOOSE f : f = Power(f)
<1>1. Steps(step, width, Nat)
  BY Widths DEF Steps
<1>2. PICK f : Iterates(f, width, Nat, 1, step)
  <2> HIDE DEF step
  <2> QED BY <1>1, Recursion
<1>3. f = Power(f)
  <2>1. ASSUME NEW k \in 0 .. width
        PROVE  f[k] = IF k = 0 THEN 1 ELSE Radix * f[k - 1]
    <3>1. CASE k = 0
      BY <1>2, <3>1 DEF Iterates
    <3>2. CASE k # 0
      <4>1. k \in 1 .. width /\ k - 1 \in 0 .. width
        BY <3>2
      <4>2. f[k] = step[k][f[k - 1]] /\ f[k - 1] \in Nat
        <5> HIDE DEF step
        <5> QED BY <1>2, <4>1 DEF Iterates
      <4> QED BY <3>2, <4>1, <4>2
    <3> QED BY <3>1, <3>2
  <2>2. f = [k \in 0 .. width |-> f[k]]
    BY <1>2 DEF Iterates
  <2> HIDE DEF step
  <2> QED BY <2>1, <2>2
<1>4. chosen = Power(chosen)
  <2> HIDE DEF Power
  <2> QED BY <1>3
<1>5. Capacity(width) = chosen[width]
  BY Zenon DEF Capacity
<1> QED BY <1>4, <1>5 DEF IsPower

\* A number below a product, divided by one factor, is below the other.
LEMMA DivBelow ==
    ASSUME NEW r \in Nat, r > 0, NEW p \in Nat, NEW n \in Nat, n < r * p
    PROVE  n \div r \in Nat /\ n \div r < p
<1>1. PICK q \in Nat, e \in 0 .. r - 1 : q = n \div r /\ n = r * q + e
  <2>1. n = r * (n \div r) + (n % r) /\ n % r \in 0 .. r - 1 /\ n \div r \in Nat
    OBVIOUS
  <2> QED BY <2>1
<1>2. r * q < r * p
  BY <1>1
<1>3. q < p
  <2> SUFFICES ASSUME q >= p PROVE FALSE
    BY <1>1
  <2>1. PICK d \in Nat : q = p + d
    <3>1. q - p \in Nat /\ q = p + (q - p)
      OBVIOUS
    <3> QED BY <3>1
  <2>2. r * q = r * p + r * d /\ r * d \in Nat
    BY <2>1
  <2> QED BY <1>2, <2>2
<1> QED BY <1>1, <1>3

\* A number that its field can count to is read from its bytes.
LEMMA NumberOfDigits ==
    ASSUME NEW width \in Nat, width > 0, NEW n \in Nat, n < Capacity(width)
    PROVE  /\ Digits(n, width) \in [1 .. width -> Bytes]
           /\ Number(Digits(n, width)) = n
<1>1. PICK rest : /\ IsRest(rest, n, width)
                  /\ Digits(n, width) = [k \in 1 .. width |-> rest[k] % Radix]
  BY DigitsAreOfRests
<1>2. PICK power : IsPower(power, width) /\ Capacity(width) = power[width]
  BY CapacityIsPower
<1>3. /\ power[0] = 1
      /\ \A k \in 0 .. width - 1 : power[k + 1] = Radix * power[k]
  <2>1. power[0] = 1
    BY <1>2 DEF IsPower
  <2>2. ASSUME NEW k \in 0 .. width - 1
        PROVE  power[k + 1] = Radix * power[k]
    <3>1. PICK j \in 0 .. width : j = k + 1 /\ j # 0 /\ j - 1 = k
      OBVIOUS
    <3> QED BY <1>2, <3>1 DEF IsPower
  <2> QED BY <2>1, <2>2
<1>4. \A k \in 0 .. width : power[k] \in Nat
  <2> DEFINE T == {k \in 0 .. width : power[k] \in Nat}
  <2>1. 0 \in T
    BY <1>3
  <2>2. ASSUME NEW k \in 0 .. width - 1, k \in T
        PROVE  k + 1 \in T
    <3>1. power[k + 1] = Radix * power[k] /\ power[k] \in Nat
      BY <1>3, <2>2
    <3>2. Radix * power[k] \in Nat
      BY <3>1, Widths
    <3> QED BY <3>1, <3>2
  <2>3. \A k \in 0 .. width : k \in T
    <3> HIDE DEF T
    <3> QED BY <2>1, <2>2, UpTo
  <2> QED BY <2>3
<1>5. \A k \in 1 .. width : rest[k] = IF k = 1 THEN n ELSE rest[k - 1] \div Radix
  BY <1>1 DEF IsRest
<1>6. ASSUME NEW k \in 1 .. width
      PROVE  rest[k] \in Nat /\ rest[k] < power[width + 1 - k]
  <2> DEFINE T == {j \in 0 .. width - 1 : /\ rest[j + 1] \in Nat
                                          /\ rest[j + 1] < power[width - j]}
  <2>1. 0 \in T
    <3>1. 1 \in 1 .. width /\ 0 \in 0 .. width - 1 /\ 0 + 1 = 1 /\ width - 0 = width
      OBVIOUS
    <3>2. rest[1] = n
      BY <1>5, <3>1
    <3> QED BY <1>2, <3>1, <3>2
  <2>2. ASSUME NEW j \in 0 .. (width - 1) - 1, j \in T
        PROVE  j + 1 \in T
    <3>1. PICK i \in 1 .. width - 1 : i = j + 1
      <4>1. j + 1 \in 1 .. width - 1
        OBVIOUS
      <4> QED BY <4>1
    <3>2. PICK m \in 0 .. width - 1 : m = width - i /\ m + 1 = width - j
      <4>1. width - i \in 0 .. width - 1 /\ (width - i) + 1 = width - j
        BY <3>1
      <4> QED BY <4>1
    <3>3. rest[i] \in Nat /\ rest[i] < Radix * power[m]
      <4>1. rest[j + 1] \in Nat /\ rest[j + 1] < power[width - j]
        BY <2>2
      <4> QED BY <1>3, <3>1, <3>2, <4>1
    <3>4. rest[i + 1] = rest[i] \div Radix
      <4>1. PICK h \in 1 .. width : h = i + 1 /\ h # 1 /\ h - 1 = i
        <5>1. i + 1 \in 1 .. width /\ i + 1 # 1 /\ (i + 1) - 1 = i
          OBVIOUS
        <5> QED BY <5>1
      <4> QED BY <1>5, <4>1
    <3>5. PICK a \in Nat, b \in Nat : a = rest[i] /\ b = power[m] /\ a < Radix * b
      BY <1>4, <3>2, <3>3
    <3>6. a \div Radix \in Nat /\ a \div Radix < b
      BY <3>5, DivBelow, Widths
    <3>7. /\ rest[i + 1] \in Nat /\ rest[i + 1] < power[width - i]
          /\ i \in 0 .. width - 1
      BY <3>2, <3>4, <3>5, <3>6
    <3> QED BY <3>1, <3>7
  <2>3. \A j \in 0 .. width - 1 : j \in T
    <3>1. width - 1 \in Nat
      OBVIOUS
    <3> HIDE DEF T
    <3> QED BY <2>1, <2>2, <3>1, UpTo
  <2>4. PICK j \in 0 .. width - 1 : k = j + 1 /\ width - j = width + 1 - k
    <3>1. /\ k - 1 \in 0 .. width - 1 /\ k = (k - 1) + 1
          /\ width - (k - 1) = width + 1 - k
      OBVIOUS
    <3> QED BY <3>1
  <2> QED BY <2>3, <2>4
<1>7. PICK digits : digits = Digits(n, width)
  OBVIOUS
<1>8. \A a \in Nat : /\ a % Radix \in 0 .. Radix - 1 /\ a \div Radix \in Nat
                     /\ a = (a % Radix) + Radix * (a \div Radix)
                     /\ a < Radix => a % Radix = a
  BY Widths
<1>9. /\ digits \in [1 .. width -> Bytes]
      /\ \A k \in 1 .. width : digits[k] = rest[k] % Radix
  BY <1>1, <1>6, <1>7, <1>8 DEF Bytes
<1>10. PICK worth : IsWorth(worth, digits) /\ Number(digits) = worth[1]
  BY <1>9, NumberIsWorth
<1>11. /\ \A k \in 1 .. width : worth[k] = digits[k] + Radix * worth[k + 1]
       /\ worth[width + 1] = 0
  BY <1>9, <1>10, WorthIsNatural
<1> DEFINE T == {j \in 0 .. width - 1 : worth[width - j] = rest[width - j]}
<1>12. 0 \in T
  <2>1. width - 0 = width /\ width \in 1 .. width /\ 0 \in 0 .. width - 1
        /\ width + 1 - width = 1
    OBVIOUS
  <2>2. rest[width] \in Nat /\ rest[width] < power[1]
    BY <1>6, <2>1
  <2>3. power[1] = Radix
    <3>1. 0 \in 0 .. width - 1 /\ 0 + 1 = 1
      OBVIOUS
    <3>2. power[1] = Radix * 1
      BY <1>3, <3>1
    <3> QED BY <3>2, Widths
  <2>4. digits[width] = rest[width]
    <3>1. PICK a \in Nat : a = rest[width] /\ a < Radix
      BY <2>2, <2>3
    <3>2. a % Radix = a
      BY <1>8, <3>1
    <3>3. digits[width] = rest[width] % Radix
      BY <1>9, <2>1
    <3> QED BY <3>1, <3>2, <3>3
  <2>5. worth[width] = digits[width] + Radix * 0
    BY <1>11, <2>1
  <2> QED BY <2>1, <2>2, <2>4, <2>5, Widths
<1>13. ASSUME NEW j \in 0 .. (width - 1) - 1, j \in T
       PROVE  j + 1 \in T
  <2>1. PICK k \in 1 .. width - 1 : k = width - (j + 1) /\ k + 1 = width - j
    <3>1. /\ width - (j + 1) \in 1 .. width - 1
          /\ (width - (j + 1)) + 1 = width - j
      OBVIOUS
    <3> QED BY <3>1
  <2>2. worth[k + 1] = rest[k + 1]
    BY <1>13, <2>1
  <2>3. rest[k + 1] = rest[k] \div Radix
    <3>1. PICK h \in 1 .. width : h = k + 1 /\ h # 1 /\ h - 1 = k
      <4>1. k + 1 \in 1 .. width /\ k + 1 # 1 /\ (k + 1) - 1 = k
        OBVIOUS
      <4> QED BY <4>1
    <3> QED BY <1>5, <3>1
  <2>4. k \in 1 .. width
    OBVIOUS
  <2>5. worth[k] = (rest[k] % Radix) + Radix * (rest[k] \div Radix)
    BY <1>9, <1>11, <2>2, <2>3, <2>4
  <2>6. worth[k] = rest[k]
    BY <1>6, <1>8, <2>4, <2>5
  <2>7. j + 1 \in 0 .. width - 1
    OBVIOUS
  <2> QED BY <2>1, <2>6, <2>7
<1>14. width - 1 \in T
  <2>1. width - 1 \in Nat /\ width - 1 \in 0 .. width - 1
    OBVIOUS
  <2> HIDE DEF T
  <2> QED BY <1>12, <1>13, <2>1, UpTo
<1>15. worth[1] = rest[1] /\ rest[1] = n
  <2>1. width - (width - 1) = 1 /\ 1 \in 1 .. width
    OBVIOUS
  <2> QED BY <1>5, <1>14, <2>1
<1> QED BY <1>7, <1>9, <1>10, <1>15

\* A text behind its length, wherever it is: the bytes that are there say what
\* it is.
LEMMA TextIsRead ==
    ASSUME CursorInv, NEW from \in 0 .. Len(job.bytes), NEW text \in Seq(Bytes),
           Fits(text), NEW piece,
           piece = Digits(Len(text), LengthSize) \o text,
           \A k \in 1 .. Len(piece) :
              from + k <= Len(job.bytes) => job.bytes[from + k] = piece[k]
    PROVE  /\ piece \in Seq(Bytes) /\ Len(piece) = LengthSize + Len(text)
           /\ from + LengthSize <= Len(job.bytes) =>
                Number(Taken(from, LengthSize)) = Len(text)
           /\ from + LengthSize + Len(text) <= Len(job.bytes) =>
                Taken(from + LengthSize, Len(text)) = text
<1>1. Len(text) \in Nat /\ Len(job.bytes) \in Nat /\ LengthSize \in Nat
  BY JobFacts, Widths, LenProperties
<1>2. PICK digits : digits = Digits(Len(text), LengthSize)
  OBVIOUS
<1>3. digits \in [1 .. LengthSize -> Bytes] /\ Number(digits) = Len(text)
  BY <1>1, <1>2, Widths, NumberOfDigits DEF Fits
<1>4. digits \in Seq(Bytes) /\ Len(digits) = LengthSize
  <2>1. digits \in [1 .. LengthSize -> Bytes]
    BY <1>3
  <2>2. digits \in Seq(Bytes)
    BY <1>1, <2>1, SeqDef
  <2> QED BY <1>1, <2>1, <2>2, LenProperties
<1>5. /\ piece \in Seq(Bytes) /\ Len(piece) = Len(digits) + Len(text)
      /\ \A k \in 1 .. Len(digits) : piece[k] = digits[k]
      /\ \A k \in 1 .. Len(text) : piece[Len(digits) + k] = text[k]
  BY <1>2, <1>4, ConcatProperties
<1>6. ASSUME from + LengthSize <= Len(job.bytes)
      PROVE  Number(Taken(from, LengthSize)) = Len(text)
  <2>1. PICK taken : taken = Taken(from, LengthSize)
    OBVIOUS
  <2>2. /\ taken \in [1 .. LengthSize -> Bytes]
        /\ \A k \in 1 .. LengthSize : taken[k] = job.bytes[from + k]
    BY <1>1, <1>6, <2>1, TakenFacts
  <2>3. ASSUME NEW k \in 1 .. LengthSize
        PROVE  taken[k] = digits[k]
    <3>1. k \in 1 .. Len(piece) /\ from + k <= Len(job.bytes)
      BY <1>1, <1>4, <1>5, <1>6
    <3> QED BY <1>4, <1>5, <2>2, <3>1
  <2>4. taken = digits
    <3>1. /\ taken = [k \in 1 .. LengthSize |-> taken[k]]
          /\ digits = [k \in 1 .. LengthSize |-> digits[k]]
      BY <1>3, <2>2
    <3>2. [k \in 1 .. LengthSize |-> taken[k]]
            = [k \in 1 .. LengthSize |-> digits[k]]
      BY <2>3
    <3> QED BY <3>1, <3>2
  <2> QED BY <1>3, <2>1, <2>4
<1>7. ASSUME from + LengthSize + Len(text) <= Len(job.bytes)
      PROVE  Taken(from + LengthSize, Len(text)) = text
  <2>1. PICK start \in 0 .. Len(job.bytes) : start = from + LengthSize
    <3>1. from + LengthSize \in 0 .. Len(job.bytes)
      BY <1>1, <1>7
    <3> QED BY <3>1
  <2>2. PICK taken : taken = Taken(start, Len(text))
    OBVIOUS
  <2>3. /\ taken \in [1 .. Len(text) -> Bytes]
        /\ \A k \in 1 .. Len(text) : taken[k] = job.bytes[start + k]
    <3>1. start + Len(text) <= Len(job.bytes)
      BY <1>7, <2>1
    <3> QED BY <1>1, <2>2, <3>1, TakenFacts
  <2>4. ASSUME NEW k \in 1 .. Len(text)
        PROVE  taken[k] = text[k]
    <3>1. PICK i \in 1 .. Len(piece) : i = LengthSize + k /\ from + i = start + k
      <4>1. /\ LengthSize + k \in 1 .. Len(piece)
            /\ from + (LengthSize + k) = start + k
        BY <1>1, <1>4, <1>5, <2>1
      <4> QED BY <4>1
    <3>2. from + i <= Len(job.bytes)
      BY <1>1, <1>7, <2>1, <3>1
    <3>3. piece[i] = text[k]
      BY <1>4, <1>5, <3>1
    <3> QED BY <2>3, <3>1, <3>2, <3>3
  <2>5. text = [k \in 1 .. Len(text) |-> text[k]]
    BY <1>1
  <2>6. taken = text
    BY <2>3, <2>4, <2>5
  <2> QED BY <2>1, <2>2, <2>6
<1>8. Len(piece) = LengthSize + Len(text)
  BY <1>4, <1>5
<1> QED BY <1>5, <1>6, <1>7, <1>8

-----------------------------------------------------------------------------
(* The bytes of a job that were encoded from something.                    *)

Piece(kind, meant, f) ==
    IF kind = "record" THEN EncodeField(Fields[f], meant[f])
                       ELSE FramePayload(meant[f])

Count(kind, meant) == IF kind = "record" THEN Len(Fields) ELSE Len(meant)

\* Where each piece is, and what of it the job has.
IsLaidOut(j, meant, starts, n) ==
    /\ n \in Nat /\ n = Count(j.kind, meant)
    /\ starts \in [1 .. n + 1 -> Nat] /\ starts[1] = 0
    /\ \A f \in 1 .. n :
         /\ starts[f + 1] = starts[f] + Len(Piece(j.kind, meant, f))
         /\ starts[f] < starts[f + 1] /\ starts[f + 1] <= starts[n + 1]
         /\ \A k \in 1 .. Len(Piece(j.kind, meant, f)) :
              starts[f] + k <= Len(j.bytes) =>
                j.bytes[starts[f] + k] = Piece(j.kind, meant, f)[k]
    /\ Len(j.bytes) = starts[n + 1] + j.damage

LEMMA StartsExist ==
    ASSUME NEW n \in Nat, NEW S, NEW seqs \in [1 .. n -> Seq(S)]
    PROVE  \E starts : AreStarts(starts, seqs, n)
<1> DEFINE step == [k \in 1 .. n |-> [d \in Nat |-> d + Len(seqs[k])]]
<1>1. \A k \in 1 .. n : Len(seqs[k]) \in Nat
  BY LenProperties
<1>2. Steps(step, n, Nat)
  BY <1>1 DEF Steps
<1>3. PICK f : Iterates(f, n, Nat, 0, step)
  <2> HIDE DEF step
  <2> QED BY <1>2, Recursion
<1>4. PICK starts : starts = [k \in 1 .. n + 1 |-> f[k - 1]]
  OBVIOUS
<1>5. ASSUME NEW k \in 1 .. n
      PROVE  starts[k + 1] = starts[k] + Len(seqs[k])
  <2>1. f[k] = step[k][f[k - 1]] /\ f[k - 1] \in Nat
    <3> HIDE DEF step
    <3>1. k - 1 \in 0 .. n
      OBVIOUS
    <3> QED BY <1>3, <3>1 DEF Iterates
  <2>2. f[k] = f[k - 1] + Len(seqs[k])
    BY <2>1
  <2>3. starts[k + 1] = f[k] /\ starts[k] = f[k - 1]
    <3>1. k + 1 \in 1 .. n + 1 /\ (k + 1) - 1 = k /\ k \in 1 .. n + 1
      OBVIOUS
    <3> QED BY <1>4, <3>1
  <2> QED BY <2>2, <2>3
<1>6. starts \in [1 .. n + 1 -> Nat] /\ starts[1] = 0
  <2> HIDE DEF step
  <2>1. \A k \in 1 .. n + 1 : k - 1 \in 0 .. n
    OBVIOUS
  <2>2. 1 \in 1 .. n + 1 /\ 1 - 1 = 0
    OBVIOUS
  <2> QED BY <1>3, <1>4, <2>1, <2>2 DEF Iterates
<1> QED BY <1>5, <1>6 DEF AreStarts

LEMMA TextPiece ==
    ASSUME NEW text \in Seq(Bytes), Fits(text)
    PROVE  /\ Digits(Len(text), LengthSize) \o text \in Seq(Bytes)
           /\ Len(Digits(Len(text), LengthSize) \o text) = LengthSize + Len(text)
<1>1. Len(text) \in Nat /\ LengthSize \in Nat
  BY Widths, LenProperties
<1>2. PICK digits : digits = Digits(Len(text), LengthSize)
  OBVIOUS
<1>3. digits \in [1 .. LengthSize -> Bytes]
  BY <1>1, <1>2, Widths, NumberOfDigits DEF Fits
<1>4. digits \in Seq(Bytes)
  BY <1>1, <1>3, SeqDef
<1>5. Len(digits) = LengthSize
  BY <1>1, <1>3, <1>4, LenProperties
<1> QED BY <1>2, <1>4, <1>5, ConcatProperties

LEMMA FieldPiece ==
    ASSUME NEW kind \in {"sequence", "string", "money"},
           NEW value \in Encodable(kind), kind = "string" => Fits(value)
    PROVE  /\ value \in Values
           /\ EncodeField(kind, value) \in Seq(Bytes)
           /\ Len(EncodeField(kind, value)) \in Nat
           /\ Len(EncodeField(kind, value)) > 0
<1>1. CASE kind = "sequence"
  <2>1. value \in [1 .. SequenceSize -> Bytes]
    BY <1>1 DEF Encodable
  <2>2. value \in Seq(Bytes)
    BY <2>1, Widths, SeqDef
  <2>3. Len(value) = SequenceSize
    BY <2>1, <2>2, Widths, LenProperties
  <2>4. EncodeField(kind, value) = value
    BY <1>1 DEF EncodeField
  <2> QED BY <2>2, <2>3, <2>4, Widths DEF Values
<1>2. CASE kind = "string"
  <2>1. value \in Seq(Bytes)
    BY <1>2 DEF Encodable
  <2>2. /\ Digits(Len(value), LengthSize) \o value \in Seq(Bytes)
        /\ Len(Digits(Len(value), LengthSize) \o value) = LengthSize + Len(value)
    BY <1>2, <2>1, TextPiece
  <2>3. Len(value) \in Nat
    BY <2>1, LenProperties
  <2>4. EncodeField(kind, value) = Digits(Len(value), LengthSize) \o value
    BY <1>2 DEF EncodeField, AppendString
  <2> QED BY <2>1, <2>2, <2>3, <2>4, Widths DEF Values
<1>3. CASE kind = "money" /\ value = Nullopt
  BY <1>3, AbsentIsFiller, Widths DEF Values
<1>4. CASE kind = "money" /\ value # Nullopt
  <2>1. value \in [1 .. DoubleSize -> Bytes] /\ 1 \in Bytes
    BY <1>4, Widths DEF Encodable, Bytes
  <2>2. EncodeField(kind, value) = <<1>> \o value
    BY <1>4 DEF EncodeField, AppendMoney
  <2>3. /\ value \in Seq(Bytes) /\ <<1>> \o value \in Seq(Bytes)
        /\ Len(<<1>> \o value) = 1 + DoubleSize
    BY <2>1, FlaggedBytes
  <2> QED BY <2>2, <2>3, Widths DEF Values
<1> QED BY <1>1, <1>2, <1>3, <1>4

\* What a job was encoded from.
LEMMA MeantFacts ==
    ASSUME job \in Jobs, NEW meant \in job.meant
    PROVE  /\ job.damage \in Int
           /\ job.kind \in {"record", "frames"}
           /\ job.bytes \in Seq(Bytes) /\ Len(job.bytes) \in Nat
           /\ Count(job.kind, meant) \in Nat
           /\ job.kind = "record" =>
                /\ DOMAIN Fields = 1 .. Len(Fields)
                /\ meant = [f \in 1 .. Len(Fields) |-> meant[f]]
                /\ \A f \in 1 .. Len(Fields) :
                     /\ Fields[f] \in {"sequence", "string", "money"}
                     /\ meant[f] \in Encodable(Fields[f])
           /\ job.kind = "frames" => meant \in Seq(Seq(Bytes))
           /\ IsDamaged(job.bytes, Encoded(job.kind, meant), job.damage)
<1>1. /\ IF job.kind = "record"
           THEN /\ meant = [f \in DOMAIN Fields |-> meant[f]]
                /\ \A f \in DOMAIN Fields : meant[f] \in Encodable(Fields[f])
           ELSE meant \in Seq(Seq(Bytes))
      /\ job.damage \in Int
      /\ IsDamaged(job.bytes, Encoded(job.kind, meant), job.damage)
  BY EncodedAssumption
<1>2. job.kind \in {"record", "frames"} /\ job.bytes \in Seq(Bytes)
  BY WireAssumption
<1>3. Fields \in Seq({"sequence", "string", "money"})
  BY WireAssumption
<1>4. /\ DOMAIN Fields = 1 .. Len(Fields) /\ Len(Fields) \in Nat
      /\ \A f \in 1 .. Len(Fields) : Fields[f] \in {"sequence", "string", "money"}
  BY <1>3, LenProperties, ElementOfSeq
<1>5. Len(job.bytes) \in Nat
  BY <1>2, LenProperties
<1>6. job.kind = "frames" => Len(meant) \in Nat
  BY <1>1, LenProperties
<1> QED BY <1>1, <1>2, <1>4, <1>5, <1>6 DEF Count

LEMMA LaidOut ==
    ASSUME job \in Jobs, NEW meant \in job.meant, AllFit(meant)
    PROVE  \E starts, n : IsLaidOut(job, meant, starts, n)
<1>1. PICK n \in Nat : n = Count(job.kind, meant)
  BY MeantFacts
<1>2. ASSUME NEW f \in 1 .. n
      PROVE  /\ Piece(job.kind, meant, f) \in Seq(Bytes)
             /\ Len(Piece(job.kind, meant, f)) \in Nat
             /\ Len(Piece(job.kind, meant, f)) > 0
  <2>1. CASE job.kind = "record"
    <3>1. /\ Fields[f] \in {"sequence", "string", "money"}
          /\ meant[f] \in Encodable(Fields[f]) /\ f \in DOMAIN Fields
      BY <1>1, <2>1, MeantFacts DEF Count
    <3>2. Fields[f] = "string" => Fits(meant[f])
      BY <2>1, <3>1 DEF AllFit
    <3>3. Piece(job.kind, meant, f) = EncodeField(Fields[f], meant[f])
      BY <2>1 DEF Piece
    <3> QED BY <3>1, <3>2, <3>3, FieldPiece
  <2>2. CASE job.kind = "frames"
    <3>1. meant \in Seq(Seq(Bytes)) /\ f \in 1 .. Len(meant)
      BY <1>1, <2>2, MeantFacts DEF Count
    <3>2. meant[f] \in Seq(Bytes) /\ f \in DOMAIN meant
      BY <3>1, ElementOfSeq, LenProperties
    <3>3. Fits(meant[f])
      BY <2>2, <3>2 DEF AllFit
    <3>4. Piece(job.kind, meant, f)
            = Digits(Len(meant[f]), LengthSize) \o meant[f]
      BY <2>2 DEF Piece, FramePayload
    <3>5. Len(meant[f]) \in Nat
      BY <3>2, LenProperties
    <3> QED BY <3>2, <3>3, <3>4, <3>5, TextPiece, Widths
  <2> QED BY <2>1, <2>2, MeantFacts
<1>3. PICK seqs : seqs = [f \in 1 .. n |-> Piece(job.kind, meant, f)]
  OBVIOUS
<1>4. seqs \in [1 .. n -> Seq(Bytes)]
  BY <1>2, <1>3
<1>5. PICK starts : AreStarts(starts, seqs, n)
  BY <1>4, StartsExist
<1>6. PICK whole : whole = FlattenSeq(seqs)
  OBVIOUS
<1>7. whole \in Seq(Bytes) /\ IsPlaced(whole, seqs, starts, n)
  BY <1>4, <1>5, <1>6, FlattenPlaces
<1>8. Encoded(job.kind, meant) = whole
  <2>1. CASE job.kind = "record"
    <3>1. seqs = [f \in DOMAIN Fields |-> EncodeField(Fields[f], meant[f])]
      BY <1>1, <1>3, <2>1, MeantFacts DEF Count, Piece
    <3> QED BY <1>6, <2>1, <3>1 DEF Encoded, EncodeRecord
  <2>2. CASE job.kind = "frames"
    <3>1. meant \in Seq(Seq(Bytes))
      BY <2>2, MeantFacts
    <3>2. DOMAIN meant = 1 .. n
      BY <1>1, <2>2, <3>1, LenProperties DEF Count
    <3>3. seqs = [f \in DOMAIN meant |-> FramePayload(meant[f])]
      BY <1>3, <2>2, <3>2 DEF Piece
    <3> QED BY <1>6, <2>2, <3>3 DEF Encoded
  <2> QED BY <2>1, <2>2, MeantFacts
<1>9. /\ Len(job.bytes) = Len(whole) + job.damage
      /\ \A k \in DOMAIN job.bytes \cap DOMAIN whole : job.bytes[k] = whole[k]
      /\ Len(whole) = starts[n + 1]
      /\ DOMAIN whole = 1 .. Len(whole)
      /\ DOMAIN job.bytes = 1 .. Len(job.bytes)
      /\ Len(job.bytes) \in Nat
  BY <1>7, <1>8, MeantFacts, LenProperties DEF IsDamaged, IsPlaced
<1>10. /\ starts \in [1 .. n + 1 -> Nat] /\ starts[1] = 0
       /\ \A f \in 1 .. n : starts[f + 1] = starts[f] + Len(seqs[f])
       /\ \A f \in 1 .. n : starts[f] \in Nat /\ starts[f + 1] \in Nat
       /\ starts[n + 1] \in Nat
  <2>1. starts \in [1 .. n + 1 -> Nat]
    BY <1>5 DEF AreStarts
  <2>2. /\ n + 1 \in 1 .. n + 1
        /\ \A f \in 1 .. n : f \in 1 .. n + 1 /\ f + 1 \in 1 .. n + 1
    OBVIOUS
  <2> QED BY <1>5, <2>1, <2>2 DEF AreStarts
<1>11. ASSUME NEW f \in 1 .. n
       PROVE  /\ starts[f + 1] = starts[f] + Len(seqs[f])
              /\ starts[f] < starts[f + 1] /\ starts[f + 1] <= starts[n + 1]
              /\ \A k \in 1 .. Len(seqs[f]) :
                   starts[f] + k <= Len(job.bytes) =>
                     job.bytes[starts[f] + k] = seqs[f][k]
  <2>1. PICK a \in Nat, b \in Nat, c \in Nat, d \in Nat :
           /\ a = starts[f] /\ b = starts[f + 1] /\ c = starts[n + 1]
           /\ d = Len(seqs[f]) /\ b = a + d /\ d > 0
    BY <1>2, <1>3, <1>10
  <2>2. \A k \in 1 .. d : a + k \in 1 .. c /\ whole[a + k] = seqs[f][k]
    BY <1>7, <2>1 DEF IsPlaced
  <2>3. b <= c
    <3>1. d \in 1 .. d
      BY <2>1
    <3>2. a + d \in 1 .. c
      BY <2>2, <3>1
    <3> QED BY <2>1, <3>2
  <2>4. ASSUME NEW k \in 1 .. d, a + k <= Len(job.bytes)
        PROVE  job.bytes[a + k] = seqs[f][k]
    <3>1. PICK p \in 1 .. c : p = a + k /\ whole[p] = seqs[f][k]
      BY <2>2
    <3>2. p \in DOMAIN job.bytes \cap DOMAIN whole
      BY <1>9, <2>1, <2>4, <3>1
    <3> QED BY <1>9, <3>1, <3>2
  <2> QED BY <2>1, <2>3, <2>4
<1>12. \A f \in 1 .. n : seqs[f] = Piece(job.kind, meant, f)
  BY <1>3
<1>13. Len(job.bytes) = starts[n + 1] + job.damage
  BY <1>9
<1>14. IsLaidOut(job, meant, starts, n)
  <2>1. ASSUME NEW f \in 1 .. n
        PROVE  /\ starts[f + 1] = starts[f] + Len(Piece(job.kind, meant, f))
               /\ starts[f] < starts[f + 1] /\ starts[f + 1] <= starts[n + 1]
               /\ \A k \in 1 .. Len(Piece(job.kind, meant, f)) :
                    starts[f] + k <= Len(job.bytes) =>
                      job.bytes[starts[f] + k] = Piece(job.kind, meant, f)[k]
    <3>1. PICK piece : piece = seqs[f] /\ piece = Piece(job.kind, meant, f)
      BY <1>12
    <3> QED BY <1>11, <3>1
  <2>2. starts \in [1 .. n + 1 -> Nat] /\ starts[1] = 0
    BY <1>10
  <2> QED BY <1>1, <1>13, <2>1, <2>2 DEF IsLaidOut
<1> QED BY <1>14

\* What was read is the beginning of what was meant, and the reading stopped
\* only for a reason.
Sofar(meant, starts, n) ==
    /\ field <= n /\ result \in Seq(Values) /\ Len(result) = field
    /\ \A f \in 1 .. field : result[f] = meant[f]
    /\ verdict \in {"reading", "ok", "truncated", "trailing_bytes"}
    /\ verdict \in {"reading", "ok"} => offset = starts[field + 1]
    /\ verdict = "ok" => offset = Len(job.bytes)
    /\ verdict = "ok" /\ job.kind = "record" => field = n
    /\ verdict = "truncated" => field < n /\ job.damage < 0
    /\ verdict = "trailing_bytes" => job.kind = "record" /\ job.damage > 0

\* The place of the next piece, in numbers.
LEMMA NextPiece ==
    ASSUME CursorInv, NEW meant \in job.meant, NEW starts, NEW n,
           IsLaidOut(job, meant, starts, n), Sofar(meant, starts, n),
           verdict = "reading", field < n
    PROVE  /\ n \in Nat /\ field \in Nat /\ field + 1 \in 1 .. n
           /\ offset \in 0 .. Len(job.bytes) /\ Len(job.bytes) \in Nat
           /\ job.damage \in Int
           /\ offset = starts[field + 1]
           /\ starts[field + 2] \in Nat /\ starts[n + 1] \in Nat
           /\ starts[field + 2]
                = offset + Len(Piece(job.kind, meant, field + 1))
           /\ starts[field + 2] <= starts[n + 1]
           /\ Len(job.bytes) = starts[n + 1] + job.damage
           /\ \A k \in 1 .. Len(Piece(job.kind, meant, field + 1)) :
                offset + k <= Len(job.bytes) =>
                  job.bytes[offset + k] = Piece(job.kind, meant, field + 1)[k]
<1>1. n \in Nat /\ field \in Nat /\ offset \in 0 .. Len(job.bytes) /\ job \in Jobs
  BY DEF IsLaidOut, CursorInv
<1>2. PICK f \in 1 .. n : f = field + 1 /\ f + 1 = field + 2
  <2>1. field + 1 \in 1 .. n /\ (field + 1) + 1 = field + 2
    BY <1>1
  <2> QED BY <2>1
<1>3. Len(job.bytes) \in Nat /\ job.damage \in Int
  BY <1>1, MeantFacts
<1>4. offset = starts[f]
  BY <1>2 DEF Sofar
<1>5. starts[f + 1] \in Nat /\ starts[n + 1] \in Nat
  <2>1. f + 1 \in 1 .. n + 1 /\ n + 1 \in 1 .. n + 1
    BY <1>1
  <2> QED BY <2>1 DEF IsLaidOut
<1>6. /\ starts[f + 1] = offset + Len(Piece(job.kind, meant, f))
      /\ starts[f + 1] <= starts[n + 1]
      /\ \A k \in 1 .. Len(Piece(job.kind, meant, f)) :
           offset + k <= Len(job.bytes) =>
             job.bytes[offset + k] = Piece(job.kind, meant, f)[k]
  BY <1>4 DEF IsLaidOut
<1>7. Len(job.bytes) = starts[n + 1] + job.damage
  BY DEF IsLaidOut
<1> QED BY <1>1, <1>2, <1>3, <1>4, <1>5, <1>6, <1>7

\* The next piece is read as it was meant, ...
LEMMA PieceIsGot ==
    ASSUME CursorInv, NEW meant \in job.meant, NEW starts, NEW n,
           IsLaidOut(job, meant, starts, n), Sofar(meant, starts, n),
           verdict = "reading", field < n, meant[field + 1] \in Values,
           NEW to, to = starts[field + 2], Got(meant[field + 1], to)
    PROVE  Sofar(meant, starts, n)'
<1>1. PICK value \in Values : value = meant[field + 1]
  OBVIOUS
<1>2. /\ result' = Append(result, value) /\ field' = field + 1
      /\ offset' = starts[field + 2] /\ job' = job /\ verdict' = "reading"
  BY <1>1 DEF Got
<1>3. n \in Nat /\ field \in Nat
  BY NextPiece
<1>4. /\ result \in Seq(Values) /\ Len(result) = field
      /\ \A f \in 1 .. field : result[f] = meant[f]
  BY DEF Sofar
<1>5. /\ result' \in Seq(Values) /\ Len(result') = field + 1
      /\ \A f \in 1 .. field : result'[f] = result[f]
      /\ result'[field + 1] = value
  BY <1>2, <1>4, AppendProperties
<1>6. \A f \in 1 .. field + 1 : result'[f] = meant[f]
  <2>1. \A f \in 1 .. field + 1 : f \in 1 .. field \/ f = field + 1
    BY <1>3
  <2> QED BY <1>1, <1>4, <1>5, <2>1
<1>7. (field + 1) + 1 = field + 2 /\ field + 1 <= n
  BY <1>3
<1> QED BY <1>2, <1>5, <1>6, <1>7 DEF Sofar

\* ... or bytes of it are missing.
LEMMA PieceIsCut ==
    ASSUME CursorInv, NEW meant \in job.meant, NEW starts, NEW n,
           IsLaidOut(job, meant, starts, n), Sofar(meant, starts, n),
           verdict = "reading", field < n,
           Len(job.bytes) < starts[field + 2],
           verdict' = "truncated", UNCHANGED <<job, field, result>>
    PROVE  Sofar(meant, starts, n)'
<1>1. job.damage < 0
  BY NextPiece
<1> QED BY <1>1 DEF Sofar

\* The text of a string or of a frame.
LEMMA TextMatches ==
    ASSUME CursorInv, NEW meant \in job.meant, NEW starts, NEW n,
           IsLaidOut(job, meant, starts, n), Sofar(meant, starts, n),
           verdict = "reading", field < n,
           meant[field + 1] \in Seq(Bytes), Fits(meant[field + 1]),
           Piece(job.kind, meant, field + 1)
             = Digits(Len(meant[field + 1]), LengthSize) \o meant[field + 1]
    PROVE  /\ Len(meant[field + 1]) \in Nat
           /\ starts[field + 2] = offset + LengthSize + Len(meant[field + 1])
           /\ offset + LengthSize <= Len(job.bytes) =>
                Number(Taken(offset, LengthSize)) = Len(meant[field + 1])
           /\ offset + LengthSize + Len(meant[field + 1]) <= Len(job.bytes) =>
                Taken(offset + LengthSize, Len(meant[field + 1]))
                  = meant[field + 1]
<1>1. PICK text \in Seq(Bytes) : text = meant[field + 1]
  OBVIOUS
<1>2. PICK piece : piece = Piece(job.kind, meant, field + 1)
  OBVIOUS
<1>3. /\ offset \in 0 .. Len(job.bytes)
      /\ starts[field + 2] = offset + Len(piece)
      /\ \A k \in 1 .. Len(piece) :
           offset + k <= Len(job.bytes) => job.bytes[offset + k] = piece[k]
  BY <1>2, NextPiece
<1>4. piece = Digits(Len(text), LengthSize) \o text /\ Fits(text)
  BY <1>1, <1>2
<1>5. /\ Len(piece) = LengthSize + Len(text)
      /\ offset + LengthSize <= Len(job.bytes) =>
           Number(Taken(offset, LengthSize)) = Len(text)
      /\ offset + LengthSize + Len(text) <= Len(job.bytes) =>
           Taken(offset + LengthSize, Len(text)) = text
  BY <1>3, <1>4, TextIsRead
<1>6. Len(text) \in Nat
  BY LenProperties
<1>7. starts[field + 2] = offset + LengthSize + Len(text)
  BY <1>3, <1>5, <1>6, Widths
<1> QED BY <1>1, <1>5, <1>6, <1>7

LEMMA StringMatches ==
    ASSUME CursorInv, NEW meant \in job.meant, NEW starts, NEW n,
           IsLaidOut(job, meant, starts, n), Sofar(meant, starts, n),
           AllFit(meant), ReadString
    PROVE  Sofar(meant, starts, n)'
<1>1. /\ job.kind = "record" /\ verdict = "reading" /\ field < Len(Fields)
      /\ Fields[field + 1] = "string"
  BY DEF ReadString, Expects, Reading
<1>2. n = Len(Fields) /\ job \in Jobs
  BY <1>1 DEF IsLaidOut, Count, CursorInv
<1>3. field + 1 \in 1 .. Len(Fields) /\ offset \in Nat /\ Len(job.bytes) \in Nat
  BY <1>1, <1>2, NextPiece
<1>4. meant[field + 1] \in Encodable("string") /\ field + 1 \in DOMAIN Fields
  BY <1>1, <1>2, <1>3, MeantFacts
<1>5. PICK text \in Seq(Bytes) : text = meant[field + 1] /\ Fits(text)
  BY <1>1, <1>4 DEF Encodable, AllFit
<1>6. Piece(job.kind, meant, field + 1) = Digits(Len(text), LengthSize) \o text
  BY <1>1, <1>5 DEF Piece, EncodeField, AppendString
<1>7. /\ Len(text) \in Nat
      /\ starts[field + 2] = offset + LengthSize + Len(text)
      /\ offset + LengthSize <= Len(job.bytes) =>
           Number(Taken(offset, LengthSize)) = Len(text)
      /\ offset + LengthSize + Len(text) <= Len(job.bytes) =>
           Taken(offset + LengthSize, Len(text)) = text
  BY <1>1, <1>2, <1>5, <1>6, TextMatches
<1>8. CASE /\ verdict' = "truncated" /\ UNCHANGED <<job, field, result>>
           /\ \/ Len(job.bytes) < offset + LengthSize
              \/ Len(job.bytes)
                   < offset + LengthSize + Number(Taken(offset, LengthSize))
  <2>1. Len(job.bytes) < starts[field + 2]
    <3>1. CASE Len(job.bytes) < offset + LengthSize
      BY <1>3, <1>7, <3>1, Widths
    <3>2. CASE offset + LengthSize <= Len(job.bytes)
      BY <1>3, <1>7, <1>8, <3>2, Widths
    <3> QED BY <1>3, <3>1, <3>2, Widths
  <2> QED BY <1>1, <1>2, <1>8, <2>1, PieceIsCut
<1>9. ASSUME NEW length \in Nat,
             offset + LengthSize + length <= Len(job.bytes),
             length = Number(Taken(offset, LengthSize)),
             Got(Taken(offset + LengthSize, length),
                 offset + LengthSize + length)
      PROVE  Sofar(meant, starts, n)'
  <2>1. length = Len(text)
    <3>1. offset + LengthSize <= Len(job.bytes)
      BY <1>3, <1>9, Widths
    <3> QED BY <1>7, <1>9, <3>1
  <2>2. Got(text, starts[field + 2])
    BY <1>7, <1>9, <2>1
  <2> QED BY <1>1, <1>2, <1>5, <2>2, PieceIsGot DEF Values
<1> QED BY <1>8, <1>9, StringStep

LEMMA FrameMatches ==
    ASSUME CursorInv, NEW meant \in job.meant, NEW starts, NEW n,
           IsLaidOut(job, meant, starts, n), Sofar(meant, starts, n),
           AllFit(meant), job.damage <= 0, ReadFrame
    PROVE  Sofar(meant, starts, n)'
<1>1. job.kind = "frames" /\ verdict = "reading" /\ offset < Len(job.bytes)
  BY DEF ReadFrame, Reading
<1>2. n \in Nat /\ n = Len(meant) /\ job \in Jobs /\ field \in Nat
  BY <1>1 DEF IsLaidOut, Count, CursorInv
<1>3. field < n
  <2> SUFFICES ASSUME field = n PROVE FALSE
    BY <1>2 DEF Sofar
  <2>1. offset = starts[n + 1] /\ Len(job.bytes) = starts[n + 1] + job.damage
    BY <1>1 DEF Sofar, IsLaidOut
  <2>2. starts[n + 1] \in Nat /\ job.damage \in Int
    <3>1. n + 1 \in 1 .. n + 1
      BY <1>2
    <3> QED BY <1>2, <3>1, MeantFacts DEF IsLaidOut
  <2> QED BY <1>1, <2>1, <2>2
<1>4. field + 1 \in 1 .. n /\ offset \in Nat /\ Len(job.bytes) \in Nat
  BY <1>1, <1>3, NextPiece
<1>5. PICK text \in Seq(Bytes) :
         text = meant[field + 1] /\ Fits(text) /\ Len(text) <= MaxMessage
  <2>1. meant \in Seq(Seq(Bytes))
    BY <1>1, <1>2, MeantFacts
  <2>2. meant[field + 1] \in Seq(Bytes) /\ field + 1 \in DOMAIN meant
    BY <1>2, <1>4, <2>1, ElementOfSeq, LenProperties
  <2> QED BY <1>1, <2>2 DEF AllFit
<1>6. Piece(job.kind, meant, field + 1) = Digits(Len(text), LengthSize) \o text
  BY <1>1, <1>5 DEF Piece, FramePayload
<1>7. /\ Len(text) \in Nat
      /\ starts[field + 2] = offset + LengthSize + Len(text)
      /\ offset + LengthSize <= Len(job.bytes) =>
           Number(Taken(offset, LengthSize)) = Len(text)
      /\ offset + LengthSize + Len(text) <= Len(job.bytes) =>
           Taken(offset + LengthSize, Len(text)) = text
  BY <1>1, <1>3, <1>5, <1>6, TextMatches
<1>8. CASE /\ verdict' = "truncated" /\ UNCHANGED <<job, field, result>>
           /\ \/ Len(job.bytes) < offset + LengthSize
              \/ Len(job.bytes)
                   < offset + LengthSize + Number(Taken(offset, LengthSize))
  <2>1. Len(job.bytes) < starts[field + 2]
    <3>1. CASE Len(job.bytes) < offset + LengthSize
      BY <1>4, <1>7, <3>1, Widths
    <3>2. CASE offset + LengthSize <= Len(job.bytes)
      BY <1>4, <1>7, <1>8, <3>2, Widths
    <3> QED BY <1>4, <3>1, <3>2, Widths
  <2> QED BY <1>1, <1>3, <1>8, <2>1, PieceIsCut
<1>9. ~ (/\ Number(Taken(offset, LengthSize)) > MaxMessage
         /\ offset + LengthSize <= Len(job.bytes))
  BY <1>5, <1>7, WireAssumption
<1>10. ASSUME NEW length \in Nat,
              offset + LengthSize + length <= Len(job.bytes),
              length = Number(Taken(offset, LengthSize)),
              Got(Taken(offset + LengthSize, length),
                  offset + LengthSize + length)
       PROVE  Sofar(meant, starts, n)'
  <2>1. length = Len(text)
    <3>1. offset + LengthSize <= Len(job.bytes)
      BY <1>4, <1>10, Widths
    <3> QED BY <1>7, <1>10, <3>1
  <2>2. Got(text, starts[field + 2])
    BY <1>7, <1>10, <2>1
  <2> QED BY <1>1, <1>3, <1>5, <2>2, PieceIsGot DEF Values
<1> QED BY <1>8, <1>9, <1>10, FrameStep

LEMMA SequenceMatches ==
    ASSUME CursorInv, NEW meant \in job.meant, NEW starts, NEW n,
           IsLaidOut(job, meant, starts, n), Sofar(meant, starts, n),
           ReadSequence
    PROVE  Sofar(meant, starts, n)'
<1>1. /\ job.kind = "record" /\ verdict = "reading" /\ field < Len(Fields)
      /\ Fields[field + 1] = "sequence"
  BY DEF ReadSequence, Expects, Reading
<1>2. n = Len(Fields) /\ job \in Jobs
  BY <1>1 DEF IsLaidOut, Count, CursorInv
<1>3. field + 1 \in 1 .. Len(Fields) /\ offset \in 0 .. Len(job.bytes)
      /\ Len(job.bytes) \in Nat /\ SequenceSize \in Nat
  BY <1>1, <1>2, NextPiece, Widths
<1>4. PICK value \in [1 .. SequenceSize -> Bytes] : value = meant[field + 1]
  BY <1>1, <1>2, <1>3, MeantFacts DEF Encodable
<1>5. value \in Seq(Bytes)
  BY <1>3, <1>4, SeqDef
<1>6. Len(value) = SequenceSize
  BY <1>3, <1>4, <1>5, LenProperties
<1>7. Piece(job.kind, meant, field + 1) = value
  BY <1>1, <1>4 DEF Piece, EncodeField
<1>8. /\ starts[field + 2] = offset + SequenceSize
      /\ \A k \in 1 .. SequenceSize :
           offset + k <= Len(job.bytes) => job.bytes[offset + k] = value[k]
  BY <1>1, <1>2, <1>6, <1>7, NextPiece
<1>9. CASE /\ verdict' = "truncated" /\ UNCHANGED <<job, field, result>>
           /\ Len(job.bytes) < offset + SequenceSize
  BY <1>1, <1>2, <1>8, <1>9, PieceIsCut
<1>10. CASE /\ offset + SequenceSize <= Len(job.bytes)
            /\ Got(Taken(offset, SequenceSize), offset + SequenceSize)
  <2>1. PICK taken : taken = Taken(offset, SequenceSize)
    OBVIOUS
  <2>2. /\ taken \in [1 .. SequenceSize -> Bytes]
        /\ \A k \in 1 .. SequenceSize : taken[k] = job.bytes[offset + k]
    BY <1>3, <1>10, <2>1, TakenFacts
  <2>3. ASSUME NEW k \in 1 .. SequenceSize
        PROVE  taken[k] = value[k]
    <3>1. offset + k <= Len(job.bytes)
      BY <1>3, <1>10
    <3> QED BY <1>8, <2>2, <3>1
  <2>4. taken = value
    <3>1. /\ taken = [k \in 1 .. SequenceSize |-> taken[k]]
          /\ value = [k \in 1 .. SequenceSize |-> value[k]]
      BY <1>4, <2>2
    <3>2. [k \in 1 .. SequenceSize |-> taken[k]]
            = [k \in 1 .. SequenceSize |-> value[k]]
      BY <2>3
    <3> QED BY <3>1, <3>2
  <2>5. Got(meant[field + 1], starts[field + 2]) /\ meant[field + 1] \in Values
    BY <1>4, <1>5, <1>8, <1>10, <2>1, <2>4 DEF Values
  <2> QED BY <1>1, <1>2, <2>5, PieceIsGot
<1> QED BY <1>9, <1>10, SequenceStep

LEMMA MoneyMatches ==
    ASSUME CursorInv, NEW meant \in job.meant, NEW starts, NEW n,
           IsLaidOut(job, meant, starts, n), Sofar(meant, starts, n),
           ReadMoney
    PROVE  Sofar(meant, starts, n)'
<1>1. /\ job.kind = "record" /\ verdict = "reading" /\ field < Len(Fields)
      /\ Fields[field + 1] = "money"
  BY DEF ReadMoney, Expects, Reading
<1>2. n = Len(Fields) /\ job \in Jobs
  BY <1>1 DEF IsLaidOut, Count, CursorInv
<1>3. field + 1 \in 1 .. Len(Fields) /\ offset \in 0 .. Len(job.bytes)
      /\ Len(job.bytes) \in Nat /\ DoubleSize \in Nat
  BY <1>1, <1>2, NextPiece, Widths
<1>4. PICK value \in [1 .. DoubleSize -> Bytes] \cup {Nullopt} :
         value = meant[field + 1]
  BY <1>1, <1>2, <1>3, MeantFacts DEF Encodable
<1>5. value # Nullopt => value \in [1 .. DoubleSize -> Bytes] /\ value \in Seq(Bytes)
  BY <1>3, <1>4, SeqDef
<1>6. PICK piece : piece = EncodeField("money", value)
  OBVIOUS
<1>7. /\ Len(piece) = 1 + DoubleSize
      /\ value = Nullopt => piece[1] = 0
      /\ value # Nullopt =>
           /\ piece[1] = 1
           /\ \A k \in 1 .. DoubleSize : piece[1 + k] = value[k]
  <2>1. CASE value = Nullopt
    BY <1>6, <2>1, AbsentIsFiller
  <2>2. CASE value # Nullopt
    <3>1. piece = <<1>> \o value /\ 1 \in Bytes
      BY <1>6, <2>2, Widths DEF EncodeField, AppendMoney, Bytes
    <3> QED BY <1>5, <2>2, <3>1, FlaggedBytes
  <2> QED BY <2>1, <2>2
<1>8. /\ starts[field + 2] = offset + 1 + DoubleSize
      /\ \A k \in 1 .. 1 + DoubleSize :
           offset + k <= Len(job.bytes) => job.bytes[offset + k] = piece[k]
  <2>1. Piece(job.kind, meant, field + 1) = piece
    BY <1>1, <1>4, <1>6 DEF Piece
  <2>2. /\ starts[field + 2] = offset + Len(piece)
        /\ \A k \in 1 .. Len(piece) :
             offset + k <= Len(job.bytes) => job.bytes[offset + k] = piece[k]
    BY <1>1, <1>2, <2>1, NextPiece
  <2> QED BY <1>3, <1>7, <2>2
<1>9. offset + 1 <= Len(job.bytes) => Taken(offset, 1)[1] = piece[1]
  <2> SUFFICES ASSUME offset + 1 <= Len(job.bytes)
               PROVE  Taken(offset, 1)[1] = piece[1]
    OBVIOUS
  <2>1. 1 \in 1 .. 1 /\ 1 \in 1 .. 1 + DoubleSize
    BY <1>3
  <2>2. Taken(offset, 1)[1] = job.bytes[offset + 1]
    BY <1>3, <2>1, TakenFacts
  <2> QED BY <1>8, <2>1, <2>2
<1>10. CASE /\ verdict' = "truncated" /\ UNCHANGED <<job, field, result>>
            /\ Len(job.bytes) < offset + 1 + DoubleSize
  BY <1>1, <1>2, <1>8, <1>10, PieceIsCut
<1>11. ~ (Taken(offset, 1)[1] > 1 /\ offset + 1 <= Len(job.bytes))
  BY <1>7, <1>9
<1>12. CASE offset + 1 + DoubleSize <= Len(job.bytes)
            /\ Taken(offset, 1)[1] = 1
            /\ Got(Taken(offset + 1, DoubleSize), offset + 1 + DoubleSize)
  <2>1. value # Nullopt
    <3>1. offset + 1 <= Len(job.bytes)
      BY <1>3, <1>12
    <3> QED BY <1>7, <1>9, <1>12, <3>1
  <2>2. PICK start \in 0 .. Len(job.bytes) : start = offset + 1
    <3>1. offset + 1 \in 0 .. Len(job.bytes)
      BY <1>3, <1>12
    <3> QED BY <3>1
  <2>3. PICK taken : taken = Taken(start, DoubleSize)
    OBVIOUS
  <2>4. /\ taken \in [1 .. DoubleSize -> Bytes]
        /\ \A k \in 1 .. DoubleSize : taken[k] = job.bytes[start + k]
    <3>1. start + DoubleSize <= Len(job.bytes)
      BY <1>12, <2>2
    <3> QED BY <1>3, <2>3, <3>1, TakenFacts
  <2>5. ASSUME NEW k \in 1 .. DoubleSize
        PROVE  taken[k] = value[k]
    <3>1. PICK i \in 1 .. 1 + DoubleSize : i = 1 + k /\ offset + i = start + k
      <4>1. /\ 1 + k \in 1 .. 1 + DoubleSize
            /\ offset + (1 + k) = start + k
        BY <1>3, <2>2
      <4> QED BY <4>1
    <3>2. offset + i <= Len(job.bytes)
      BY <1>3, <1>12, <3>1
    <3>3. piece[i] = value[k]
      BY <1>7, <2>1, <3>1
    <3> QED BY <1>8, <2>4, <3>1, <3>2, <3>3
  <2>6. taken = value
    <3>1. /\ taken = [k \in 1 .. DoubleSize |-> taken[k]]
          /\ value = [k \in 1 .. DoubleSize |-> value[k]]
      BY <1>5, <2>1, <2>4
    <3>2. [k \in 1 .. DoubleSize |-> taken[k]]
            = [k \in 1 .. DoubleSize |-> value[k]]
      BY <2>5
    <3> QED BY <3>1, <3>2
  <2>7. Got(meant[field + 1], starts[field + 2]) /\ meant[field + 1] \in Values
    BY <1>4, <1>5, <1>8, <1>12, <2>1, <2>2, <2>3, <2>6 DEF Values
  <2> QED BY <1>1, <1>2, <2>7, PieceIsGot
<1>13. CASE offset + 1 + DoubleSize <= Len(job.bytes)
            /\ Taken(offset, 1)[1] = 0
            /\ Got(Nullopt, offset + 1 + DoubleSize)
  <2>1. value = Nullopt
    <3>1. offset + 1 <= Len(job.bytes)
      BY <1>3, <1>13
    <3> QED BY <1>7, <1>9, <1>13, <3>1
  <2>2. Got(meant[field + 1], starts[field + 2]) /\ meant[field + 1] \in Values
    BY <1>4, <1>8, <1>13, <2>1 DEF Values
  <2> QED BY <1>1, <1>2, <2>2, PieceIsGot
<1> QED BY <1>10, <1>11, <1>12, <1>13, MoneyStep

\* Of a record whatever happened to it, of frames unless something was added.
Matches ==
    /\ CursorInv
    /\ \A meant \in job.meant :
         AllFit(meant) /\ (job.kind = "record" \/ job.damage <= 0) =>
           \E starts, n : /\ IsLaidOut(job, meant, starts, n)
                          /\ Sofar(meant, starts, n)

LEMMA EndMatches ==
    ASSUME CursorInv, NEW meant \in job.meant, NEW starts, NEW n,
           IsLaidOut(job, meant, starts, n), Sofar(meant, starts, n),
           EndOfRecord
    PROVE  Sofar(meant, starts, n)'
<1>1. /\ job.kind = "record" /\ verdict = "reading" /\ field = Len(Fields)
      /\ UNCHANGED <<job, offset, field, result>>
      /\ verdict' = IF offset # Len(job.bytes) THEN "trailing_bytes" ELSE "ok"
  BY DEF EndOfRecord, Reading
<1>2. /\ n \in Nat /\ n = field /\ offset \in 0 .. Len(job.bytes)
      /\ Len(job.bytes) \in Nat /\ job.damage \in Int
  BY <1>1, MeantFacts DEF IsLaidOut, Count, CursorInv
<1>3. offset = starts[n + 1] /\ Len(job.bytes) = starts[n + 1] + job.damage
  BY <1>1, <1>2 DEF Sofar, IsLaidOut
<1>4. offset # Len(job.bytes) => job.damage > 0
  BY <1>2, <1>3
<1> QED BY <1>1, <1>2, <1>4 DEF Sofar

LEMMA MatchesNext ==
    ASSUME Matches, [Next]_vars
    PROVE  Matches'
<1>1. CursorInv /\ CursorInv'
  BY CursorNext DEF Matches
<1>2. job' = job
  BY DEF Next, vars, ReadSequence, ReadString, ReadMoney, EndOfRecord,
         ReadFrame, EndOfFrames, Done, Fail, Got
<1>3. ASSUME NEW meant \in job.meant, AllFit(meant),
             job.kind = "record" \/ job.damage <= 0,
             NEW starts, NEW n,
             IsLaidOut(job, meant, starts, n), Sofar(meant, starts, n)
      PROVE  Sofar(meant, starts, n)'
  <2>1. CASE ReadSequence
    BY <1>1, <1>3, <2>1, SequenceMatches
  <2>2. CASE ReadString
    BY <1>1, <1>3, <2>2, StringMatches
  <2>3. CASE ReadMoney
    BY <1>1, <1>3, <2>3, MoneyMatches
  <2>4. CASE EndOfRecord
    BY <1>1, <1>3, <2>4, EndMatches
  <2>5. CASE ReadFrame
    <3>1. job.damage <= 0
      BY <1>3, <2>5 DEF ReadFrame, Reading
    <3> QED BY <1>1, <1>3, <2>5, <3>1, FrameMatches
  <2>6. CASE EndOfFrames
    <3>1. /\ verdict = "reading" /\ job.kind = "frames" /\ verdict' = "ok"
          /\ offset >= Len(job.bytes)
          /\ UNCHANGED <<job, offset, field, result>>
      BY <2>6 DEF EndOfFrames, Reading
    <3>2. offset = Len(job.bytes)
      BY <1>1, <3>1, JobFacts DEF CursorInv
    <3> QED BY <1>3, <3>1, <3>2 DEF Sofar
  <2>7. CASE UNCHANGED vars
    BY <1>3, <2>7 DEF Sofar, vars
  <2> QED BY <2>1, <2>2, <2>3, <2>4, <2>5, <2>6, <2>7 DEF Next, Done
<1>4. ASSUME NEW meant \in job'.meant, AllFit(meant)',
             job'.kind = "record" \/ job'.damage <= 0
      PROVE  \E starts, n : /\ IsLaidOut(job', meant, starts, n)
                            /\ Sofar(meant, starts, n)'
  <2>1. /\ meant \in job.meant /\ AllFit(meant)
        /\ job.kind = "record" \/ job.damage <= 0
    BY <1>2, <1>4 DEF AllFit
  <2>2. PICK starts, n : /\ IsLaidOut(job, meant, starts, n)
                         /\ Sofar(meant, starts, n)
    BY <2>1 DEF Matches
  <2>3. Sofar(meant, starts, n)'
    BY <1>2, <1>3, <1>4, <2>1, <2>2
  <2> QED BY <1>2, <2>2, <2>3
<1> QED BY <1>1, <1>4 DEF Matches

LEMMA MatchesInvariant == Spec => []Matches
<1>1. Init => Matches
  <2> SUFFICES ASSUME Init, NEW meant \in job.meant, AllFit(meant)
               PROVE  \E starts, n : /\ IsLaidOut(job, meant, starts, n)
                                     /\ Sofar(meant, starts, n)
    BY CursorInit DEF Matches
  <2>1. /\ job \in Jobs /\ field = 0 /\ offset = 0 /\ result = <<>>
        /\ verdict = "reading"
    BY DEF Init
  <2>2. PICK starts, n : IsLaidOut(job, meant, starts, n)
    BY <2>1, LaidOut
  <2>3. n \in Nat /\ starts[0 + 1] = 0
    BY <2>2 DEF IsLaidOut
  <2>4. <<>> \in Seq(Values) /\ Len(<<>>) = 0 /\ 1 .. 0 = {}
    OBVIOUS
  <2>5. Sofar(meant, starts, n)
    BY <2>1, <2>3, <2>4 DEF Sofar
  <2> QED BY <2>2, <2>5
<1> QED BY <1>1, MatchesNext, PTL DEF Spec

\* What was encoded is what is decoded, as long as its lengths fit; nothing
\* that is cut off a record, or added to it, goes unnoticed, and of frames that
\* were cut those before the cut are read and no others.
THEOREM NoDamageUnnoticed == Spec => []DamageIsNoticed
<1>1. Matches => DamageIsNoticed
  <2> SUFFICES ASSUME Matches, verdict # "reading",
                      NEW meant \in job.meant, AllFit(meant)
               PROVE  /\ job.damage = 0 => verdict = "ok" /\ result = meant
                      /\ job.kind = "record" /\ job.damage > 0 =>
                           verdict = "trailing_bytes"
                      /\ job.kind = "record" /\ job.damage < 0 =>
                           verdict = "truncated"
                      /\ job.kind = "frames" /\ job.damage < 0 =>
                           /\ IsStrictPrefix(result, meant)
                           /\ verdict = "ok" => offset = Len(job.bytes)
    BY DEF DamageIsNoticed
  <2>1. /\ CursorInv /\ job \in Jobs /\ job.kind \in {"record", "frames"}
        /\ job.damage \in Int /\ field \in Nat
    BY MeantFacts DEF Matches, CursorInv
  <2> SUFFICES ASSUME job.kind = "record" \/ job.damage <= 0
               PROVE  /\ job.damage = 0 => verdict = "ok" /\ result = meant
                      /\ job.kind = "record" /\ job.damage > 0 =>
                           verdict = "trailing_bytes"
                      /\ job.kind = "record" /\ job.damage < 0 =>
                           verdict = "truncated"
                      /\ job.kind = "frames" /\ job.damage < 0 =>
                           /\ IsStrictPrefix(result, meant)
                           /\ verdict = "ok" => offset = Len(job.bytes)
    BY <2>1
  <2>2. PICK starts, n : /\ IsLaidOut(job, meant, starts, n)
                         /\ Sofar(meant, starts, n)
    BY DEF Matches
  <2>3. /\ n \in Nat /\ n = Count(job.kind, meant) /\ field <= n
        /\ result \in Seq(Values) /\ Len(result) = field
        /\ \A f \in 1 .. field : result[f] = meant[f]
        /\ Len(job.bytes) = starts[n + 1] + job.damage
        /\ starts[n + 1] \in Nat
    <3>1. n \in Nat /\ starts \in [1 .. n + 1 -> Nat]
      BY <2>2 DEF IsLaidOut
    <3>2. n + 1 \in 1 .. n + 1
      BY <3>1
    <3> QED BY <2>2, <3>1, <3>2 DEF IsLaidOut, Sofar
  <2>4. verdict = "ok" => (field = n <=> job.damage = 0)
    <3> SUFFICES ASSUME verdict = "ok" PROVE field = n <=> job.damage = 0
      OBVIOUS
    <3>1. starts[field + 1] = Len(job.bytes)
      BY <2>2 DEF Sofar
    <3>2. field < n => starts[field + 1] < starts[n + 1]
      <4> SUFFICES ASSUME field < n PROVE starts[field + 1] < starts[n + 1]
        OBVIOUS
      <4>1. PICK f \in 1 .. n : f = field + 1
        BY <2>1, <2>3
      <4>2. /\ starts[f] < starts[f + 1] /\ starts[f + 1] <= starts[n + 1]
            /\ starts[f] \in Nat /\ starts[f + 1] \in Nat
        <5>1. f \in 1 .. n + 1 /\ f + 1 \in 1 .. n + 1
          BY <2>3
        <5> QED BY <2>2, <5>1 DEF IsLaidOut
      <4> QED BY <2>3, <4>1, <4>2
    <3> QED BY <2>1, <2>3, <3>1, <3>2
  <2>5. /\ verdict \in {"ok", "truncated", "trailing_bytes"}
        /\ verdict = "ok" /\ job.kind = "record" => field = n
        /\ verdict = "ok" => offset = Len(job.bytes)
        /\ verdict = "truncated" => field < n /\ job.damage < 0
        /\ verdict = "trailing_bytes" => job.kind = "record" /\ job.damage > 0
    BY <2>2 DEF Sofar
  <2>6. ASSUME field = n
        PROVE  result = meant
    <3>1. result = [f \in 1 .. n |-> result[f]]
      BY <2>3, <2>6
    <3>2. meant = [f \in 1 .. n |-> meant[f]]
      <4>1. CASE job.kind = "record"
        BY <2>1, <2>3, <4>1, MeantFacts DEF Count
      <4>2. CASE job.kind = "frames"
        <5>1. meant \in Seq(Seq(Bytes)) /\ n = Len(meant)
          BY <2>1, <2>3, <4>2, MeantFacts DEF Count
        <5> QED BY <5>1
      <4> QED BY <2>1, <4>1, <4>2
    <3>3. [f \in 1 .. n |-> result[f]] = [f \in 1 .. n |-> meant[f]]
      BY <2>3, <2>6
    <3> QED BY <3>1, <3>2, <3>3
  <2>7. ASSUME job.kind = "frames", field < n
        PROVE  IsStrictPrefix(result, meant)
    <3>1. meant \in Seq(Seq(Bytes)) /\ n = Len(meant)
      BY <2>1, <2>3, <2>7, MeantFacts DEF Count
    <3>2. /\ SubSeq(result, 1, field) = [f \in 1 .. field |-> result[f]]
          /\ SubSeq(meant, 1, field) = [f \in 1 .. field |-> meant[f]]
      BY <2>1, <2>3, <2>7, <3>1
    <3>3. [f \in 1 .. field |-> result[f]] = [f \in 1 .. field |-> meant[f]]
      BY <2>3
    <3>4. Len(result) < Len(meant)
      BY <2>3, <2>7, <3>1
    <3>5. result # meant
      BY <2>3, <2>7, <3>1
    <3>6. IsPrefix(result, meant)
      BY <2>1, <2>3, <3>1, <3>2, <3>3, <3>4 DEF IsPrefix
    <3> QED BY <3>5, <3>6 DEF IsStrictPrefix
  <2> QED BY <2>1, <2>3, <2>4, <2>5, <2>6, <2>7
<1> QED BY <1>1, MatchesInvariant, PTL

-----------------------------------------------------------------------------
(* The hash.                                                               *)

\* Multiplication by what has an inverse loses nothing.
LEMMA TimesInvertible ==
    ASSUME NEW m \in Nat, m > 0, NEW p \in Nat, NEW q \in Nat, (p * q) % m = 1,
           NEW x \in 0 .. m - 1, NEW y \in 0 .. m - 1, (x * p) % m = (y * p) % m
    PROVE  x = y
<1>1. \A a \in Nat : \E k \in Int : a = m * k + (a % m)
  BY \A a \in Nat : a = m * (a \div m) + (a % m) /\ a \div m \in Int
<1>2. x * p \in Nat /\ y * p \in Nat /\ p * q \in Nat
  OBVIOUS
<1>3. PICK r \in Int : r = (x * p) % m
  BY <1>2
<1>4. PICK j \in Int : p * q = m * j + 1
  BY <1>1, <1>2
<1>5. PICK k \in Int : x * p = m * k + r
  BY <1>1, <1>2, <1>3
<1>6. PICK l \in Int : y * p = m * l + r
  BY <1>1, <1>2, <1>3
<1>7. x * (p * q) = (x * p) * q /\ y * (p * q) = (y * p) * q
  OBVIOUS
<1>8. x * (m * j + 1) = (m * k + r) * q /\ y * (m * j + 1) = (m * l + r) * q
  BY <1>4, <1>5, <1>6, <1>7
<1>9. /\ x * (m * j + 1) = m * (x * j) + x /\ (m * k + r) * q = m * (k * q) + r * q
      /\ y * (m * j + 1) = m * (y * j) + y /\ (m * l + r) * q = m * (l * q) + r * q
  OBVIOUS
<1>10. PICK a, b, c, d, e \in Int :
          a = x * j /\ b = k * q /\ c = y * j /\ d = l * q /\ e = r * q
  OBVIOUS
<1>11. m * a + x = m * b + e /\ m * c + y = m * d + e
  BY <1>8, <1>9, <1>10
<1>12. x - y = m * (b - a - d + c)
  <2>1. m * (b - a - d + c) = m * b - m * a - m * d + m * c
    OBVIOUS
  <2> QED BY <1>11, <2>1
<1>13. PICK t \in Int : t = b - a - d + c /\ x - y = m * t
  BY <1>12
<1>14. t = 0
  <2>1. t >= 1 => m * t >= m
    OBVIOUS
  <2>2. t <= -1 => m * t <= -m
    OBVIOUS
  <2> QED BY <1>13, <2>1, <2>2
<1>15. m * t = 0
  BY <1>14
<1> QED BY <1>13, <1>15

\* A byte gives another hash for another hash before it, and for another byte.
LEMMA AppendByteFacts ==
    ASSUME NEW h \in Hashes, NEW b \in Bytes
    PROVE  /\ AppendByte(h, b) \in Hashes
           /\ \A g \in Hashes : AppendByte(h, b) = AppendByte(g, b) => h = g
           /\ \A c \in Bytes : AppendByte(h, b) = AppendByte(h, c) => b = c
<1>1. PICK m \in Nat : m = HashRange /\ m > 0
  BY HashAssumption
<1>2. PICK p \in Nat : p = Prime
  BY HashAssumption DEF Hashes
<1>3. PICK q \in Nat : (p * q) % m = 1
  <2>1. PICK q \in Hashes : (Prime * q) % HashRange = 1
    BY HashAssumption
  <2>2. q \in Nat /\ (p * q) % m = 1
    BY <1>1, <1>2, <2>1 DEF Hashes
  <2> QED BY <2>2
<1>4. Hashes = 0 .. m - 1
  BY <1>1 DEF Hashes
<1>5. /\ \A g \in Hashes, c \in Bytes : ByteXor(g, c) \in 0 .. m - 1
      /\ \A g \in Hashes, c \in Bytes : ByteXor(ByteXor(g, c), c) = g
      /\ \A c \in Bytes : ByteXor(h, b) = ByteXor(h, c) => b = c
  BY <1>4, HashAssumption
<1>6. \A g \in Hashes, c \in Bytes : AppendByte(g, c) = (ByteXor(g, c) * p) % m
  BY <1>1, <1>2 DEF AppendByte
<1>7. \A x, y \in 0 .. m - 1 : (x * p) % m = (y * p) % m => x = y
  BY <1>1, <1>3, TimesInvertible
<1>8. PICK x \in 0 .. m - 1 : x = ByteXor(h, b)
  BY <1>5
<1>9. AppendByte(h, b) \in Hashes
  <2>1. x * p \in Nat
    OBVIOUS
  <2>2. (x * p) % m \in 0 .. m - 1
    BY <1>1, <2>1
  <2> QED BY <1>4, <1>6, <1>8, <2>2
<1>10. ASSUME NEW g \in Hashes, AppendByte(h, b) = AppendByte(g, b)
       PROVE  h = g
  <2>1. PICK y \in 0 .. m - 1 : y = ByteXor(g, b)
    BY <1>5
  <2>2. (x * p) % m = (y * p) % m
    BY <1>6, <1>8, <1>10, <2>1
  <2>3. ByteXor(h, b) = ByteXor(g, b)
    BY <1>7, <1>8, <2>1, <2>2
  <2>4. ByteXor(ByteXor(h, b), b) = h /\ ByteXor(ByteXor(g, b), b) = g
    BY <1>5
  <2> QED BY <2>3, <2>4
<1>11. ASSUME NEW c \in Bytes, AppendByte(h, b) = AppendByte(h, c)
       PROVE  b = c
  <2>1. PICK y \in 0 .. m - 1 : y = ByteXor(h, c)
    BY <1>5
  <2>2. (x * p) % m = (y * p) % m
    BY <1>6, <1>8, <1>11, <2>1
  <2>3. ByteXor(h, b) = ByteXor(h, c)
    BY <1>7, <1>8, <2>1, <2>2
  <2> QED BY <1>5, <2>3
<1> QED BY <1>9, <1>10, <1>11

\* The hash after each byte.
IsHashing(st, h, bytes) ==
    /\ st \in [0 .. Len(bytes) -> Hashes]
    /\ st[0] = h
    /\ \A k \in 1 .. Len(bytes) : st[k] = AppendByte(st[k - 1], bytes[k])

LEMMA HashSteps ==
    ASSUME NEW h \in Hashes, NEW bytes \in Seq(Bytes)
    PROVE  \E st : /\ IsHashing(st, h, bytes)
                   /\ FoldLeft(AppendByte, h, bytes) = st[Len(bytes)]
<1>1. PICK n \in Nat : n = Len(bytes) /\ DOMAIN bytes = 1 .. n
  BY LenProperties
<1>2. \A k \in 1 .. n : bytes[k] \in Bytes
  BY <1>1, ElementOfSeq
<1> DEFINE turn == [k \in 1 .. n |-> [g \in Hashes |-> AppendByte(g, bytes[k])]]
           Fold(F) == [s \in SUBSET (DOMAIN bytes) |->
                         IF s = {} THEN h
                         ELSE AppendByte(F[s \ {Max(s)}], bytes[Max(s)])]
           chosen == CHOOSE F : F = Fold(F)
           st == [k \in 0 .. n |-> chosen[1 .. k]]
<1>3. Steps(turn, n, Hashes)
  <2>1. \A k \in 1 .. n : \A g \in Hashes : turn[k][g] \in Hashes
    BY <1>2, AppendByteFacts
  <2> QED BY <2>1 DEF Steps
<1>4. \E F : F = Fold(F)
  <2>1. PICK F \in [SUBSET (1 .. n) -> Hashes] : IsFold(F, n, h, turn)
    <3> HIDE DEF turn
    <3> QED BY <1>3, FoldExists
  <2>2. ASSUME NEW s \in SUBSET (1 .. n)
        PROVE  F[s] = IF s = {} THEN h
                      ELSE AppendByte(F[s \ {Max(s)}], bytes[Max(s)])
    <3>1. CASE s = {}
      BY <2>1, <3>1 DEF IsFold
    <3>2. CASE s # {}
      <4>1. Max(s) \in 1 .. n /\ s \ {Max(s)} \in SUBSET (1 .. n)
        BY <3>2, LargestOf
      <4>2. F[s] = turn[Max(s)][F[s \ {Max(s)}]]
        <5> HIDE DEF turn
        <5> QED BY <2>1, <3>2 DEF IsFold
      <4>3. F[s \ {Max(s)}] \in Hashes
        BY <2>1, <4>1
      <4> QED BY <3>2, <4>1, <4>2, <4>3
    <3> QED BY <3>1, <3>2
  <2>3. F = Fold(F)
    BY <1>1, <2>1, <2>2
  <2> QED BY <2>3
<1>5. chosen = Fold(chosen)
  <2> HIDE DEF Fold
  <2> QED BY <1>4
<1>6. FoldLeft(AppendByte, h, bytes) = chosen[DOMAIN bytes]
  BY Zenon DEF FoldLeft, MapThenFoldSet
<1>7. \A s \in SUBSET (1 .. n) :
         chosen[s] = IF s = {} THEN h
                     ELSE AppendByte(chosen[s \ {Max(s)}], bytes[Max(s)])
  <2> HIDE DEF chosen
  <2> QED BY <1>1, <1>5
<1> HIDE DEF chosen
<1>8. Iterates(st, n, Hashes, h, turn)
  <2>1. ASSUME NEW s \in SUBSET (1 .. n), s # {}, chosen[s \ {Max(s)}] \in Hashes
        PROVE  chosen[s] = turn[Max(s)][chosen[s \ {Max(s)}]]
    <3>1. Max(s) \in 1 .. n
      BY <2>1, LargestOf
    <3> QED BY <1>7, <2>1, <3>1
  <2>2. chosen[{}] = h
    <3>1. {} \in SUBSET (1 .. n)
      OBVIOUS
    <3> QED BY <1>7, <3>1
  <2>3. n \in Nat /\ h \in Hashes
    OBVIOUS
  <2>4. PICK F : F = chosen
    OBVIOUS
  <2>5. \A s \in SUBSET (1 .. n) : s # {} /\ F[s \ {Max(s)}] \in Hashes
           => F[s] = turn[Max(s)][F[s \ {Max(s)}]]
    <3> HIDE DEF turn
    <3> QED BY <2>1, <2>4
  <2> HIDE DEF turn
  <2>6. F[{}] = h
    BY <2>2, <2>4
  <2>7. Iterates([k \in 0 .. n |-> F[1 .. k]], n, Hashes, h, turn)
    BY <1>3, <2>3, <2>5, <2>6, FoldTurns
  <2> QED BY <2>4, <2>7
<1>9. st[n] = chosen[DOMAIN bytes]
  BY <1>1
<1> HIDE DEF st
<1>10. ASSUME NEW k \in 1 .. n
       PROVE  st[k] = AppendByte(st[k - 1], bytes[k])
  <2>1. st[k] = turn[k][st[k - 1]] /\ st[k - 1] \in Hashes
    <3>1. k - 1 \in 0 .. n
      OBVIOUS
    <3> HIDE DEF turn
    <3> QED BY <1>8, <3>1 DEF Iterates
  <2> QED BY <2>1
<1>11. IsHashing(st, h, bytes)
  BY <1>1, <1>8, <1>10 DEF IsHashing, Iterates
<1> QED BY <1>1, <1>6, <1>9, <1>11

\* Two hashes of the same bytes are the same after each.
LEMMA SameHash ==
    ASSUME NEW n \in Nat, NEW f, NEW g, f[0] = g[0],
           \A k \in 1 .. n : f[k - 1] = g[k - 1] => f[k] = g[k]
    PROVE  \A k \in 0 .. n : f[k] = g[k]
<1> DEFINE T == {k \in 0 .. n : f[k] = g[k]}
<1>1. 0 \in T
  OBVIOUS
<1>2. ASSUME NEW k \in 0 .. n - 1, k \in T
      PROVE  k + 1 \in T
  <2>1. PICK j \in 1 .. n : j = k + 1 /\ j - 1 = k
    OBVIOUS
  <2>2. f[j] = g[j]
    BY <1>2, <2>1
  <2> QED BY <2>1, <2>2
<1>3. \A k \in 0 .. n : k \in T
  <2> HIDE DEF T
  <2> QED BY <1>1, <1>2, UpTo
<1> QED BY <1>3

\* Two hashes that differ stay different where the bytes are the same.
LEMMA OtherHash ==
    ASSUME NEW n \in Nat, NEW f, NEW g, NEW p \in 1 .. n, f[p] # g[p],
           \A k \in p + 1 .. n : f[k - 1] # g[k - 1] => f[k] # g[k]
    PROVE  f[n] # g[n]
<1> DEFINE T == {k \in 0 .. n : k >= p => f[k] # g[k]}
<1>1. 0 \in T
  OBVIOUS
<1>2. ASSUME NEW k \in 0 .. n - 1, k \in T
      PROVE  k + 1 \in T
  <2>1. PICK j \in 1 .. n : j = k + 1 /\ j - 1 = k
    OBVIOUS
  <2>2. CASE j > p
    <3>1. j \in p + 1 .. n /\ f[j - 1] # g[j - 1]
      BY <1>2, <2>1, <2>2
    <3> QED BY <2>1, <3>1
  <2>3. CASE j <= p
    BY <2>1, <2>3
  <2> QED BY <2>1, <2>2, <2>3
<1>3. \A k \in 0 .. n : k \in T
  <2> HIDE DEF T
  <2> QED BY <1>1, <1>2, UpTo
<1>4. n \in T
  <2> HIDE DEF T
  <2> QED BY <1>3
<1> QED BY <1>4

\* The hash goes on where it was.
LEMMA HashConcat ==
    ASSUME NEW h \in Hashes, NEW s \in Seq(Bytes), NEW t \in Seq(Bytes)
    PROVE  /\ FoldLeft(AppendByte, h, s) \in Hashes
           /\ FoldLeft(AppendByte, FoldLeft(AppendByte, h, s), t)
                = FoldLeft(AppendByte, h, s \o t)
<1>1. PICK m \in Nat, n \in Nat : m = Len(s) /\ n = Len(t)
  BY LenProperties
<1>2. PICK both \in Seq(Bytes) : both = s \o t
  BY ConcatProperties
<1>3. /\ Len(both) = m + n
      /\ \A k \in 1 .. m : both[k] = s[k]
      /\ \A k \in 1 .. n : both[m + k] = t[k]
  BY <1>1, <1>2, ConcatProperties
<1>4. PICK f : IsHashing(f, h, s) /\ FoldLeft(AppendByte, h, s) = f[m]
  BY <1>1, HashSteps
<1>5. f[m] \in Hashes
  BY <1>1, <1>4 DEF IsHashing
<1>6. PICK g : IsHashing(g, f[m], t) /\ FoldLeft(AppendByte, f[m], t) = g[n]
  BY <1>1, <1>5, HashSteps
<1>7. PICK w : IsHashing(w, h, both) /\ FoldLeft(AppendByte, h, both) = w[m + n]
  BY <1>3, HashSteps
<1>8. /\ f[0] = h /\ \A k \in 1 .. m : f[k] = AppendByte(f[k - 1], s[k])
      /\ g[0] = f[m] /\ \A k \in 1 .. n : g[k] = AppendByte(g[k - 1], t[k])
      /\ w[0] = h /\ \A k \in 1 .. m + n : w[k] = AppendByte(w[k - 1], both[k])
  BY <1>1, <1>3, <1>4, <1>6, <1>7 DEF IsHashing
<1>9. w[m] = f[m]
  <2>1. ASSUME NEW k \in 1 .. m, w[k - 1] = f[k - 1]
        PROVE  w[k] = f[k]
    <3>1. k \in 1 .. m + n
      OBVIOUS
    <3> QED BY <1>3, <1>8, <2>1, <3>1
  <2>2. w[0] = f[0] /\ \A k \in 1 .. m : w[k - 1] = f[k - 1] => w[k] = f[k]
    BY <1>8, <2>1
  <2>3. \A k \in 0 .. m : w[k] = f[k]
    BY <2>2, SameHash
  <2> QED BY <2>3
<1>10. PICK v : v = [k \in 0 .. n |-> w[m + k]]
  OBVIOUS
<1>11. v[n] = g[n]
  <2>1. ASSUME NEW k \in 1 .. n, v[k - 1] = g[k - 1]
        PROVE  v[k] = g[k]
    <3>1. PICK i \in 1 .. m + n : i = m + k /\ i - 1 = m + (k - 1)
      OBVIOUS
    <3>2. v[k] = w[i] /\ v[k - 1] = w[i - 1]
      <4>1. k \in 0 .. n /\ k - 1 \in 0 .. n
        OBVIOUS
      <4> QED BY <1>10, <3>1, <4>1
    <3>3. w[i] = AppendByte(w[i - 1], both[i]) /\ both[i] = t[k]
      BY <1>3, <1>8, <3>1
    <3>4. g[k] = AppendByte(g[k - 1], t[k])
      BY <1>8
    <3> QED BY <2>1, <3>2, <3>3, <3>4
  <2>2. v[0] = g[0]
    BY <1>8, <1>9, <1>10
  <2>3. \A k \in 0 .. n : v[k] = g[k]
    BY <2>1, <2>2, SameHash
  <2> QED BY <2>3
<1>12. v[n] = w[m + n]
  BY <1>10
<1> QED BY <1>2, <1>4, <1>5, <1>6, <1>7, <1>11, <1>12

\* One different byte.
LEMMA OneByteShows ==
    ASSUME NEW h \in Hashes, NEW s \in Seq(Bytes), NEW t \in Seq(Bytes),
           Len(s) = Len(t), Cardinality({i \in DOMAIN s : s[i] # t[i]}) = 1
    PROVE  FoldLeft(AppendByte, h, s) # FoldLeft(AppendByte, h, t)
<1>1. PICK n \in Nat : n = Len(s) /\ n = Len(t) /\ DOMAIN s = 1 .. n
  BY LenProperties
<1>2. PICK p \in 1 .. n : s[p] # t[p] /\ \A i \in 1 .. n : i # p => s[i] = t[i]
  <2>1. PICK D : D = {i \in 1 .. n : s[i] # t[i]}
    OBVIOUS
  <2>2. Cardinality(D) = 1 /\ IsFiniteSet(D)
    <3>1. Cardinality(D) = 1
      BY <1>1, <2>1
    <3>2. IsFiniteSet(1 .. n) /\ D \subseteq 1 .. n
      BY <2>1, FS_Interval
    <3> QED BY <3>1, <3>2, FS_Subset
  <2>3. \E x : D = {x}
    BY <2>2, FS_Singleton
  <2>4. PICK p \in D : D = {p}
    BY <2>3
  <2>5. p \in 1 .. n /\ s[p] # t[p]
    BY <2>1
  <2>6. \A i \in 1 .. n : i # p => s[i] = t[i]
    BY <2>1, <2>4
  <2> QED BY <2>5, <2>6
<1>3. \A k \in 1 .. n : s[k] \in Bytes /\ t[k] \in Bytes
  BY <1>1, ElementOfSeq
<1>4. PICK f : IsHashing(f, h, s) /\ FoldLeft(AppendByte, h, s) = f[n]
  BY <1>1, HashSteps
<1>5. PICK g : IsHashing(g, h, t) /\ FoldLeft(AppendByte, h, t) = g[n]
  BY <1>1, HashSteps
<1>6. /\ \A k \in 0 .. n : f[k] \in Hashes /\ g[k] \in Hashes
      /\ f[0] = g[0]
      /\ \A k \in 1 .. n : /\ f[k] = AppendByte(f[k - 1], s[k])
                           /\ g[k] = AppendByte(g[k - 1], t[k])
  BY <1>1, <1>4, <1>5 DEF IsHashing
<1>7. PICK m \in Nat : m = p - 1 /\ m \in 0 .. n
  OBVIOUS
<1>8. f[m] = g[m]
  <2>1. ASSUME NEW k \in 1 .. m, f[k - 1] = g[k - 1]
        PROVE  f[k] = g[k]
    <3>1. k \in 1 .. n /\ k # p
      BY <1>7
    <3> QED BY <1>2, <1>6, <2>1, <3>1
  <2>2. f[0] = g[0] /\ \A k \in 1 .. m : f[k - 1] = g[k - 1] => f[k] = g[k]
    BY <1>6, <2>1
  <2>3. \A k \in 0 .. m : f[k] = g[k]
    BY <2>2, SameHash
  <2> QED BY <2>3
<1>9. f[p] # g[p]
  <2>1. f[p] = AppendByte(f[m], s[p]) /\ g[p] = AppendByte(g[m], t[p])
    BY <1>6, <1>7
  <2>2. f[m] \in Hashes /\ s[p] \in Bytes /\ t[p] \in Bytes
    BY <1>3, <1>6, <1>7
  <2>3. PICK x \in Hashes, b \in Bytes, c \in Bytes :
           x = f[m] /\ x = g[m] /\ b = s[p] /\ c = t[p] /\ b # c
    BY <1>2, <1>8, <2>2
  <2>4. AppendByte(x, b) # AppendByte(x, c)
    BY <2>3, AppendByteFacts
  <2> QED BY <2>1, <2>3, <2>4
<1>10. ASSUME NEW k \in p + 1 .. n, f[k - 1] # g[k - 1]
       PROVE  f[k] # g[k]
  <2>1. k \in 1 .. n /\ k # p /\ k - 1 \in 0 .. n
    OBVIOUS
  <2>2. f[k] = AppendByte(f[k - 1], s[k]) /\ g[k] = AppendByte(g[k - 1], s[k])
    BY <1>2, <1>6, <2>1
  <2>3. f[k - 1] \in Hashes /\ g[k - 1] \in Hashes /\ s[k] \in Bytes
    BY <1>3, <1>6, <2>1
  <2> QED BY <1>10, <2>2, <2>3, AppendByteFacts
<1>11. f[n] # g[n]
  BY <1>9, <1>10, OtherHash
<1> QED BY <1>4, <1>5, <1>11

-----------------------------------------------------------------------------
(* The bytes of a call.                                                    *)

\* What checksum_append is called with.
Calls == [text : {TRUE}, value : {t \in Seq(Bytes) : Len(t) < NumberRange}]
         \cup [text : {FALSE}, value : Int]

\* The number that goes in first.
Announced(call) == IF call.text THEN Len(call.value) ELSE call.value

LEMMA RangeFacts ==
    /\ NumberBytes \in Nat /\ NumberBytes > 0
    /\ NumberRange \in Nat /\ NumberRange > 0
<1>1. PICK width \in Nat : width = NumberBytes /\ width > 0
  BY HashAssumption
<1>2. PICK power : IsPower(power, width) /\ Capacity(width) = power[width]
  BY CapacityIsPower
<1>3. /\ power[0] = 1
      /\ \A k \in 0 .. width - 1 : power[k + 1] = Radix * power[k]
  <2>1. power[0] = 1
    BY <1>2 DEF IsPower
  <2>2. ASSUME NEW k \in 0 .. width - 1
        PROVE  power[k + 1] = Radix * power[k]
    <3>1. PICK j \in 0 .. width : j = k + 1 /\ j # 0 /\ j - 1 = k
      OBVIOUS
    <3>2. power[j] = Radix * power[j - 1]
      BY <1>2, <3>1 DEF IsPower
    <3> QED BY <3>1, <3>2
  <2> QED BY <2>1, <2>2
<1> DEFINE T == {k \in 0 .. width : power[k] \in Nat /\ power[k] > 0}
<1>4. width \in T
  <2>1. 0 \in T
    BY <1>3
  <2>2. ASSUME NEW k \in 0 .. width - 1, k \in T
        PROVE  k + 1 \in T
    <3>1. PICK m \in Nat, r \in Nat : m = power[k] /\ m > 0 /\ r = Radix /\ r > 1
      BY <2>2, Widths
    <3>2. r * m \in Nat /\ r * m > 0
      BY <3>1
    <3>3. power[k + 1] = r * m /\ k + 1 \in 0 .. width
      BY <1>3, <3>1
    <3> QED BY <3>2, <3>3
  <2>3. \A k \in 0 .. width : k \in T
    <3> HIDE DEF T
    <3> QED BY <2>1, <2>2, UpTo
  <2> HIDE DEF T
  <2> QED BY <2>3
<1> QED BY <1>1, <1>2, <1>4 DEF NumberRange

\* A number goes in with all its bytes, and is known from them.
LEMMA NumberBytesFacts ==
    ASSUME NEW v \in Int
    PROVE  /\ NumberBytesOf(v) \in Seq(Bytes)
           /\ Len(NumberBytesOf(v)) = NumberBytes
           /\ Number(NumberBytesOf(v)) = v % NumberRange
<1>1. PICK r \in Nat : r = NumberRange /\ r > 0
  BY RangeFacts
<1>2. PICK n \in Nat : n = v % r /\ n < r
  BY <1>1
<1>3. PICK width \in Nat : width = NumberBytes /\ width > 0 /\ Capacity(width) = r
  BY <1>1, RangeFacts DEF NumberRange
<1>4. PICK digits : digits = Digits(n, width)
  OBVIOUS
<1>5. digits \in [1 .. width -> Bytes] /\ Number(digits) = n
  BY <1>2, <1>3, <1>4, NumberOfDigits
<1>6. digits \in Seq(Bytes) /\ Len(digits) = width
  BY <1>5, LenProperties, SeqDef
<1>7. NumberBytesOf(v) = digits
  BY <1>1, <1>2, <1>3, <1>4 DEF NumberBytesOf
<1> QED BY <1>1, <1>2, <1>3, <1>5, <1>6, <1>7

\* What goes in: the number, and behind it the text if it announced one.
LEMMA BytesOfIs ==
    ASSUME NEW call \in Calls
    PROVE  /\ call.text \in BOOLEAN /\ Announced(call) \in Int
           /\ call.text => call.value \in Seq(Bytes) /\ Len(call.value) \in Nat
                           /\ Len(call.value) < NumberRange
           /\ ~call.text => call.value \in Int
           /\ BytesOf(call) \in Seq(Bytes)
           /\ Len(BytesOf(call))
                = IF call.text THEN NumberBytes + Len(call.value) ELSE NumberBytes
           /\ \A k \in 1 .. NumberBytes :
                BytesOf(call)[k] = NumberBytesOf(Announced(call))[k]
           /\ call.text => \A k \in 1 .. Len(call.value) :
                BytesOf(call)[NumberBytes + k] = call.value[k]
<1>1. CASE call \in [text : {TRUE}, value : {t \in Seq(Bytes) : Len(t) < NumberRange}]
  <2>1. PICK t \in Seq(Bytes) : t = call.value /\ Len(t) < NumberRange
    BY <1>1
  <2>2. call.text = TRUE
    BY <1>1
  <2>3. PICK n \in Nat : n = Len(t)
    BY LenProperties
  <2>4. PICK d \in Seq(Bytes) : d = NumberBytesOf(n) /\ Len(d) = NumberBytes
    BY NumberBytesFacts
  <2>5. PICK all : all = d \o t
    OBVIOUS
  <2>6. BytesOf(call) = all /\ Announced(call) = n
    BY <2>1, <2>2, <2>3, <2>4, <2>5 DEF BytesOf, Announced
  <2>7. PICK w \in Nat : w = NumberBytes
    BY RangeFacts
  <2>8. all \in Seq(Bytes) /\ Len(all) = w + n
    BY <2>3, <2>4, <2>5, <2>7, ConcatProperties
  <2>9. \A k \in 1 .. w : all[k] = d[k]
    <3>1. Len(d) = w
      BY <2>4, <2>7
    <3> QED BY <2>3, <2>5, <2>8, <3>1
  <2>10. \A k \in 1 .. n : all[w + k] = t[k]
    <3>1. Len(d) = w
      BY <2>4, <2>7
    <3>2. ASSUME NEW k \in 1 .. n
          PROVE  all[w + k] = t[k]
      <4>1. w + k > w /\ w + k <= w + n /\ (w + k) - w = k
        OBVIOUS
      <4> QED BY <2>3, <2>5, <2>8, <3>1, <4>1
    <3> QED BY <3>2
  <2>11. /\ call.text \in BOOLEAN /\ Announced(call) \in Int
         /\ call.value \in Seq(Bytes) /\ Len(call.value) = n /\ n < NumberRange
    <3>1. call.text \in BOOLEAN
      BY <2>2
    <3>2. Announced(call) \in Int
      BY <2>3, <2>6
    <3>3. call.value \in Seq(Bytes) /\ Len(call.value) = n
      BY <2>1, <2>3
    <3>4. n < NumberRange
      BY <2>1, <2>3
    <3> QED BY <3>1, <3>2, <3>3, <3>4
  <2>12. \A k \in 1 .. NumberBytes : all[k] = NumberBytesOf(n)[k]
    BY <2>4, <2>7, <2>9
  <2>13. \A k \in 1 .. Len(call.value) : all[NumberBytes + k] = call.value[k]
    BY <2>1, <2>3, <2>7, <2>10
  <2> QED BY <2>2, <2>6, <2>7, <2>8, <2>11, <2>12, <2>13
<1>2. CASE call \in [text : {FALSE}, value : Int]
  <2>1. PICK v \in Int : v = call.value
    BY <1>2
  <2>2. call.text = FALSE
    BY <1>2
  <2>3. BytesOf(call) = NumberBytesOf(v) /\ Announced(call) = v
    BY <2>1, <2>2 DEF BytesOf, Announced
  <2> QED BY <2>1, <2>2, <2>3, NumberBytesFacts
<1> QED BY <1>1, <1>2 DEF Calls

\* No call's bytes begin with those of another of its kind.
LEMMA SameBytes ==
    ASSUME NEW x \in Calls, NEW y \in Calls, x.text = y.text,
           \A i \in Nat : i > 0 /\ i <= Len(BytesOf(x)) /\ i <= Len(BytesOf(y))
             => BytesOf(x)[i] = BytesOf(y)[i]
    PROVE  /\ Len(BytesOf(x)) = Len(BytesOf(y))
           /\ x.text => x.value = y.value
           /\ ~x.text => x.value % NumberRange = y.value % NumberRange
<1>1. PICK w \in Nat : w = NumberBytes
  BY RangeFacts
<1>2. PICK a \in Int, b \in Int : a = Announced(x) /\ b = Announced(y)
  BY BytesOfIs
<1>3. PICK d \in Seq(Bytes), e \in Seq(Bytes) :
         /\ d = NumberBytesOf(a) /\ e = NumberBytesOf(b) /\ Len(d) = w /\ Len(e) = w
  BY <1>1, NumberBytesFacts
<1>4. PICK p \in Seq(Bytes), q \in Seq(Bytes) : p = BytesOf(x) /\ q = BytesOf(y)
  BY BytesOfIs
<1>5. /\ Len(p) = IF x.text THEN w + Len(x.value) ELSE w
      /\ Len(q) = IF x.text THEN w + Len(y.value) ELSE w
      /\ \A k \in 1 .. w : p[k] = d[k]
      /\ \A k \in 1 .. w : q[k] = e[k]
      /\ x.text => \A k \in 1 .. Len(x.value) : p[w + k] = x.value[k]
      /\ x.text => \A k \in 1 .. Len(y.value) : q[w + k] = y.value[k]
  BY <1>1, <1>2, <1>3, <1>4, BytesOfIs
<1>6. x.text => Len(x.value) \in Nat /\ Len(y.value) \in Nat
  BY BytesOfIs
<1>7. \A i \in Nat : i > 0 /\ i <= Len(p) /\ i <= Len(q) => p[i] = q[i]
  BY <1>4
<1>8. d = e
  <2>1. ASSUME NEW k \in 1 .. w
        PROVE  d[k] = e[k]
    <3>1. k \in Nat /\ k > 0 /\ k <= Len(p) /\ k <= Len(q)
      BY <1>5, <1>6
    <3> QED BY <1>5, <1>7, <3>1
  <2> QED BY <1>3, <2>1, SeqEqual
<1>9. a % NumberRange = b % NumberRange
  BY <1>3, <1>8, NumberBytesFacts
<1>10. CASE ~x.text
  <2>1. a = x.value /\ b = y.value
    BY <1>2, <1>10 DEF Announced
  <2> QED BY <1>4, <1>5, <1>9, <1>10, <2>1
<1>11. CASE x.text
  <2>1. a = Len(x.value) /\ b = Len(y.value)
    BY <1>2, <1>11 DEF Announced
  <2>2. PICK r \in Nat : r = NumberRange /\ a \in 0 .. r - 1 /\ b \in 0 .. r - 1
    <3>1. PICK r \in Nat : r = NumberRange
      BY RangeFacts
    <3>2. a \in Nat /\ a < NumberRange /\ b \in Nat /\ b < NumberRange
      BY <1>11, <2>1, BytesOfIs
    <3> QED BY <3>1, <3>2
  <2>3. \A k \in 0 .. r - 1 : k % r = k
    OBVIOUS
  <2>4. a = b
    BY <1>9, <2>2, <2>3
  <2>5. PICK s \in Seq(Bytes), t \in Seq(Bytes) : s = x.value /\ t = y.value
    BY <1>11, BytesOfIs
  <2>6. PICK n \in Nat : n = a /\ Len(s) = n /\ Len(t) = n
    <3>1. a \in Nat
      BY <2>2
    <3> QED BY <2>1, <2>4, <2>5, <3>1
  <2>7. Len(p) = w + n /\ Len(q) = w + n
    BY <1>5, <1>11, <2>5, <2>6
  <2>8. ASSUME NEW k \in 1 .. n
        PROVE  s[k] = t[k]
    <3>1. PICK i \in Nat : i = w + k /\ i > 0 /\ i <= w + n
      OBVIOUS
    <3>2. p[i] = q[i]
      BY <1>7, <2>7, <3>1
    <3>3. p[w + k] = s[k] /\ q[w + k] = t[k]
      BY <1>5, <1>11, <2>5, <2>6
    <3> QED BY <3>1, <3>2, <3>3
  <2>9. s = t
    BY <2>6, <2>8, SeqEqual
  <2> QED BY <1>4, <1>11, <2>5, <2>7, <2>9
<1> QED BY <1>10, <1>11

\* Two calls that checksum_append cannot tell apart.
SameCall(x, y) ==
    /\ x.text => x.value = y.value
    /\ ~x.text => x.value % NumberRange = y.value % NumberRange

\* Bytes that agree as far as both go.
Agree(p, q) == \A i \in Nat : i > 0 /\ i <= Len(p) /\ i <= Len(q) => p[i] = q[i]

SameKinds(c, d, bound) == \A k \in 1 .. bound : c[k].text = d[k].text

\* What calls c append.
Appends(p, c, n) == p = FlattenSeq([k \in 1 .. n |-> BytesOf(c[k])])

\* Calls whose bytes agree as far as both go are the same calls, one by one,
\* as long as they are of the same kinds.
LEMMA SameCalls ==
    ASSUME NEW m \in Nat, NEW n \in Nat,
           NEW c \in [1 .. m -> Calls], NEW d \in [1 .. n -> Calls],
           NEW p, Appends(p, c, m), NEW q, Appends(q, d, n), Agree(p, q),
           NEW bound \in Nat, bound <= m, bound <= n, SameKinds(c, d, bound)
    PROVE  \A k \in 1 .. bound : SameCall(c[k], d[k])
<1>1. PICK cs \in [1 .. m -> Seq(Bytes)] :
         /\ p = FlattenSeq(cs)
         /\ \A k \in 1 .. m : cs[k] = BytesOf(c[k])
  <2>1. ASSUME NEW k \in 1 .. m
        PROVE  BytesOf(c[k]) \in Seq(Bytes)
    <3>1. c[k] \in Calls
      OBVIOUS
    <3> QED BY <3>1, BytesOfIs
  <2>2. PICK seqs : seqs = [k \in 1 .. m |-> BytesOf(c[k])]
    OBVIOUS
  <2>3. seqs \in [1 .. m -> Seq(Bytes)]
    BY <2>1, <2>2
  <2>4. p = FlattenSeq(seqs)
    BY <2>2 DEF Appends
  <2>5. \A k \in 1 .. m : seqs[k] = BytesOf(c[k])
    BY <2>2
  <2> QED BY <2>3, <2>4, <2>5
<1>2. PICK ds \in [1 .. n -> Seq(Bytes)] :
         /\ q = FlattenSeq(ds)
         /\ \A k \in 1 .. n : ds[k] = BytesOf(d[k])
  <2>1. ASSUME NEW k \in 1 .. n
        PROVE  BytesOf(d[k]) \in Seq(Bytes)
    <3>1. d[k] \in Calls
      OBVIOUS
    <3> QED BY <3>1, BytesOfIs
  <2>2. PICK seqs : seqs = [k \in 1 .. n |-> BytesOf(d[k])]
    OBVIOUS
  <2>3. seqs \in [1 .. n -> Seq(Bytes)]
    BY <2>1, <2>2
  <2>4. q = FlattenSeq(seqs)
    BY <2>2 DEF Appends
  <2>5. \A k \in 1 .. n : seqs[k] = BytesOf(d[k])
    BY <2>2
  <2> QED BY <2>3, <2>4, <2>5
<1>3. PICK a : AreStarts(a, cs, m)
  BY StartsExist
<1>4. PICK b : AreStarts(b, ds, n)
  BY StartsExist
<1>5. IsPlaced(p, cs, a, m)
  BY <1>1, <1>3, FlattenPlaces
<1>6. IsPlaced(q, ds, b, n)
  BY <1>2, <1>4, FlattenPlaces
<1> DEFINE T == {k \in 0 .. bound :
                   /\ a[k + 1] = b[k + 1]
                   /\ k > 0 => SameCall(c[k], d[k])}
<1>7. 0 \in T
  BY <1>3, <1>4 DEF AreStarts
<1>8. ASSUME NEW k \in 0 .. bound - 1, k \in T
      PROVE  k + 1 \in T
  <2>1. PICK j \in Nat : /\ j = k + 1 /\ j \in 1 .. bound /\ j \in 1 .. m /\ j \in 1 .. n
                         /\ j \in 1 .. m + 1 /\ j \in 1 .. n + 1
    OBVIOUS
  <2>2. PICK s \in Nat : s = a[j] /\ s = b[j]
    BY <1>3, <1>8, <2>1 DEF AreStarts
  <2>3. PICK x \in Calls, y \in Calls : x = c[j] /\ y = d[j]
    BY <2>1
  <2>4. x.text = y.text
    BY <2>1, <2>3 DEF SameKinds
  <2>5. cs[j] = BytesOf(x) /\ ds[j] = BytesOf(y)
    BY <1>1, <1>2, <2>1, <2>3
  <2>6. Len(p) = a[m + 1] /\ Len(q) = b[n + 1] /\ Len(p) \in Nat /\ Len(q) \in Nat
    <3>1. m + 1 \in 1 .. m + 1 /\ n + 1 \in 1 .. n + 1
      OBVIOUS
    <3> QED BY <1>3, <1>4, <1>5, <1>6, <3>1 DEF AreStarts, IsPlaced
  <2>7. PICK v \in Seq(Bytes), w \in Seq(Bytes) : v = BytesOf(x) /\ w = BytesOf(y)
    BY BytesOfIs
  <2>8. ASSUME NEW i \in Nat, i > 0, i <= Len(v), i <= Len(w)
        PROVE  v[i] = w[i]
    <3>1. Len(v) \in Nat /\ Len(w) \in Nat
      BY LenProperties
    <3>2. i \in 1 .. Len(cs[j]) /\ i \in 1 .. Len(ds[j])
      BY <2>5, <2>7, <2>8, <3>1
    <3>3. s + i \in 1 .. Len(p) /\ p[s + i] = cs[j][i]
      <4>1. \A l \in 1 .. Len(cs[j]) : /\ a[j] + l \in 1 .. a[m + 1]
                                       /\ p[a[j] + l] = cs[j][l]
        BY <1>5, <2>1 DEF IsPlaced
      <4>2. a[j] + i \in 1 .. a[m + 1] /\ p[a[j] + i] = cs[j][i]
        BY <3>2, <4>1
      <4> QED BY <2>2, <2>6, <4>2
    <3>4. s + i \in 1 .. Len(q) /\ q[s + i] = ds[j][i]
      <4>1. \A l \in 1 .. Len(ds[j]) : /\ b[j] + l \in 1 .. b[n + 1]
                                       /\ q[b[j] + l] = ds[j][l]
        BY <1>6, <2>1 DEF IsPlaced
      <4>2. b[j] + i \in 1 .. b[n + 1] /\ q[b[j] + i] = ds[j][i]
        BY <3>2, <4>1
      <4> QED BY <2>2, <2>6, <4>2
    <3>5. PICK e \in Nat : e = s + i
      OBVIOUS
    <3>6. p[e] = q[e]
      <4>1. e \in 1 .. Len(p) /\ e \in 1 .. Len(q)
        BY <3>3, <3>4, <3>5
      <4>2. e > 0 /\ e <= Len(p) /\ e <= Len(q)
        BY <2>6, <4>1
      <4> QED BY <4>2 DEF Agree
    <3> QED BY <2>5, <2>7, <3>3, <3>4, <3>5, <3>6
  <2>9. \A i \in Nat : i > 0 /\ i <= Len(BytesOf(x)) /\ i <= Len(BytesOf(y))
          => BytesOf(x)[i] = BytesOf(y)[i]
    BY <2>7, <2>8
  <2>10. /\ Len(BytesOf(x)) = Len(BytesOf(y))
         /\ x.text => x.value = y.value
         /\ ~x.text => x.value % NumberRange = y.value % NumberRange
    BY <2>4, <2>9, SameBytes
  <2>11. SameCall(x, y)
    BY <2>10 DEF SameCall
  <2>12. a[j + 1] = s + Len(BytesOf(x)) /\ b[j + 1] = s + Len(BytesOf(y))
    BY <1>3, <1>4, <2>1, <2>2, <2>5 DEF AreStarts
  <2>13. a[j + 1] = b[j + 1]
    BY <2>10, <2>12
  <2>14. j \in 0 .. bound
    BY <2>1
  <2> QED BY <2>1, <2>3, <2>11, <2>13, <2>14
<1>9. \A k \in 0 .. bound : k \in T
  <2> HIDE DEF T
  <2> QED BY <1>7, <1>8, UpTo
<1>10. ASSUME NEW k \in 1 .. bound
       PROVE  SameCall(c[k], d[k])
  <2>1. k \in 0 .. bound /\ k > 0
    OBVIOUS
  <2>2. k \in T
    <3> HIDE DEF T
    <3> QED BY <1>9, <2>1
  <2> QED BY <2>1, <2>2
<1> QED BY <1>10

-----------------------------------------------------------------------------
(* The calls of an output.                                                 *)

\* Where the fields of each record begin, behind the number of records.
RowStarts(starts, n) ==
    /\ starts \in [1 .. n + 1 -> Nat]
    /\ starts[1] = 0
    /\ \A k \in 1 .. n : starts[k + 1] = starts[k] + Len(Kept)

\* The call that appends field number k of a record.
FieldCall(record, k) == [text |-> Kept[k] \in TextFields, value |-> record[Kept[k]]]

LEMMA KeptFacts ==
    /\ Len(Kept) \in Nat /\ DOMAIN Kept = 1 .. Len(Kept)
    /\ \A k \in 1 .. Len(Kept) : Kept[k] \in ToSet(Kept)
    /\ \A f \in ToSet(Kept) : \E k \in 1 .. Len(Kept) : f = Kept[k]
<1>1. PICK kept : kept = Kept /\ kept \in Seq(ToSet(FieldOrder))
  BY OutputsAssumption
<1>2. Len(kept) \in Nat /\ DOMAIN kept = 1 .. Len(kept)
  BY <1>1, LenProperties
<1> QED BY <1>1, <1>2 DEF ToSet

LEMMA OutputFacts ==
    ASSUME NEW output \in Outputs
    PROVE  \E n \in Nat :
             /\ n = Len(output) /\ n < NumberRange
             /\ DOMAIN output = 1 .. n
             /\ output = [i \in 1 .. n |-> [f \in ToSet(Kept) |-> output[i][f]]]
             /\ \A i \in 1 .. n, f \in ToSet(Kept) : CanBe(output[i][f], f)
<1>1. PICK n \in 0 .. NumberRange - 1 :
         /\ output = [i \in 1 .. n |-> [f \in ToSet(Kept) |-> output[i][f]]]
         /\ \A i \in 1 .. n, f \in ToSet(Kept) : CanBe(output[i][f], f)
  BY OutputsAssumption
<1>2. n \in Nat /\ n < NumberRange
  BY <1>1, RangeFacts
<1>3. PICK s : s = output /\ DOMAIN s = 1 .. n
         /\ s = [i \in 1 .. n |-> s[i]]
  BY <1>1
<1>4. PICK S : S = {s[i] : i \in 1 .. n}
  OBVIOUS
<1>5. s \in [1 .. n -> S]
  BY <1>3, <1>4
<1>6. Len(s) = n
  BY <1>2, <1>5, SeqDef, LenProperties
<1> QED BY <1>1, <1>2, <1>3, <1>6

\* An interval no wider than the modulus holds no two numbers that agree.
LEMMA SameModulo ==
    ASSUME NEW r \in Nat, r > 0, NEW l \in Int, NEW v \in Int, NEW w \in Int,
           l <= v, v < l + r, l <= w, w < l + r, v % r = w % r
    PROVE  v = w
<1>1. \A a \in Int : \E k \in Int : a = r * k + (a % r)
  BY \A a \in Int : a = r * (a \div r) + (a % r) /\ a \div r \in Int
<1>2. PICK e \in Int : e = v % r /\ e = w % r
  OBVIOUS
<1>3. PICK j \in Int : v = r * j + e
  BY <1>1, <1>2
<1>4. PICK k \in Int : w = r * k + e
  BY <1>1, <1>2
<1>5. v - w = r * (j - k)
  BY <1>3, <1>4
<1>6. PICK t \in Int : t = j - k /\ v - w = r * t
  BY <1>5
<1>7. t = 0
  <2>1. t >= 1 => r * t >= r
    OBVIOUS
  <2>2. t <= -1 => r * t <= -r
    OBVIOUS
  <2> QED BY <1>6, <2>1, <2>2
<1>8. r * t = 0
  BY <1>7
<1> QED BY <1>6, <1>8

LEMMA CanBeFacts ==
    ASSUME NEW v, NEW f, CanBe(v, f)
    PROVE  /\ f \in TextFields => v \in Seq(Bytes) /\ Len(v) < NumberRange
           /\ f \notin TextFields =>
                /\ v \in Int
                /\ \A w : CanBe(w, f) /\ v % NumberRange = w % NumberRange => v = w
<1>1. CASE f \in TextFields
  BY <1>1 DEF CanBe
<1>2. CASE f \notin TextFields
  <2>1. PICK r \in Nat : r = NumberRange /\ r > 0
    BY RangeFacts
  <2>2. PICK l \in Int : l = IF f \in RatioFields THEN -(r \div 2) ELSE 0
    <3>1. -(r \div 2) \in Int
      OBVIOUS
    <3> QED BY <3>1
  <2>3. \A w : CanBe(w, f) <=> w \in l .. l + r - 1
    BY <1>2, <2>1, <2>2 DEF CanBe
  <2>4. v \in Int /\ l <= v /\ v < l + r
    <3>1. v \in l .. l + r - 1
      BY <2>3
    <3> QED BY <3>1
  <2>5. ASSUME NEW w, CanBe(w, f), v % r = w % r
        PROVE  v = w
    <3>1. w \in l .. l + r - 1
      BY <2>3, <2>5
    <3>2. w \in Int /\ l <= w /\ w < l + r
      BY <3>1
    <3> QED BY <2>1, <2>4, <2>5, <3>2, SameModulo
  <2> QED BY <1>2, <2>1, <2>4, <2>5
<1> QED BY <1>1, <1>2

\* A field is known from its call.
LEMMA SameField ==
    ASSUME NEW k \in 1 .. Len(Kept), NEW x, NEW y,
           CanBe(x[Kept[k]], Kept[k]), CanBe(y[Kept[k]], Kept[k]),
           SameCall(FieldCall(x, k), FieldCall(y, k))
    PROVE  x[Kept[k]] = y[Kept[k]]
<1>1. PICK f, v, w : f = Kept[k] /\ v = x[f] /\ w = y[f]
  OBVIOUS
<1>2. /\ f \in TextFields => v = w
      /\ f \notin TextFields => v % NumberRange = w % NumberRange
  BY <1>1 DEF SameCall, FieldCall
<1>3. CanBe(v, f) /\ CanBe(w, f)
  BY <1>1
<1>4. f \notin TextFields => v = w
  BY <1>2, <1>3, CanBeFacts
<1> QED BY <1>1, <1>2, <1>4

LEMMA CallIs ==
    /\ \A t \in Seq(Bytes) :
         Len(t) < NumberRange => [text |-> TRUE, value |-> t] \in Calls
    /\ \A v \in Int : [text |-> FALSE, value |-> v] \in Calls
<1>1. ASSUME NEW t \in Seq(Bytes), Len(t) < NumberRange
      PROVE  [text |-> TRUE, value |-> t] \in Calls
  <2>1. PICK texts : texts = {u \in Seq(Bytes) : Len(u) < NumberRange}
    OBVIOUS
  <2>2. t \in texts
    BY <1>1, <2>1
  <2>3. [text |-> TRUE, value |-> t] \in [text : {TRUE}, value : texts]
    BY <2>2
  <2> QED BY <2>1, <2>3 DEF Calls
<1>2. ASSUME NEW v \in Int
      PROVE  [text |-> FALSE, value |-> v] \in Calls
  <2>1. [text |-> FALSE, value |-> v] \in [text : {FALSE}, value : Int]
    OBVIOUS
  <2> QED BY <2>1 DEF Calls
<1> QED BY <1>1, <1>2

\* The number of records, and field by field the records.
AreCallsOf(c, output, n, starts) ==
    /\ starts[n + 1] \in Nat
    /\ c \in Seq(Calls)
    /\ Len(c) = 1 + starts[n + 1]
    /\ c[1] = [text |-> FALSE, value |-> n]
    /\ \A f \in 1 .. n : \A k \in 1 .. Len(Kept) :
         /\ starts[f] + k \in 1 .. starts[n + 1]
         /\ c[1 + (starts[f] + k)] = FieldCall(output[f], k)
    /\ \A p \in 1 .. starts[n + 1] :
         \E f \in 1 .. n : \E k \in 1 .. Len(Kept) : p = starts[f] + k

LEMMA CallsFacts ==
    ASSUME NEW output \in Outputs, NEW n \in Nat, n = Len(output),
           NEW starts, RowStarts(starts, n)
    PROVE  AreCallsOf(CallsOf(output), output, n, starts)
<1>1. PICK m \in Nat : m = Len(Kept) /\ DOMAIN Kept = 1 .. m
  BY KeptFacts
<1>2. /\ DOMAIN output = 1 .. n
      /\ \A f \in 1 .. n, g \in ToSet(Kept) : CanBe(output[f][g], g)
  BY OutputFacts
<1>3. ASSUME NEW f \in 1 .. n, NEW k \in 1 .. m
      PROVE  FieldCall(output[f], k) \in Calls
  <2>1. PICK g, v : g = Kept[k] /\ v = output[f][g] /\ CanBe(v, g)
    BY <1>1, <1>2, KeptFacts
  <2>2. FieldCall(output[f], k) = [text |-> g \in TextFields, value |-> v]
    BY <2>1 DEF FieldCall
  <2>3. CASE g \in TextFields
    <3>1. v \in Seq(Bytes) /\ Len(v) < NumberRange
      BY <2>1, <2>3, CanBeFacts
    <3>2. (g \in TextFields) = TRUE
      BY <2>3
    <3> QED BY <2>2, <3>1, <3>2, CallIs
  <2>4. CASE g \notin TextFields
    <3>1. v \in Int
      BY <2>1, <2>4, CanBeFacts
    <3>2. (g \in TextFields) = FALSE
      BY <2>4
    <3> QED BY <2>2, <3>1, <3>2, CallIs
  <2> QED BY <2>3, <2>4
<1>4. PICK rows : rows = [f \in 1 .. n |-> FieldCalls(output[f])]
  OBVIOUS
<1>5. ASSUME NEW f \in 1 .. n
      PROVE  /\ rows[f] \in Seq(Calls) /\ Len(rows[f]) = m
             /\ \A k \in 1 .. m : rows[f][k] = FieldCall(output[f], k)
  <2>1. PICK row : row = rows[f] /\ row = [k \in 1 .. m |-> FieldCall(output[f], k)]
    BY <1>1, <1>4 DEF FieldCalls, FieldCall
  <2>2. row \in [1 .. m -> Calls]
    BY <1>3, <2>1
  <2>3. row \in Seq(Calls) /\ Len(row) = m
    BY <2>2, SeqDef, LenProperties
  <2> QED BY <2>1, <2>3
<1>6. rows \in [1 .. n -> Seq(Calls)]
  BY <1>4, <1>5
<1>7. AreStarts(starts, rows, n)
  BY <1>1, <1>5 DEF RowStarts, AreStarts
<1>8. PICK flat \in Seq(Calls) :
         flat = FlattenSeq(rows) /\ IsPlaced(flat, rows, starts, n)
  BY <1>6, <1>7, FlattenPlaces
<1>9. PICK total \in Nat : total = starts[n + 1] /\ Len(flat) = total
  <2>1. starts[n + 1] \in Nat
    BY DEF RowStarts
  <2> QED BY <1>8, <2>1 DEF IsPlaced
<1>10. PICK first \in Calls : first = [text |-> FALSE, value |-> n]
  <2>1. [text |-> FALSE, value |-> n] \in Calls
    <3>1. n \in Int
      OBVIOUS
    <3> QED BY <3>1, CallIs
  <2> QED BY <2>1
<1>11. PICK all : all = <<first>> \o flat
  OBVIOUS
<1>12. CallsOf(output) = all
  BY <1>2, <1>4, <1>8, <1>10, <1>11, OutputFacts DEF CallsOf
<1>13. /\ all \in Seq(Calls) /\ Len(all) = 1 + total
       /\ all[1] = first
       /\ \A p \in 1 .. total : all[1 + p] = flat[p]
  <2>1. PICK one : /\ one = <<first>> /\ one \in Seq(Calls) /\ Len(one) = 1
                   /\ one[1] = first
    <3>1. PICK one : one = <<first>>
      OBVIOUS
    <3>2. one \in Seq(Calls) /\ Len(one) = 1 /\ one[1] = first
      BY <3>1
    <3> QED BY <3>1, <3>2
  <2>2. all = one \o flat
    BY <1>11, <2>1
  <2>3. all \in Seq(Calls) /\ Len(all) = 1 + total
    <3>1. one \o flat \in Seq(Calls) /\ Len(one \o flat) = Len(one) + Len(flat)
      BY <2>1, ConcatProperties
    <3> QED BY <1>9, <2>1, <2>2, <3>1
  <2>4. all[1] = first
    BY <1>9, <2>1, <2>2, <2>3
  <2>5. ASSUME NEW p \in 1 .. total
        PROVE  all[1 + p] = flat[p]
    <3>1. 1 + p > 1 /\ 1 + p <= 1 + total /\ (1 + p) - 1 = p
      OBVIOUS
    <3> QED BY <1>9, <2>1, <2>2, <2>3, <3>1
  <2> QED BY <2>3, <2>4, <2>5
<1>14. ASSUME NEW f \in 1 .. n, NEW k \in 1 .. m
       PROVE  /\ starts[f] + k \in 1 .. total
              /\ all[1 + (starts[f] + k)] = FieldCall(output[f], k)
  <2>1. \A l \in 1 .. Len(rows[f]) : /\ starts[f] + l \in 1 .. total
                                     /\ flat[starts[f] + l] = rows[f][l]
    BY <1>8, <1>9 DEF IsPlaced
  <2>2. k \in 1 .. Len(rows[f])
    BY <1>5
  <2>3. PICK p \in 1 .. total : p = starts[f] + k /\ flat[p] = rows[f][k]
    BY <2>1, <2>2
  <2> QED BY <1>5, <1>13, <2>3
<1>15. \A p \in 1 .. total : \E f \in 1 .. n : \E k \in 1 .. m : p = starts[f] + k
  <2> SUFFICES ASSUME NEW p \in 1 .. total
               PROVE  \E f \in 1 .. n : \E k \in 1 .. m : p = starts[f] + k
    OBVIOUS
  <2>1. PICK f \in 1 .. n : \E k \in 1 .. Len(rows[f]) : p = starts[f] + k
    BY <1>8, <1>9 DEF IsPlaced
  <2> QED BY <1>5, <2>1
<1> QED BY <1>1, <1>9, <1>10, <1>12, <1>13, <1>14, <1>15 DEF AreCallsOf

LEMMA RowStartsExist ==
    ASSUME NEW n \in Nat
    PROVE  \E starts : RowStarts(starts, n)
<1>1. PICK m \in Nat : m = Len(Kept)
  BY KeptFacts
<1> DEFINE step == [k \in 1 .. n |-> [d \in Nat |-> d + m]]
<1>2. Steps(step, n, Nat)
  BY DEF Steps
<1>3. PICK f : Iterates(f, n, Nat, 0, step)
  <2> HIDE DEF step
  <2> QED BY <1>2, Recursion
<1>4. PICK starts : starts = [k \in 1 .. n + 1 |-> f[k - 1]]
  OBVIOUS
<1>5. ASSUME NEW k \in 1 .. n
      PROVE  starts[k + 1] = starts[k] + m
  <2>1. f[k] = step[k][f[k - 1]] /\ f[k - 1] \in Nat
    <3> HIDE DEF step
    <3>1. k - 1 \in 0 .. n
      OBVIOUS
    <3> QED BY <1>3, <3>1 DEF Iterates
  <2>2. f[k] = f[k - 1] + m
    BY <2>1
  <2>3. starts[k + 1] = f[k] /\ starts[k] = f[k - 1]
    <3>1. k + 1 \in 1 .. n + 1 /\ (k + 1) - 1 = k /\ k \in 1 .. n + 1
      OBVIOUS
    <3> QED BY <1>4, <3>1
  <2> QED BY <2>2, <2>3
<1>6. starts \in [1 .. n + 1 -> Nat] /\ starts[1] = 0
  <2> HIDE DEF step
  <2>1. \A k \in 1 .. n + 1 : k - 1 \in 0 .. n
    OBVIOUS
  <2>2. 1 \in 1 .. n + 1 /\ 1 - 1 = 0
    OBVIOUS
  <2> QED BY <1>3, <1>4, <2>1, <2>2 DEF Iterates
<1> QED BY <1>1, <1>5, <1>6 DEF RowStarts

\* The bytes that all calls of an output append.
LEMMA BytesOfOutputIs ==
    ASSUME NEW output \in Outputs
    PROVE  /\ CallsOf(output) \in Seq(Calls)
           /\ Len(CallsOf(output)) \in Nat
           /\ CallsOf(output) \in [1 .. Len(CallsOf(output)) -> Calls]
           /\ BytesOfOutput[output] = FlattenSeq(
                [k \in 1 .. Len(CallsOf(output)) |-> BytesOf(CallsOf(output)[k])])
           /\ BytesOfOutput[output] \in Seq(Bytes)
<1>1. PICK n \in Nat : n = Len(output)
  BY OutputFacts
<1>2. PICK starts : RowStarts(starts, n)
  BY RowStartsExist
<1>3. PICK c \in Seq(Calls) : c = CallsOf(output)
  BY <1>1, <1>2, CallsFacts DEF AreCallsOf
<1>4. PICK m \in Nat : m = Len(c) /\ DOMAIN c = 1 .. m /\ c \in [1 .. m -> Calls]
  BY LenProperties
<1>5. PICK seqs : seqs = [k \in 1 .. m |-> BytesOf(c[k])]
  OBVIOUS
<1>6. seqs \in [1 .. m -> Seq(Bytes)]
  <2>1. ASSUME NEW k \in 1 .. m
        PROVE  BytesOf(c[k]) \in Seq(Bytes)
    <3>1. c[k] \in Calls
      BY <1>4
    <3> QED BY <3>1, BytesOfIs
  <2> QED BY <1>5, <2>1
<1>7. FlattenSeq(seqs) \in Seq(Bytes)
  BY <1>6, StartsExist, FlattenPlaces
<1>8. BytesOfOutput[output] = FlattenSeq(seqs)
  BY <1>3, <1>4, <1>5 DEF BytesOfOutput
<1> QED BY <1>3, <1>4, <1>5, <1>7, <1>8

\* No output's bytes begin with those of another.
LEMMA NoneBegins ==
    ASSUME NEW x \in Outputs, NEW y \in Outputs,
           IsPrefix(BytesOfOutput[x], BytesOfOutput[y])
    PROVE  x = y
<1>1. PICK p \in Seq(Bytes), q \in Seq(Bytes) :
         p = BytesOfOutput[x] /\ q = BytesOfOutput[y]
  BY BytesOfOutputIs
<1>2. Agree(p, q)
  <2> SUFFICES ASSUME NEW i \in Nat, i > 0, i <= Len(p), i <= Len(q)
               PROVE  p[i] = q[i]
    BY DEF Agree
  <2>1. PICK l \in Nat : l = Len(p) /\ l <= Len(q) /\ Len(q) \in Nat
    BY <1>1, LenProperties DEF IsPrefix
  <2>2. PICK s, t : /\ s = SubSeq(p, 1, l) /\ t = SubSeq(q, 1, l) /\ s = t
    BY <1>1, <2>1 DEF IsPrefix
  <2>3. i \in 1 .. l
    BY <2>1
  <2>4. s[i] = p[i] /\ t[i] = q[i]
    BY <2>1, <2>2, <2>3
  <2> QED BY <2>2, <2>4
<1>3. PICK c \in Seq(Calls), m \in Nat :
         /\ c \in [1 .. m -> Calls] /\ c = CallsOf(x) /\ m = Len(c)
         /\ Appends(p, c, m)
  <2>1. PICK c \in Seq(Calls) : c = CallsOf(x)
    BY BytesOfOutputIs
  <2>2. PICK m \in Nat : m = Len(c)
    BY LenProperties
  <2>3. c \in [1 .. m -> Calls]
    BY <2>1, <2>2, BytesOfOutputIs
  <2>4. Appends(p, c, m)
    BY <1>1, <2>1, <2>2, BytesOfOutputIs DEF Appends
  <2> QED BY <2>1, <2>2, <2>3, <2>4
<1>4. PICK d \in Seq(Calls), n \in Nat :
         /\ d \in [1 .. n -> Calls] /\ d = CallsOf(y) /\ n = Len(d)
         /\ Appends(q, d, n)
  <2>1. PICK d \in Seq(Calls) : d = CallsOf(y)
    BY BytesOfOutputIs
  <2>2. PICK n \in Nat : n = Len(d)
    BY LenProperties
  <2>3. d \in [1 .. n -> Calls]
    BY <2>1, <2>2, BytesOfOutputIs
  <2>4. Appends(q, d, n)
    BY <1>1, <2>1, <2>2, BytesOfOutputIs DEF Appends
  <2> QED BY <2>1, <2>2, <2>3, <2>4
<1>5. ASSUME NEW bound \in Nat, bound <= m, bound <= n, SameKinds(c, d, bound)
      PROVE  \A k \in 1 .. bound : SameCall(c[k], d[k])
  BY <1>2, <1>3, <1>4, <1>5, SameCalls
<1>6. PICK u \in Nat :
         /\ u = Len(x) /\ u < NumberRange
         /\ DOMAIN x = 1 .. u
         /\ x = [i \in 1 .. u |-> [f \in ToSet(Kept) |-> x[i][f]]]
         /\ \A i \in 1 .. u, f \in ToSet(Kept) : CanBe(x[i][f], f)
  BY OutputFacts
<1>7. PICK v \in Nat :
         /\ v = Len(y) /\ v < NumberRange
         /\ DOMAIN y = 1 .. v
         /\ y = [i \in 1 .. v |-> [f \in ToSet(Kept) |-> y[i][f]]]
         /\ \A i \in 1 .. v, f \in ToSet(Kept) : CanBe(y[i][f], f)
  BY OutputFacts
<1>8. /\ m >= 1 /\ c[1] = [text |-> FALSE, value |-> u]
      /\ n >= 1 /\ d[1] = [text |-> FALSE, value |-> v]
  <2>1. PICK starts : RowStarts(starts, u)
    BY RowStartsExist
  <2>2. PICK ends : RowStarts(ends, v)
    BY RowStartsExist
  <2>3. /\ m = 1 + starts[u + 1] /\ starts[u + 1] \in Nat
        /\ c[1] = [text |-> FALSE, value |-> u]
    BY <1>3, <1>6, <2>1, CallsFacts DEF AreCallsOf
  <2>4. /\ n = 1 + ends[v + 1] /\ ends[v + 1] \in Nat
        /\ d[1] = [text |-> FALSE, value |-> v]
    BY <1>4, <1>7, <2>2, CallsFacts DEF AreCallsOf
  <2> QED BY <2>3, <2>4
<1>9. u = v
  <2>1. c[1].text = d[1].text
    <3>1. c[1].text = FALSE /\ d[1].text = FALSE
      BY <1>8
    <3> QED BY <3>1
  <2>2. SameCall(c[1], d[1])
    <3>1. PICK one \in Nat : one = 1 /\ one <= m /\ one <= n /\ one \in 1 .. one
      BY <1>8
    <3>2. \A k \in 1 .. one : SameCall(c[k], d[k])
      BY <1>5, <2>1, <3>1 DEF SameKinds
    <3> QED BY <3>1, <3>2
  <2>3. u % NumberRange = v % NumberRange
    BY <1>8, <2>2 DEF SameCall
  <2>4. PICK r \in Nat : r = NumberRange /\ r > 0
    BY RangeFacts
  <2>5. u % r = u /\ v % r = v
    <3>1. \A k \in 0 .. r - 1 : k % r = k
      OBVIOUS
    <3>2. u \in 0 .. r - 1 /\ v \in 0 .. r - 1
      BY <1>6, <1>7, <2>4
    <3> QED BY <3>1, <3>2
  <2> QED BY <2>3, <2>4, <2>5
<1>10. PICK starts : RowStarts(starts, u)
  BY RowStartsExist
<1>11. PICK w \in Nat : w = Len(Kept)
  BY KeptFacts
<1>12. PICK total \in Nat :
         /\ total = starts[u + 1] /\ m = 1 + total /\ n = 1 + total
         /\ \A f \in 1 .. u : \A k \in 1 .. w :
              /\ starts[f] + k \in 1 .. total
              /\ c[1 + (starts[f] + k)] = FieldCall(x[f], k)
              /\ d[1 + (starts[f] + k)] = FieldCall(y[f], k)
         /\ \A i \in 1 .. total : \E f \in 1 .. u : \E k \in 1 .. w : i = starts[f] + k
  <2>1. /\ starts[u + 1] \in Nat /\ m = 1 + starts[u + 1]
        /\ \A f \in 1 .. u : \A k \in 1 .. w :
             /\ starts[f] + k \in 1 .. starts[u + 1]
             /\ c[1 + (starts[f] + k)] = FieldCall(x[f], k)
        /\ \A i \in 1 .. starts[u + 1] :
             \E f \in 1 .. u : \E k \in 1 .. w : i = starts[f] + k
    <3>1. /\ starts[u + 1] \in Nat /\ m = 1 + starts[u + 1]
          /\ \A f \in 1 .. u : \A k \in 1 .. Len(Kept) :
               /\ starts[f] + k \in 1 .. starts[u + 1]
               /\ CallsOf(x)[1 + (starts[f] + k)] = FieldCall(x[f], k)
          /\ \A i \in 1 .. starts[u + 1] :
               \E f \in 1 .. u : \E k \in 1 .. Len(Kept) : i = starts[f] + k
      <4>1. AreCallsOf(CallsOf(x), x, u, starts)
        BY <1>6, <1>10, CallsFacts
      <4> QED BY <1>3, <4>1 DEF AreCallsOf
    <3> QED BY <1>3, <1>11, <3>1
  <2>2. /\ n = 1 + starts[u + 1]
        /\ \A f \in 1 .. u : \A k \in 1 .. w :
             d[1 + (starts[f] + k)] = FieldCall(y[f], k)
    <3>1. /\ n = 1 + starts[u + 1]
          /\ \A f \in 1 .. u : \A k \in 1 .. Len(Kept) :
               CallsOf(y)[1 + (starts[f] + k)] = FieldCall(y[f], k)
      <4>1. AreCallsOf(CallsOf(y), y, u, starts)
        BY <1>7, <1>9, <1>10, CallsFacts
      <4> QED BY <1>4, <4>1 DEF AreCallsOf
    <3> QED BY <1>4, <1>11, <3>1
  <2> QED BY <2>1, <2>2
<1>13. ASSUME NEW k \in 1 .. m
       PROVE  c[k].text = d[k].text
  <2>1. CASE k = 1
    <3>1. /\ c[k] = [text |-> FALSE, value |-> u]
          /\ d[k] = [text |-> FALSE, value |-> v]
      BY <1>8, <2>1
    <3> QED BY <3>1
  <2>2. CASE k # 1
    <3>1. PICK i \in 1 .. total : k = 1 + i
      <4>1. k - 1 \in 1 .. total /\ k = 1 + (k - 1)
        BY <1>12, <2>2
      <4> QED BY <4>1
    <3>2. PICK f \in 1 .. u : \E j \in 1 .. w : i = starts[f] + j
      BY <1>12
    <3>3. PICK j \in 1 .. w : i = starts[f] + j
      BY <3>2
    <3>4. c[k] = FieldCall(x[f], j) /\ d[k] = FieldCall(y[f], j)
      BY <1>12, <3>1, <3>3
    <3> QED BY <3>4 DEF FieldCall
  <2> QED BY <2>1, <2>2
<1>14. \A k \in 1 .. m : SameCall(c[k], d[k])
  <2>1. m <= n /\ m <= m
    BY <1>12
  <2>2. SameKinds(c, d, m)
    BY <1>13 DEF SameKinds
  <2> QED BY <1>5, <2>1, <2>2
<1>15. ASSUME NEW i \in 1 .. u
       PROVE  [f \in ToSet(Kept) |-> x[i][f]] = [f \in ToSet(Kept) |-> y[i][f]]
  <2>1. ASSUME NEW f \in ToSet(Kept)
        PROVE  x[i][f] = y[i][f]
    <3>1. PICK k \in 1 .. w : f = Kept[k]
      BY <1>11, KeptFacts
    <3>2. PICK s, t : s = x[i] /\ t = y[i]
      OBVIOUS
    <3>3. SameCall(FieldCall(s, k), FieldCall(t, k))
      <4>1. PICK j \in 1 .. total : j = starts[i] + k
        BY <1>12
      <4>2. PICK l \in 1 .. m : l = 1 + j
        BY <1>12
      <4>3. c[l] = FieldCall(s, k) /\ d[l] = FieldCall(t, k)
        BY <1>12, <3>2, <4>1, <4>2
      <4> QED BY <1>14, <4>3
    <3>4. CanBe(s[Kept[k]], Kept[k]) /\ CanBe(t[Kept[k]], Kept[k])
      BY <1>6, <1>7, <1>9, <3>1, <3>2
    <3>5. k \in 1 .. Len(Kept)
      BY <1>11
    <3>6. s[Kept[k]] = t[Kept[k]]
      BY <3>3, <3>4, <3>5, SameField
    <3> QED BY <3>1, <3>2, <3>6
  <2> QED BY <2>1
<1> QED BY <1>6, <1>7, <1>9, <1>15

-----------------------------------------------------------------------------
(* The checksum of an output.                                             *)

\* What went in are the bytes of the calls made so far.
ChecksumInv ==
    /\ records \in Outputs
    /\ \E done \in 0 .. Len(CallsOf(records)) :
         /\ calls = SubSeq(CallsOf(records), done + 1, Len(CallsOf(records)))
         /\ Appends(appended, CallsOf(records), done)
    /\ appended \in Seq(Bytes)
    /\ state = FoldLeft(AppendByte, Offset, appended)

LEMMA OffsetIsHash == Offset \in Hashes
  BY HashAssumption

LEMMA HashNothing == FoldLeft(AppendByte, Offset, <<>>) = Offset
<1>1. PICK bytes \in Seq(Bytes) : bytes = <<>> /\ Len(bytes) = 0
  <2>1. <<>> \in Seq(Bytes) /\ Len(<<>>) = 0
    OBVIOUS
  <2> QED BY <2>1
<1>2. PICK st : /\ IsHashing(st, Offset, bytes)
                /\ FoldLeft(AppendByte, Offset, bytes) = st[Len(bytes)]
  BY OffsetIsHash, HashSteps
<1>3. st[0] = Offset
  BY <1>2 DEF IsHashing
<1> QED BY <1>1, <1>2, <1>3

LEMMA ChecksumStarts == ChecksumInit => ChecksumInv
<1> SUFFICES ASSUME ChecksumInit PROVE ChecksumInv
  OBVIOUS
<1>1. records \in Outputs /\ calls = CallsOf(records) /\ state = Offset /\ appended = <<>>
  BY DEF ChecksumInit
<1>2. PICK c \in Seq(Calls) : c = CallsOf(records) /\ Len(c) \in Nat
  BY <1>1, BytesOfOutputIs
<1>3. SubSeq(c, 1, Len(c)) = c
  BY SubSeqFull
<1>4. Appends(<<>>, c, 0)
  <2>1. [k \in 1 .. 0 |-> BytesOf(c[k])] = <<>>
    OBVIOUS
  <2> QED BY <2>1, FlattenNone DEF Appends
<1>5. \E done \in 0 .. Len(c) : /\ calls = SubSeq(c, done + 1, Len(c))
                                /\ Appends(appended, c, done)
  <2>1. 0 \in 0 .. Len(c) /\ 0 + 1 = 1
    BY <1>2
  <2> QED BY <1>1, <1>2, <1>3, <1>4, <2>1
<1>6. appended \in Seq(Bytes)
  BY <1>1
<1> QED BY <1>1, <1>2, <1>5, <1>6, HashNothing DEF ChecksumInv

LEMMA ChecksumGoesOn == ChecksumInv /\ [ChecksumNext]_checksumVars => ChecksumInv'
<1> SUFFICES ASSUME ChecksumInv, [ChecksumNext]_checksumVars
             PROVE  ChecksumInv'
  OBVIOUS
<1>1. CASE UNCHANGED checksumVars
  BY <1>1 DEF ChecksumInv, checksumVars
<1>2. CASE ChecksumAppend
  <2>1. /\ calls # <<>> /\ calls' = Tail(calls) /\ records' = records
        /\ state' = FoldLeft(AppendByte, state, BytesOf(Head(calls)))
        /\ appended' = appended \o BytesOf(Head(calls))
    BY <1>2 DEF ChecksumAppend
  <2>2. PICK c \in Seq(Calls), m \in Nat :
           c = CallsOf(records) /\ m = Len(c) /\ c \in [1 .. m -> Calls]
    BY BytesOfOutputIs DEF ChecksumInv
  <2>3. PICK done \in 0 .. m :
           calls = SubSeq(c, done + 1, m) /\ Appends(appended, c, done)
    BY <2>2 DEF ChecksumInv
  <2>4. done < m
    <3>1. done = m => SubSeq(c, done + 1, m) = <<>>
      BY SubSeqEmpty
    <3> QED BY <2>1, <2>3, <3>1
  <2>5. PICK j \in Nat : j = done + 1 /\ j \in 1 .. m /\ done \in Nat
    BY <2>4
  <2>6. Head(calls) = c[j] /\ Tail(calls) = SubSeq(c, j + 1, m)
    <3>1. m \in j .. Len(c) /\ j \in 1 .. Len(c)
      BY <2>2, <2>5
    <3> QED BY <2>3, <2>5, <3>1, HeadTailOfSubSeq
  <2>7. PICK v \in Seq(Bytes) : v = BytesOf(c[j])
    <3>1. c[j] \in Calls
      BY <2>2, <2>5
    <3> QED BY <3>1, BytesOfIs
  <2>8. PICK s \in Seq(Bytes), t \in Seq(Bytes) : s = appended /\ t = s \o v
    <3>1. PICK s \in Seq(Bytes) : s = appended
      BY DEF ChecksumInv
    <3>2. s \o v \in Seq(Bytes)
      BY ConcatProperties
    <3> QED BY <3>1, <3>2
  <2>9. Appends(t, c, j)
    <3>1. PICK seqs : seqs = [k \in 1 .. done + 1 |-> BytesOf(c[k])]
      OBVIOUS
    <3>2. seqs \in [1 .. done + 1 -> Seq(Bytes)]
      <4>1. ASSUME NEW k \in 1 .. done + 1
            PROVE  BytesOf(c[k]) \in Seq(Bytes)
        <5>1. c[k] \in Calls
          BY <2>2, <2>4, <2>5
        <5> QED BY <5>1, BytesOfIs
      <4> QED BY <3>1, <4>1
    <3>3. FlattenSeq(seqs) = FlattenSeq([k \in 1 .. done |-> seqs[k]]) \o seqs[done + 1]
      BY <2>5, <3>2, FlattenNext
    <3>4. [k \in 1 .. done |-> seqs[k]] = [k \in 1 .. done |-> BytesOf(c[k])]
      BY <2>5, <3>1
    <3>5. seqs[done + 1] = v
      BY <2>5, <2>7, <3>1
    <3>6. s = FlattenSeq([k \in 1 .. done |-> BytesOf(c[k])])
      BY <2>3, <2>8 DEF Appends
    <3>7. FlattenSeq(seqs) = t
      BY <2>8, <3>3, <3>4, <3>5, <3>6
    <3> QED BY <2>5, <3>1, <3>7 DEF Appends
  <2>10. state' = FoldLeft(AppendByte, Offset, t) /\ appended' = t
    <3>1. FoldLeft(AppendByte, FoldLeft(AppendByte, Offset, s), v)
            = FoldLeft(AppendByte, Offset, s \o v)
      BY OffsetIsHash, HashConcat
    <3>2. state = FoldLeft(AppendByte, Offset, s)
      BY <2>8 DEF ChecksumInv
    <3>3. state' = FoldLeft(AppendByte, state, v) /\ appended' = s \o v
      BY <2>1, <2>6, <2>7, <2>8
    <3> QED BY <2>8, <3>1, <3>2, <3>3
  <2>11. \E some \in 0 .. Len(c) : /\ calls' = SubSeq(c, some + 1, Len(c))
                                   /\ Appends(appended', c, some)
    <3>1. j \in 0 .. Len(c)
      BY <2>2, <2>5
    <3> QED BY <2>1, <2>2, <2>6, <2>9, <2>10, <3>1
  <2>12. records' \in Outputs /\ CallsOf(records') = c
    BY <2>1, <2>2 DEF ChecksumInv
  <2> QED BY <2>8, <2>10, <2>11, <2>12 DEF ChecksumInv
<1> QED BY <1>1, <1>2 DEF ChecksumNext, ChecksumDone

LEMMA ChecksumInvariant == ChecksumSpec => []ChecksumInv
  BY ChecksumStarts, ChecksumGoesOn, PTL DEF ChecksumSpec

\* At the end all bytes of the output went in.
LEMMA WhenAllIsIn ==
    ASSUME ChecksumInv, calls = <<>>
    PROVE  /\ records \in Outputs
           /\ appended = BytesOfOutput[records] /\ appended \in Seq(Bytes)
           /\ state = FoldLeft(AppendByte, Offset, appended)
<1>1. PICK c \in Seq(Calls), m \in Nat :
         /\ c = CallsOf(records) /\ m = Len(c)
         /\ BytesOfOutput[records] = FlattenSeq([k \in 1 .. m |-> BytesOf(c[k])])
  <2>1. records \in Outputs
    BY DEF ChecksumInv
  <2>2. PICK c \in Seq(Calls) : c = CallsOf(records)
    BY <2>1, BytesOfOutputIs
  <2>3. PICK m \in Nat : m = Len(c)
    BY LenProperties
  <2> QED BY <2>1, <2>2, <2>3, BytesOfOutputIs
<1>2. PICK done \in 0 .. m :
         calls = SubSeq(c, done + 1, m) /\ Appends(appended, c, done)
  BY <1>1 DEF ChecksumInv
<1>3. done = m
  <2>1. \A k \in done + 1 .. m : c[k] \in Calls
    BY <1>1, ElementOfSeq
  <2>2. done < m => Len(SubSeq(c, done + 1, m)) = m - (done + 1) + 1
    BY <2>1, SubSeqProperties
  <2>3. Len(calls) = 0
    OBVIOUS
  <2> QED BY <1>2, <2>2, <2>3
<1>4. appended = BytesOfOutput[records]
  BY <1>1, <1>2, <1>3 DEF Appends
<1> QED BY <1>4 DEF ChecksumInv

\* Different outputs are hashed from different bytes, neither the beginning of
\* the other: where one field ends and the next begins is never in doubt.
THEOREM OutputsApart == ChecksumSpec => []OutputsAreToldApart
<1>1. ChecksumInv => OutputsAreToldApart
  <2> SUFFICES ASSUME ChecksumInv, calls = <<>>, NEW other \in Outputs \ {records},
                      IsPrefix(appended, BytesOfOutput[other])
               PROVE  FALSE
    BY DEF OutputsAreToldApart
  <2>1. records \in Outputs /\ appended = BytesOfOutput[records]
    BY WhenAllIsIn
  <2>2. other \in Outputs /\ other # records
    OBVIOUS
  <2> QED BY <2>1, <2>2, NoneBegins
<1> QED BY <1>1, ChecksumInvariant, PTL

\* FNV-1a never gives two outputs that differ in one byte the same checksum.
THEOREM DifferenceShows == ChecksumSpec => []OneDifferenceShows
<1>1. ChecksumInv => OneDifferenceShows
  <2> SUFFICES ASSUME ChecksumInv, calls = <<>>, NEW other \in Outputs,
                      Len(BytesOfOutput[other]) = Len(appended),
                      Cardinality({i \in DOMAIN BytesOfOutput[other] :
                                     BytesOfOutput[other][i] # appended[i]}) = 1
               PROVE  ChecksumRecords[other] # state
    BY DEF OneDifferenceShows
  <2>1. PICK s \in Seq(Bytes) : s = BytesOfOutput[other]
    BY BytesOfOutputIs
  <2>2. PICK t \in Seq(Bytes) : t = appended
    BY WhenAllIsIn
  <2>3. Len(s) = Len(t) /\ Cardinality({i \in DOMAIN s : s[i] # t[i]}) = 1
    BY <2>1, <2>2
  <2>4. FoldLeft(AppendByte, Offset, s) # FoldLeft(AppendByte, Offset, t)
    BY <2>3, OffsetIsHash, OneByteShows
  <2>5. ChecksumRecords[other] = FoldLeft(AppendByte, Offset, s)
    BY <2>1 DEF ChecksumRecords
  <2>6. state = FoldLeft(AppendByte, Offset, t)
    BY <2>2, WhenAllIsIn
  <2> QED BY <2>4, <2>5, <2>6
<1> QED BY <1>1, ChecksumInvariant, PTL
=============================================================================
