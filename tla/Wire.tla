-------------------------------- MODULE Wire ---------------------------------
(* common/src/wire.cpp: the encoding of records and frames, and the two    *)
(* decoders, which move one cursor over bytes they know nothing about.     *)
(*                                                                         *)
(* Sizes are parameters, so that truncation at every byte and numbers too  *)
(* large for their field happen in small instances.  The numbers that are  *)
(* only copied (the sequence number, the doubles) stay bytes.              *)
EXTENDS ByteRules

CONSTANTS
    SequenceSize,   \* sizeof(std::uint64_t)
    LengthSize,     \* sizeof(std::uint32_t)
    DoubleSize,     \* sizeof(double)
    WordSize,       \* std::size_t is an integer modulo WordSize
    Fields,         \* the kinds of a record's fields, in their order
    MaxMessage,     \* decode_frames' max_message_size
    Nullopt,        \* an empty std::optional<double>
    Jobs            \* what is decoded

(* A job is a record or a stream of frames; EncodedAssumption says what it  *)
(* tells of where its bytes are from.                                       *)
ASSUME WireAssumption ==
    /\ {WordSize, LengthSize, DoubleSize, SequenceSize} \subseteq Nat \ {0}
    /\ MaxMessage \in Nat
    /\ Fields \in Seq({"sequence", "string", "money"})
    /\ Nullopt \notin Seq(Bytes)
    /\ \A job \in Jobs :
         /\ job.kind \in {"record", "frames"}
         /\ job.bytes \in Seq(Bytes)
         /\ Len(job.bytes) < WordSize

VARIABLES
    job,
    offset,     \* the cursor
    field,      \* how many fields of the record were read
    result,     \* the fields, or the payloads, read so far
    verdict     \* "reading", "ok" or the WireError

vars == <<job, offset, field, result, verdict>>

-----------------------------------------------------------------------------
(* Encoding.                                                               *)

AppendString(text) == Digits(Len(text), LengthSize) \o text

AppendMoney(money) ==
    IF money = Nullopt THEN <<0>> \o [k \in 1 .. DoubleSize |-> 0]
                       ELSE <<1>> \o money

EncodeField(kind, value) ==
    CASE kind = "sequence" -> value
      [] kind = "string"   -> AppendString(value)
      [] kind = "money"    -> AppendMoney(value)

EncodeRecord(values) ==
    FlattenSeq([f \in DOMAIN Fields |-> EncodeField(Fields[f], values[f])])

FramePayload(payload) == Digits(Len(payload), LengthSize) \o payload

\* What a field of a record may be.
Encodable(kind) ==
    CASE kind = "sequence" -> [1 .. SequenceSize -> Bytes]
      [] kind = "string"   -> Seq(Bytes)
      [] kind = "money"    -> [1 .. DoubleSize -> Bytes] \cup {Nullopt}

Encoded(kind, meant) ==
    IF kind = "record" THEN EncodeRecord(meant)
    ELSE FlattenSeq([k \in DOMAIN meant |-> FramePayload(meant[k])])

\* Some bytes are missing at the end, or there are more of them.
IsDamaged(bytes, whole, damage) ==
    /\ Len(bytes) = Len(whole) + damage
    /\ \A k \in DOMAIN bytes \cap DOMAIN whole : bytes[k] = whole[k]

(* "meant" is what the bytes of a job were encoded from, if they were, and  *)
(* "damage" how many bytes were added to them or, if negative, cut off.     *)
ASSUME EncodedAssumption ==
    \A j \in Jobs : \A meant \in j.meant :
        /\ IF j.kind = "record"
             THEN /\ meant = [f \in DOMAIN Fields |-> meant[f]]
                  /\ \A f \in DOMAIN Fields : meant[f] \in Encodable(Fields[f])
             ELSE meant \in Seq(Seq(Bytes))
        /\ j.damage \in Int
        /\ IsDamaged(j.bytes, Encoded(j.kind, meant), j.damage)

-----------------------------------------------------------------------------
(* Decoding.                                                               *)

Init ==
    /\ job \in Jobs
    /\ offset = 0
    /\ field = 0
    /\ result = <<>>
    /\ verdict = "reading"

Reading(kind) == verdict = "reading" /\ job.kind = kind

\* bytes.size() - offset, unsigned.
Remaining(cursor) == (Len(job.bytes) - cursor) % WordSize

\* The bytes at the cursor; there is no saying what lies beyond the end.
Taken(cursor, width) ==
    [k \in 1 .. width |-> IF cursor + k \in DOMAIN job.bytes
                            THEN job.bytes[cursor + k] ELSE 0]

\* An error, noticed with the cursor where it is then.
Fail(error, cursor) ==
    /\ verdict' = error
    /\ offset' = cursor
    /\ UNCHANGED <<job, field, result>>

\* A value was read, up to the cursor.
Got(value, cursor) ==
    /\ result' = Append(result, value)
    /\ field' = field + 1
    /\ offset' = cursor
    /\ UNCHANGED <<job, verdict>>

\* The next field of the record to read.
Expects(kind) ==
    /\ Reading("record")
    /\ field < Len(Fields)
    /\ Fields[field + 1] = kind

ReadSequence ==
    /\ Expects("sequence")
    /\ IF Remaining(offset) < SequenceSize THEN Fail("truncated", offset)
       ELSE Got(Taken(offset, SequenceSize), offset + SequenceSize)

\* Mutant (as all names with an underscore inside, the next definition with a
\* plausible bug): the end of the string is compared, which may wrap round.
TooLong_BySum(length, cursor) == (cursor + length) % WordSize > Len(job.bytes)

\* Is there less left than a length announces?
TooLong(length, cursor) == length > Remaining(cursor)

\* read_string
ReadString ==
    /\ Expects("string")
    /\ LET length == Number(Taken(offset, LengthSize))
           text == offset + LengthSize
       IN  IF Remaining(offset) < LengthSize THEN Fail("truncated", offset)
           ELSE IF TooLong(length, text) THEN Fail("truncated", text)
           ELSE Got(Taken(text, length), text + length)

\* Mutant: the presence byte is not checked.
ReadMoney_AnyFlag ==
    /\ Expects("money")
    /\ LET present == Taken(offset, 1)[1]
           value == offset + 1
       IN  IF Remaining(offset) < 1 THEN Fail("truncated", offset)
           ELSE IF Remaining(value) < DoubleSize THEN Fail("truncated", value)
           ELSE Got(IF present # 0 THEN Taken(value, DoubleSize) ELSE Nullopt,
                    value + DoubleSize)

\* read_money: the value is read before the presence byte is judged.
ReadMoney ==
    /\ Expects("money")
    /\ LET present == Taken(offset, 1)[1]
           value == offset + 1
       IN  IF Remaining(offset) < 1 THEN Fail("truncated", offset)
           ELSE IF Remaining(value) < DoubleSize THEN Fail("truncated", value)
           ELSE IF present > 1 THEN Fail("invalid_number", value + DoubleSize)
           ELSE Got(IF present = 1 THEN Taken(value, DoubleSize) ELSE Nullopt,
                    value + DoubleSize)

\* Mutant: bytes behind the last field are ignored.
EndOfRecord_Lenient ==
    /\ Reading("record")
    /\ field = Len(Fields)
    /\ verdict' = "ok"
    /\ UNCHANGED <<job, offset, field, result>>

EndOfRecord ==
    /\ Reading("record")
    /\ field = Len(Fields)
    /\ verdict' = IF offset # Len(job.bytes) THEN "trailing_bytes" ELSE "ok"
    /\ UNCHANGED <<job, offset, field, result>>

\* Mutant: an empty frame is skipped before the cursor moves past it.
ReadFrame_SkipEmpty ==
    /\ Reading("frames")
    /\ offset < Len(job.bytes)
    /\ LET length == Number(Taken(offset, LengthSize))
           payload == offset + LengthSize
       IN  IF Remaining(offset) < LengthSize THEN Fail("truncated", offset)
           ELSE IF length > MaxMessage THEN Fail("invalid_length", payload)
           ELSE IF length = 0 THEN UNCHANGED vars
           ELSE IF TooLong(length, payload) THEN Fail("truncated", payload)
           ELSE Got(Taken(payload, length), payload + length)

\* decode_frames: one turn of its loop, and its end.
ReadFrame ==
    /\ Reading("frames")
    /\ offset < Len(job.bytes)
    /\ LET length == Number(Taken(offset, LengthSize))
           payload == offset + LengthSize
       IN  IF Remaining(offset) < LengthSize THEN Fail("truncated", offset)
           ELSE IF length > MaxMessage THEN Fail("invalid_length", payload)
           ELSE IF TooLong(length, payload) THEN Fail("truncated", payload)
           ELSE Got(Taken(payload, length), payload + length)

EndOfFrames ==
    /\ Reading("frames")
    /\ offset >= Len(job.bytes)
    /\ verdict' = "ok"
    /\ UNCHANGED <<job, offset, field, result>>

\* The decoder has returned; without this the end would be a deadlock.
Done == verdict # "reading" /\ UNCHANGED vars

Next ==
    \/ ReadSequence \/ ReadString \/ ReadMoney \/ EndOfRecord
    \/ ReadFrame \/ EndOfFrames \/ Done

Spec == Init /\ [][Next]_vars /\ WF_vars(Next)

-----------------------------------------------------------------------------
\* The cursor never leaves the bytes, so no unsigned subtraction wraps and
\* nothing beyond the end is ever read, whatever the bytes say.
CursorInside ==
    /\ offset \in 0 .. Len(job.bytes)
    /\ job.kind = "record" /\ verdict = "ok" => offset = Len(job.bytes)

\* A string, or a payload, whose length fits its field.
Fits(value) == Len(value) < Capacity(LengthSize)

\* No string is too long for its field, no payload for its or for the decoder.
AllFit(meant) ==
    IF job.kind = "record"
      THEN \A f \in DOMAIN Fields : Fields[f] = "string" => Fits(meant[f])
      ELSE \A k \in DOMAIN meant : Fits(meant[k]) /\ Len(meant[k]) <= MaxMessage

\* What was encoded is what is decoded; whatever is added to a record is
\* reported as trailing, and whatever is cut off, at any byte, as truncated.
\* Of frames that lost their end those before it are accepted only if the cut
\* fell between two of them.
DamageIsNoticed ==
    verdict # "reading" =>
        \A meant \in job.meant :
            AllFit(meant) =>
                /\ job.damage = 0 => verdict = "ok" /\ result = meant
                /\ job.kind = "record" /\ job.damage > 0 => verdict = "trailing_bytes"
                /\ job.kind = "record" /\ job.damage < 0 => verdict = "truncated"
                /\ job.kind = "frames" /\ job.damage < 0 =>
                     /\ IsStrictPrefix(result, meant)
                     /\ verdict = "ok" => offset = Len(job.bytes)

\* A payload is accepted only if it is the encoding of the record it is
\* decoded to, up to the bytes of an amount that is not there: nothing in the
\* input is skipped and nothing in the record made up.
AcceptsOnlyEncodings ==
    job.kind = "record" /\ verdict = "ok" =>
        LET again == EncodeRecord(result)
            Start(f) == Len(FlattenSeq([g \in 1 .. f - 1 |->
                                EncodeField(Fields[g], result[g])]))
            absent == UNION {Start(f) + 2 .. Start(f) + 1 + DoubleSize :
                             f \in {f \in DOMAIN Fields :
                                    Fields[f] = "money" /\ result[f] = Nullopt}}
        IN  /\ Len(again) = Len(job.bytes)
            /\ \A k \in DOMAIN again \ absent : again[k] = job.bytes[k]

\* Every decoding ends: each step consumes something or ends it.
DecoderEnds == <>(verdict # "reading")
=============================================================================
