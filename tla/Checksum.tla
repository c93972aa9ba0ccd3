------------------------------- MODULE Checksum -------------------------------
(* src/common/src/checksum.cpp: FNV-1a over the canonical records, by which *)
(* tests and benchmarks compare the solutions.  checksum_append is one step *)
(* per call.  A byte has Radix values, an integer NumberBytes bytes and the *)
(* hash HashRange values; those of the code are 256, 8 and 2^64.            *)
EXTENDS ByteRules

CONSTANTS
    NumberBytes, HashRange,
    Offset, Prime,          \* fnv_offset and fnv_prime
    ByteXor(_, _),          \* the operator ^ on a hash and a byte
    Kept,                   \* the fields the records of this instance have
    Outputs                 \* vectors of canonical records

Hashes == 0 .. HashRange - 1
NumberRange == Capacity(NumberBytes)

\* A prime that is odd has an inverse modulo a power of two.
ASSUME HashAssumption ==
    /\ NumberBytes \in Nat \ {0} /\ HashRange \in Nat \ {0}
    /\ Offset \in Hashes /\ Prime \in Hashes
    /\ \E inverse \in Hashes : (Prime * inverse) % HashRange = 1
    /\ \A h \in Hashes, b \in Bytes : ByteXor(h, b) \in Hashes /\ ByteXor(ByteXor(h, b), b) = h
    /\ \A h \in Hashes, b, c \in Bytes : ByteXor(h, b) = ByteXor(h, c) => b = c

\* The fields in the order of the calls; flags and decimals are widened to
\* std::uint64_t, ratios are signed.
FieldOrder ==
    <<"sequence", "company_id", "legal_name", "address", "postal_code",
      "country_code", "country_name", "region", "currency_code",
      "currency_decimals", "industry_code", "industry_name",
      "operating_margin_bp", "net_margin_bp", "current_ratio_bp",
      "debt_to_equity_bp", "return_on_assets_bp", "revenue_growth_bp",
      "profit_growth_bp", "validation_flags", "risk_class">>
TextFields == {"company_id", "legal_name", "address", "postal_code", "country_code",
               "country_name", "region", "currency_code", "industry_code",
               "industry_name", "risk_class"}
RatioFields == {"operating_margin_bp", "net_margin_bp", "current_ratio_bp",
                "debt_to_equity_bp", "return_on_assets_bp", "revenue_growth_bp",
                "profit_growth_bp"}

\* What a field may be: a text whose length an integer holds, or an integer.
CanBe(value, f) ==
    IF f \in TextFields THEN value \in Seq(Bytes) /\ Len(value) < NumberRange
    ELSE LET lowest == IF f \in RatioFields THEN -(NumberRange \div 2) ELSE 0
         IN  value \in lowest .. lowest + NumberRange - 1

ASSUME OutputsAssumption ==
    /\ Kept \in Seq(ToSet(FieldOrder))
    /\ Kept = SelectSeq(FieldOrder, LAMBDA f : f \in ToSet(Kept))
    /\ \A output \in Outputs : \E n \in 0 .. NumberRange - 1 :
         /\ output = [i \in 1 .. n |-> [f \in ToSet(Kept) |-> output[i][f]]]
         /\ \A i \in 1 .. n, f \in ToSet(Kept) : CanBe(output[i][f], f)

VARIABLES
    records,    \* the argument
    calls,      \* arguments of the calls of checksum_append still to come
    state,      \* the running hash
    appended    \* ghost: the bytes that went into it

checksumVars == <<records, calls, state, appended>>

\* std::uint64_t, the lowest byte first; an std::int64_t is cast to one.
NumberBytesOf(value) == Digits(value % NumberRange, NumberBytes)

\* Mutant (as all names with an underscore inside, the next definition with a
\* plausible bug): a text goes in without its length.
BytesOf_NoSize(call) == IF call.text THEN call.value ELSE NumberBytesOf(call.value)

\* The bytes of one call: a text goes in after its length.
BytesOf(call) ==
    IF call.text THEN NumberBytesOf(Len(call.value)) \o call.value
    ELSE NumberBytesOf(call.value)

\* Mutant: the highest bit of a byte is masked.
AppendByte_HalfByte(hash, b) == (ByteXor(hash, b % (Radix \div 2)) * Prime) % HashRange

AppendByte(hash, b) == (ByteXor(hash, b) * Prime) % HashRange

\* What checksum_records appends: the number of records, and their fields.
FieldCalls(record) ==
    [i \in DOMAIN Kept |-> [text |-> Kept[i] \in TextFields, value |-> record[Kept[i]]]]

CallsOf(output) ==
    <<[text |-> FALSE, value |-> Len(output)]>>
        \o FlattenSeq([i \in DOMAIN output |-> FieldCalls(output[i])])

ChecksumInit ==
    /\ records \in Outputs
    /\ calls = CallsOf(records)
    /\ state = Offset
    /\ appended = <<>>

ChecksumAppend ==
    /\ calls # <<>>
    /\ state' = FoldLeft(AppendByte, state, BytesOf(Head(calls)))
    /\ appended' = appended \o BytesOf(Head(calls))
    /\ calls' = Tail(calls)
    /\ UNCHANGED records

\* The hash is returned; without this the end would be a deadlock.
ChecksumDone == calls = <<>> /\ UNCHANGED checksumVars

ChecksumNext == ChecksumAppend \/ ChecksumDone

ChecksumSpec == ChecksumInit /\ [][ChecksumNext]_checksumVars

-----------------------------------------------------------------------------
BytesOfOutput ==
    [output \in Outputs |->
        FlattenSeq([i \in DOMAIN CallsOf(output) |-> BytesOf(CallsOf(output)[i])])]

ChecksumRecords ==
    [output \in Outputs |-> FoldLeft(AppendByte, Offset, BytesOfOutput[output])]

\* Two outputs are hashed from different bytes, and neither from the beginning
\* of the other's: no two of them can agree because of how fields meet, only
\* by a collision of FNV itself.
OutputsAreToldApart ==
    calls = <<>> =>
        \A other \in Outputs \ {records} : ~IsPrefix(appended, BytesOfOutput[other])

\* And a collision takes two differences: outputs whose bytes differ at one
\* place, say in one flag or one character, never have the same checksum.
OneDifferenceShows ==
    calls = <<>> =>
        \A other \in Outputs :
            LET bytes == BytesOfOutput[other]
            IN  /\ Len(bytes) = Len(appended)
                /\ Cardinality({i \in DOMAIN bytes : bytes[i] # appended[i]}) = 1
                => ChecksumRecords[other] # state
=============================================================================
