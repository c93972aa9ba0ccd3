------------------------------- MODULE MCWire --------------------------------
(* Decoding jobs for TLC.                                                  *)
EXTENDS Wire

MCFields == <<"sequence", "string", "money">>
MCRadix == 4
MCWordSize == 9     \* bound: size_t; a sum just beyond the bytes wraps round

MaxBytes == 7       \* bound: the length of arbitrary bytes
MaxText == 2        \* bound: the length of an encoded string
Few == {0, 1, 3}    \* bound: the bytes of an encoded value

Of(n) == [1 .. n -> Few]
Short == UNION {Of(n) : n \in 0 .. MaxText}

\* Any bytes, taken for a record or for frames.
AnyBytes ==
    [kind : {"record", "frames"}, meant : {{}}, damage : {0},
     bytes : UNION {[1 .. n -> Bytes] : n \in 0 .. MaxBytes}]

\* A record, whole or with its end cut off or something added.
Values == {<<s, t, m>> : s \in Of(SequenceSize), t \in Short,
                         m \in Of(DoubleSize) \cup {Nullopt}}

Damaged(bytes, damage) ==
    IF damage < 0 THEN SubSeq(bytes, 1, Len(bytes) + damage)
                  ELSE bytes \o [k \in 1 .. damage |-> 1]

RecordJobs ==
    UNION {{[kind |-> "record", meant |-> {v}, damage |-> d,
             bytes |-> Damaged(EncodeRecord(v), d)] :
                d \in -Len(EncodeRecord(v)) .. 1} : v \in Values}

\* One or two frames, the last one cut; one payload is too large for a frame,
\* and one for the decoder.
Payloads == {<<p>> : p \in Short \cup {<<1, 1, 1, 1>>, <<1, 1, 1>>}}
            \cup {<<p, q>> : p, q \in Short}

FrameJobs ==
    UNION {LET stream == Encoded("frames", ps)
           IN  {[kind |-> "frames", meant |-> {ps}, damage |-> d,
                 bytes |-> Damaged(stream, d)] : d \in -Len(stream) .. 0} :
           ps \in Payloads}

MCJobs == AnyBytes \cup RecordJobs \cup FrameJobs
=============================================================================
