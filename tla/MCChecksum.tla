------------------------------ MODULE MCChecksum ------------------------------
(* Bytes of two bits, integers of two bytes and a hash of five bits; all    *)
(* outputs of no, one and two records of two texts, flags and a ratio.      *)
EXTENDS Checksum, Bitwise

MCXor(hash, b) == hash ^^ b

MCKept == <<"legal_name", "address", "profit_growth_bp", "validation_flags">>
Short == {<<>>, <<0>>, <<1>>}

Pairs(texts, growths, flags) ==
    [legal_name : texts, address : texts, profit_growth_bp : growths,
     validation_flags : flags]

MCOutputs ==
    {<<>>}
    \cup {<<r>> : r \in Pairs(Short \cup {<<0, 1>>, <<3, 0>>}, {-8, -1, 0, 7}, {0, 1, 3})}
    \cup {<<r, s>> : r, s \in Pairs(Short, {-1, 0}, {0})}
=============================================================================
