--------------------------- MODULE OptimizedRecord ---------------------------
(* What solutions/02_lifetime_optimized/src/pipeline.cpp does to one       *)
(* record, step by step: normalize fills a BatchRecord, and one function,  *)
(* calculate, looks the codes up, marks them in the record's flags, copies *)
(* the flags and adds to the copy while it tests the amounts and computes  *)
(* the ratios.  The oracle does the same in separate functions             *)
(* (RecordRules); the functions on one text or one amount, the score and   *)
(* classify have the same statements in both and are taken from there.     *)
EXTENDS RecordRules

CONSTANT Inputs         \* encoded records

ASSUME InputsAssumption == Inputs \subseteq [malformed : BOOLEAN, raw : RawRecords]

VARIABLES
    encoded,    \* the input
    step,       \* where the worker is
    decoded,    \* DecodedRecord
    record,     \* BatchRecord
    flags,      \* calculate's copy of the record's flags
    ratios,     \* calculate's locals
    pending,    \* the ratios still to compute
    canonical   \* the result

vars == <<encoded, step, decoded, record, flags, ratios, pending, canonical>>

Nothing == <<>>

\* The order in which the ratios are computed.
RatioOrder == <<"operating_margin", "net_margin", "current_ratio",
                "debt_to_equity", "return_on_assets", "revenue_growth",
                "profit_growth">>

Init ==
    /\ encoded \in Inputs
    /\ step = "decode"
    /\ decoded = Nothing
    /\ record = Nothing
    /\ flags = {}
    /\ ratios = [r \in RatioFields |-> 0]
    /\ pending = RatioOrder
    /\ canonical = Nothing

Goto(here, there) == step = here /\ step' = there

DecodeRecord ==
    /\ Goto("decode", "normalize")
    /\ decoded' = Decode(encoded)
    /\ UNCHANGED <<encoded, record, flags, ratios, pending, canonical>>

\* A malformed record keeps the empty texts it was constructed with.
NormalizeRecord ==
    LET raw == decoded.raw
        empty == [company_id |-> "", legal_name |-> <<>>, address |-> <<>>,
                  postal_code |-> <<>>, country_code |-> <<>>,
                  currency_code |-> <<>>, industry_code |-> <<>>,
                  money |-> raw.money, flags |-> {"missing_required_text"}]
        filled == [company_id    |-> raw.company_id,
                   legal_name    |-> TitleCopy(raw.legal_name),
                   address       |-> NormalizeAddress(raw.address),
                   postal_code   |-> NormalizePostal(raw.postal_code),
                   country_code  |-> UpperCode(raw.country_code),
                   currency_code |-> UpperCode(raw.currency_code),
                   industry_code |-> UpperCode(raw.industry_code),
                   money         |-> raw.money,
                   flags         |-> {}]
    IN  /\ Goto("normalize", "lookup")
        /\ record' =
             IF decoded.malformed THEN empty
             ELSE IF \/ filled.company_id = ""
                     \/ filled.legal_name = <<>>
                     \/ raw.reporting_period = ""
               THEN [filled EXCEPT !.flags = {"missing_required_text"}]
               ELSE filled
        /\ UNCHANGED <<encoded, decoded, flags, ratios, pending, canonical>>

\* Mutant (as all names with an underscore inside, the next definition with a
\* plausible bug): the flags are copied before the lookups.
LookUp_CopyFirst ==
    /\ Goto("lookup", "money")
    /\ record' = [record EXCEPT !.flags = @ \cup
            UnknownFlags(record.country_code, record.currency_code,
                         record.industry_code)]
    /\ flags' = record.flags
    /\ UNCHANGED <<encoded, decoded, ratios, pending, canonical>>

\* The lookups mark the record, and then its flags are copied.
LookUp ==
    /\ Goto("lookup", "money")
    /\ record' = [record EXCEPT !.flags = @ \cup
            UnknownFlags(record.country_code, record.currency_code,
                         record.industry_code)]
    /\ flags' = record'.flags
    /\ UNCHANGED <<encoded, decoded, ratios, pending, canonical>>

\* The loop over the amounts.
CheckMoney ==
    /\ Goto("money", "negative")
    /\ flags' = IF \E m \in MoneyFields : InvalidMoney(record.money[m])
                  THEN flags \cup {"invalid_number"} ELSE flags
    /\ UNCHANGED <<encoded, decoded, record, ratios, pending, canonical>>

CheckNegative ==
    LET money == record.money
    IN  /\ Goto("negative", "ratios")
        /\ flags' =
             IF \/ Negative(money["revenue"]) \/ Negative(money["current_assets"])
                \/ Negative(money["current_liabilities"])
                \/ Negative(money["total_assets"]) \/ Negative(money["total_debt"])
                \/ Negative(money["shareholder_equity"])
               THEN flags \cup {"invalid_accounting"} ELSE flags
        /\ UNCHANGED <<encoded, decoded, record, ratios, pending, canonical>>

\* Mutant: the denominator is tested first.
NextRatio_ZeroFirst ==
    LET name == Head(pending)
        term == Terms([m \in MoneyFields |-> ValueOrZero(record.money[m])])[name]
        flag == IF term[2] = 0 THEN {"zero_denominator"}
                ELSE IF ~IsFinite(term[1]) \/ ~IsFinite(term[2])
                THEN {"invalid_number"} ELSE {}
    IN  /\ pending # <<>>
        /\ Goto("ratios", "ratios")
        /\ flags' = flags \cup flag
        /\ ratios' = [ratios EXCEPT ![name] =
                        IF flag = {} THEN InBasisPoints(term[1], term[2]) ELSE 0]
        /\ pending' = Tail(pending)
        /\ UNCHANGED <<encoded, decoded, record, canonical>>

\* One call of bp, which marks the flags it is given by reference.
NextRatio ==
    LET name == Head(pending)
        term == Terms([m \in MoneyFields |-> ValueOrZero(record.money[m])])[name]
        numerator == term[1]
        denominator == term[2]
        finite == IsFinite(numerator) /\ IsFinite(denominator)
    IN  /\ pending # <<>>
        /\ Goto("ratios", "ratios")
        /\ \/ /\ ~finite
              /\ flags' = flags \cup {"invalid_number"}
              /\ ratios' = [ratios EXCEPT ![name] = 0]
           \/ /\ finite /\ denominator = 0
              /\ flags' = flags \cup {"zero_denominator"}
              /\ ratios' = [ratios EXCEPT ![name] = 0]
           \/ /\ finite /\ denominator # 0
              /\ ratios' = [ratios EXCEPT ![name] =
                                InBasisPoints(numerator, denominator)]
              /\ UNCHANGED flags
        /\ pending' = Tail(pending)
        /\ UNCHANGED <<encoded, decoded, record, canonical>>

Emit ==
    /\ pending = <<>>
    /\ Goto("ratios", "done")
    /\ canonical' =
        [company_id    |-> record.company_id,
         legal_name    |-> record.legal_name,
         address       |-> record.address,
         postal_code   |-> record.postal_code,
         country_code  |-> record.country_code,
         currency_code |-> record.currency_code,
         industry_code |-> record.industry_code,
         ratios        |-> ratios,
         flags         |-> flags,
         risk_class    |-> Classify(ScoreTerms(record.country_code,
                                      record.industry_code, ratios), flags)]
    /\ UNCHANGED <<encoded, decoded, record, flags, ratios, pending>>

\* The record is in its slot; without this the end would be a deadlock.
Done == step = "done" /\ UNCHANGED vars

Next ==
    \/ DecodeRecord \/ NormalizeRecord \/ LookUp \/ CheckMoney
    \/ CheckNegative \/ NextRatio \/ Emit \/ Done

Spec == Init /\ [][Next]_vars /\ WF_vars(Next)

-----------------------------------------------------------------------------
\* Every solution processes a record as the oracle does: same flags, ratios
\* and class, whatever the order in which flags are raised and copied.
AgreesWithOracle == step = "done" => canonical = ProcessOne(encoded)

\* What a reader of the words expects of the texts, whatever fold and loop
\* make them: the words of the name, capitalised and joined by single spaces;
\* those of the address with the first syllables of all but the first written
\* out; the letters and digits of the postal code, and the words of the other
\* codes, in upper case.
SplitAtSpaces(text) ==
    LET words[i \in 0 .. Len(text)] ==
            IF i = 0 THEN <<>>
            ELSE IF IsSpace(text[i]) THEN words[i - 1]
            ELSE IF i = 1 \/ IsSpace(text[i - 1])
              THEN Append(words[i - 1], <<text[i]>>)
            ELSE [words[i - 1] EXCEPT ![Len(words[i - 1])] = Append(@, text[i])]
    IN  words[Len(text)]

Capitalised(word) ==
    [n \in DOMAIN word |-> IF n = 1 THEN ToUpper(word[n]) ELSE ToLower(word[n])]

Words(text) ==
    LET split == SplitAtSpaces(text)
    IN  [k \in DOMAIN split |-> Capitalised(split[k])]

WrittenOut(word) ==
    LET begins(short) == IsPrefix(short, word)
        with(long, n) == Tail(long) \o SubSeq(word, n, Len(word))
    IN  CASE begins(<<"S", "t", Stop>>) -> with(Street, 4)
          [] begins(<<"S", "t", Comma>>) -> with(Street, 3)
          [] begins(<<"R", "d", Stop>>) -> with(Road, 4)
          [] begins(<<"R", "d", Comma>>) -> with(Road, 3)
          [] begins(<<"B", "l", "v", "d">>) -> with(Boulevard, 5)
          [] OTHER -> word

Spaced(words) ==
    FlattenSeq([k \in DOMAIN words |->
                    IF k = 1 THEN words[k] ELSE <<" ">> \o words[k]])

InCapitals(text) ==
    LET split == SplitAtSpaces(text)
        large(word) == [n \in DOMAIN word |-> ToUpper(word[n])]
    IN  Spaced([k \in DOMAIN split |-> large(split[k])])

TextsAreNormal ==
    step = "done" /\ ~encoded.malformed =>
        LET raw == decoded.raw
            name == Words(raw.legal_name)
            address == Words(raw.address)
            code == canonical.postal_code
            alnums == {i \in DOMAIN raw.postal_code : IsAlnum(raw.postal_code[i])}
            capital(given, made) == made = InCapitals(given) /\ UpperCode(made) = made
        IN  /\ canonical.legal_name = Spaced(name)
            /\ canonical.address =
                  Spaced([k \in DOMAIN address |->
                            IF k = 1 THEN address[k] ELSE WrittenOut(address[k])])
            /\ Len(code) = Cardinality(alnums)
            /\ \A i \in alnums :
                  code[Cardinality({j \in alnums : j <= i})]
                    = ToUpper(raw.postal_code[i])
            /\ capital(raw.country_code, canonical.country_code)
            /\ capital(raw.currency_code, canonical.currency_code)
            /\ capital(raw.industry_code, canonical.industry_code)
            \* and a second pass changes nothing
            /\ TitleCopy(canonical.legal_name) = canonical.legal_name
            /\ NormalizeAddress(canonical.address) = canonical.address
            /\ NormalizePostal(code) = code

\* What each flag says of the input, and that nothing else raises it.  This is
\* what the code does; where the documentation asks for more, see
\* OddValuesAreMarked.
FlagsAreExact ==
    step = "done" =>
        LET raw == decoded.raw
            money == raw.money
            nothing(m) == money[m] \in {Missing, 0}
            finite(m) == money[m] \notin NonFinite
            beyond(x, y) == /\ finite(x) /\ finite(y)
                            /\ LET gap == ValueOrZero(money[x]) - ValueOrZero(money[y])
                               IN  gap \notin -MaxFinite .. MaxFinite
            has(flag) == flag \in canonical.flags
        IN  /\ has("missing_required_text") <=>
                 \/ encoded.malformed
                 \/ raw.company_id = "" \/ raw.reporting_period = ""
                 \/ \A i \in DOMAIN raw.legal_name : IsSpace(raw.legal_name[i])
            /\ has("unknown_country") <=>
                 InCapitals(raw.country_code) \notin Countries
            /\ has("unknown_currency") <=>
                 InCapitals(raw.currency_code) \notin Currencies
            /\ has("unknown_industry") <=>
                 InCapitals(raw.industry_code) \notin Industries
            /\ has("invalid_number") <=>
                 \/ \E m \in MoneyFields : ~finite(m)
                 \/ beyond("revenue", "previous_revenue")
                 \/ beyond("operating_profit", "previous_profit")
            /\ has("zero_denominator") <=>
                 \/ nothing("revenue") /\ (finite("operating_profit")
                                           \/ finite("net_income"))
                 \/ nothing("current_liabilities") /\ finite("current_assets")
                 \/ nothing("shareholder_equity") /\ finite("total_debt")
                 \/ nothing("total_assets") /\ finite("net_income")
                 \/ nothing("previous_revenue") /\ finite("revenue")
                 \/ nothing("previous_profit") /\ finite("operating_profit")
            /\ has("invalid_accounting") <=>
                 \E m \in MoneyFields \ {"operating_profit", "net_income",
                                         "previous_revenue", "previous_profit"} :
                    money[m] = MinusInfinity \/ (money[m] # Missing /\ finite(m)
                                                 /\ money[m] < 0)

\* docs/domain.md:75 asks that missing, non-finite, negative and inconsistent
\* accounting values are marked explicitly.  A record that has all four faults -
\* an amount it lacks, a ratio whose quotient no finite double can hold, a
\* negative previous revenue, current assets above its total assets - is marked
\* for one of them at least.  (It is marked for none, see the README.)
OddValuesAreMarked ==
    step = "done" =>
        LET money == record.money
            terms == Terms([m \in MoneyFields |-> ValueOrZero(money[m])])
            infinite(n, d) == \* 10000 n / d is larger than MaxFinite
                /\ IsFinite(n) /\ IsFinite(d) /\ d # 0
                /\ (10000 * Magnitude(n) - 1) \div Magnitude(d) >= MaxFinite
            known(m) == money[m] \notin {Missing} \cup NonFinite
        IN  /\ \E m \in MoneyFields : money[m] = Missing
            /\ \E r \in RatioFields : infinite(terms[r][1], terms[r][2])
            /\ known("previous_revenue") /\ money["previous_revenue"] < 0
            /\ known("current_assets") /\ known("total_assets")
            /\ money["current_assets"] > money["total_assets"]
            => canonical.flags # {}
=============================================================================
