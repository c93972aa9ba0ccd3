----------------------------- MODULE RecordRules -----------------------------
(* What becomes of one record: decode, normalize, enrich, calculate and    *)
(* classify of reference/sequential_oracle/src/pipeline.cpp, which         *)
(* solutions/01_parallel_batched repeats word for word.                    *)
(*                                                                         *)
(* A double is an integer of size at most MaxFinite, or one of the three   *)
(* non-finite values.  A ratio is exact, up to the rounding to basis       *)
(* points; a quotient no int64_t can hold gives what llround returns then. *)
(* The name, the address, the postal code and the other codes are texts    *)
(* (TextRules); of company_id and reporting_period, which are copied, only *)
(* whether there is any is kept.                                           *)
EXTENDS TextRules

CONSTANTS
    MaxFinite,          \* the largest finite amount
    MaxRatio,           \* the largest std::int64_t, in basis points
    Unspecified,        \* what llround returns for a value beyond it
    Missing,            \* an empty std::optional<double>
    NaN, PlusInfinity, MinusInfinity

NonFinite == {NaN, PlusInfinity, MinusInfinity}
Amounts == {Missing} \cup NonFinite \cup -MaxFinite .. MaxFinite

ASSUME RulesAssumption ==
    /\ MaxFinite \in Nat /\ MaxRatio \in Nat
    /\ Unspecified \in -MaxRatio - 1 .. MaxRatio
    /\ Cardinality({Missing} \cup NonFinite) = 4
    /\ \A x \in {Missing} \cup NonFinite : x \notin -2 * MaxFinite .. 2 * MaxFinite

\* ReferenceData::make_default: the tables, risks in per cent.
Countries == {<<"U", "S">>, <<"B", "R">>, <<"D", "E">>,
              <<"J", "P">>, <<"I", "N">>, <<"Z", "A">>}
CountryRisk[code \in Countries] ==
    CASE code = <<"U", "S">> -> 18 [] code = <<"B", "R">> -> 34
      [] code = <<"D", "E">> -> 14 [] code = <<"J", "P">> -> 16
      [] code = <<"I", "N">> -> 29 [] code = <<"Z", "A">> -> 41
Currencies == {<<"U", "S", "D">>, <<"B", "R", "L">>, <<"E", "U", "R">>,
               <<"J", "P", "Y">>, <<"I", "N", "R">>, <<"Z", "A", "R">>}
Industries == {<<"T", "E", "C", "H">>, <<"M", "F", "G">>, <<"R", "E", "T", "L">>,
               <<"H", "L", "T", "H">>, <<"E", "N", "R", "G">>, <<"F", "I", "N">>}
IndustryRisk[code \in Industries] ==
    CASE code = <<"T", "E", "C", "H">> -> 18 [] code = <<"M", "F", "G">> -> 27
      [] code = <<"R", "E", "T", "L">> -> 31 [] code = <<"H", "L", "T", "H">> -> 20
      [] code = <<"E", "N", "R", "G">> -> 37 [] code = <<"F", "I", "N">> -> 25

MoneyFields == {"revenue", "operating_profit", "net_income", "current_assets",
                "current_liabilities", "total_assets", "total_debt",
                "shareholder_equity", "previous_revenue", "previous_profit"}

RatioFields == {"operating_margin", "net_margin", "current_ratio",
                "debt_to_equity", "return_on_assets", "revenue_growth",
                "profit_growth"}

\* A copied text is absent, all white space, or has something in it.
CopiedTexts == {"", " ", "text"}

\* RawFinancialRecord, without the sequence number.
RawRecords ==
    [company_id : CopiedTexts, legal_name : Texts, address : Texts,
     postal_code : Texts, reporting_period : CopiedTexts,
     country_code : Texts, currency_code : Texts, industry_code : Texts,
     money : [MoneyFields -> Amounts]]

DefaultRaw ==
    [company_id |-> "", legal_name |-> <<>>, address |-> <<>>,
     postal_code |-> <<>>, reporting_period |-> "",
     country_code |-> <<>>, currency_code |-> <<>>, industry_code |-> <<>>,
     money |-> [f \in MoneyFields |-> Missing]]

-----------------------------------------------------------------------------
IsFinite(x) == x \notin NonFinite

InvalidMoney(money) == money # Missing /\ ~IsFinite(money)

\* A comparison with NaN is false.
Negative(money) ==
    \/ money = MinusInfinity
    \/ money \notin {Missing} \cup NonFinite /\ money < 0

ValueOrZero(money) == IF money = Missing THEN 0 ELSE money

\* The subtraction of doubles: what is beyond the largest is infinite.  Which
\* non-finite value a non-finite operand gives makes no difference.
Minus(x, y) ==
    IF ~IsFinite(x) \/ ~IsFinite(y) THEN NaN
    ELSE IF x - y > MaxFinite THEN PlusInfinity
    ELSE IF x - y < -MaxFinite THEN MinusInfinity
    ELSE x - y

\* Decoding yields nothing for a malformed payload.
Decode(encoded) ==
    [raw |-> IF encoded.malformed THEN DefaultRaw ELSE encoded.raw,
     malformed |-> encoded.malformed]

UpperCode(text) == UpperCopy(CollapseWs(text))

Normalize(decoded) ==
    LET raw == decoded.raw
        name == TitleCopy(raw.legal_name)
        unnamed == raw.company_id = "" \/ name = <<>> \/ raw.reporting_period = ""
    IN  IF decoded.malformed
          THEN [company_id |-> "", legal_name |-> <<>>, address |-> <<>>,
                postal_code |-> <<>>, country_code |-> <<>>,
                currency_code |-> <<>>, industry_code |-> <<>>,
                money |-> raw.money,
                flags |-> {"missing_required_text"}]
          ELSE [company_id |-> raw.company_id, legal_name |-> name,
                address |-> NormalizeAddress(raw.address),
                postal_code |-> NormalizePostal(raw.postal_code),
                country_code |-> UpperCode(raw.country_code),
                currency_code |-> UpperCode(raw.currency_code),
                industry_code |-> UpperCode(raw.industry_code),
                money |-> raw.money,
                flags |-> {f \in {"missing_required_text"} : unnamed}]

\* The flags that the lookups in the tables raise.
UnknownFlags(country, currency, industry) ==
    {f \in {"unknown_country"} : country \notin DOMAIN CountryRisk}
    \cup {f \in {"unknown_currency"} : currency \notin Currencies}
    \cup {f \in {"unknown_industry"} : industry \notin DOMAIN IndustryRisk}

Enrich(normalized) ==
    [normalized EXCEPT !.flags = @ \cup
        UnknownFlags(normalized.country_code, normalized.currency_code,
                     normalized.industry_code)]

-----------------------------------------------------------------------------
Magnitude(x) == IF x < 0 THEN -x ELSE x

\* llround of 10000 n / d: to the nearest, halves away from zero.
InBasisPoints(n, d) ==
    LET size == (2 * 10000 * Magnitude(n) + Magnitude(d)) \div (2 * Magnitude(d))
    IN  IF size > MaxRatio THEN Unspecified
        ELSE IF (n < 0) = (d < 0) THEN size ELSE -size

\* bp: the ratio and the flag it raises.
Bp(n, d) ==
    IF ~IsFinite(n) \/ ~IsFinite(d) THEN 0
    ELSE IF d = 0 THEN 0
    ELSE InBasisPoints(n, d)

BpFlags(n, d) ==
    IF ~IsFinite(n) \/ ~IsFinite(d) THEN {"invalid_number"}
    ELSE IF d = 0 THEN {"zero_denominator"}
    ELSE {}

\* The numerator and the denominator of each ratio.
Terms(value) ==
    [operating_margin |-> <<value.operating_profit, value.revenue>>,
     net_margin       |-> <<value.net_income, value.revenue>>,
     current_ratio    |-> <<value.current_assets, value.current_liabilities>>,
     debt_to_equity   |-> <<value.total_debt, value.shareholder_equity>>,
     return_on_assets |-> <<value.net_income, value.total_assets>>,
     revenue_growth   |-> <<Minus(value.revenue, value.previous_revenue),
                            value.previous_revenue>>,
     profit_growth    |-> <<Minus(value.operating_profit, value.previous_profit),
                            value.previous_profit>>]

MoneyFlags(money) ==
    {f \in {"invalid_number"} : \E m \in MoneyFields : InvalidMoney(money[m])}
    \cup {f \in {"invalid_accounting"} :
            \E m \in {"revenue", "current_assets", "current_liabilities",
                      "total_assets", "total_debt", "shareholder_equity"} :
                Negative(money[m])}

\* The five terms of the score, in hundredths of a per cent.
ScoreTerms(country, industry, ratios) ==
    [tables    |-> 25 * (IF country \in DOMAIN CountryRisk
                           THEN CountryRisk[country] ELSE 50)
                 + 25 * (IF industry \in DOMAIN IndustryRisk
                           THEN IndustryRisk[industry] ELSE 50),
     liquidity |-> IF ratios.current_ratio < 10000 THEN 1800 ELSE 400,
     debt      |-> IF ratios.debt_to_equity > 20000 THEN 1800 ELSE 500,
     loss      |-> IF ratios.net_margin < 0 THEN 1000 ELSE 200,
     shrinking |-> IF ratios.revenue_growth < -500 THEN 800 ELSE 100]

\* The code adds doubles.  With these tables that decides otherwise than
\* decimals in one case, where neither code is in its table: the sum
\* 0.25 + 0.04 + 0.18 + 0.10 + 0.08 is below 0.65.
RoundsBelowHigh ==
    [tables |-> 2500, liquidity |-> 400, debt |-> 1800, loss |-> 1000,
     shrinking |-> 800]

Classify(terms, flags) ==
    LET score == terms.tables + terms.liquidity + terms.debt + terms.loss
                 + terms.shrinking
    IN  IF flags \cap {"invalid_accounting", "invalid_number"} # {} THEN "review"
        ELSE IF score < 3500 THEN "low"
        ELSE IF score < 6500 \/ terms = RoundsBelowHigh THEN "medium"
        ELSE "high"

Calculate(enriched) ==
    LET terms == Terms([m \in MoneyFields |-> ValueOrZero(enriched.money[m])])
        ratios == [r \in RatioFields |-> Bp(terms[r][1], terms[r][2])]
        flags == enriched.flags \cup MoneyFlags(enriched.money)
                 \cup UNION {BpFlags(terms[r][1], terms[r][2]) : r \in RatioFields}
    IN  [company_id |-> enriched.company_id, legal_name |-> enriched.legal_name,
         address |-> enriched.address, postal_code |-> enriched.postal_code,
         country_code |-> enriched.country_code,
         currency_code |-> enriched.currency_code,
         industry_code |-> enriched.industry_code,
         ratios |-> ratios, flags |-> flags,
         risk_class |-> Classify(ScoreTerms(enriched.country_code,
                            enriched.industry_code, ratios), flags)]

ProcessOne(encoded) == Calculate(Enrich(Normalize(Decode(encoded))))
=============================================================================
