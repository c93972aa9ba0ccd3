------------------------------ MODULE Generator ------------------------------
(* src/common/src/generator.cpp: the records that tests and benchmarks     *)
(* give to the pipelines, and what solution 02 makes of them.  What the    *)
(* pseudo-random engine may draw is a set; a generated name, street or     *)
(* postal code is one of a few texts of its kind.                          *)
EXTENDS OptimizedRecord

CONSTANTS
    Names, Streets, Postals,    \* generated texts
    Revenues,                   \* revenues that are drawn
    Factors,                    \* combinations of factors that are drawn
    Picks                       \* combinations of codes and texts that are

Query == "?"
Unlisted == <<Query, Query>>
Metro == <<"M", "e", "t", "r", "o">>
York  == <<"N", "e", "w", " ", "Y", "o", "r", "k">>
Floor == <<",", " ", "F", "l", "o", "o", "r", " ", "2", "2">>

\* The ranges of the draws, in per cent of the amount they are multiplied by.
\* The operating factor is a real number: one draw in some 2^53 is exactly 0,
\* with a previous profit of 0, and this one is left out.
FactorRanges ==
    [operating : (-5 .. 28) \ {0}, net : 45 .. 92, current_assets : 10 .. 45,
     current_liabilities : 8 .. 38, total_assets : 50 .. 250, debt : 5 .. 85,
     loss : 0 .. 5, previous_revenue : 75 .. 125, previous_profit : 70 .. 130]

\* What pick returns, and the settings and the parity that select.
PickRanges ==
    [skew : BOOLEAN, large_text : BOOLEAN, country : Countries,
     currency : Currencies, industry : Industries, name : Names,
     street : Streets, postal : Postals]

\* Revenues are drawn from 500000 to 250000000: large enough that no amount is
\* rounded to 0, and three times one is still finite.  Names have words.
ASSUME GeneratorAssumption ==
    /\ Revenues \subseteq 200 .. MaxFinite \div 3
    /\ Factors \subseteq FactorRanges
    /\ \A name \in Names : \E i \in DOMAIN name : ~IsSpace(name[i])
    /\ Picks \subseteq PickRanges
    /\ Query \in Marks

\* The record the unit tests start from.
MakeEdgeCaseRecord ==
    [company_id |-> "text",
     legal_name |-> <<" ", " ", "a", "c", "m", "e", " ", " ", " ", "h", "o", "l",
        "d", "i", "n", "g", "s", " ", " ", "l", "t", "d", " ">>,
     address |-> <<" ", " ", "1", "0", " ", " ", " ", "m", "a", "i", "n", " ", "s",
        "t", ".", " ", " ", " ", "s", "u", "i", "t", "e", " ", "5", " ", " ">>,
     postal_code |-> <<" ", "1", "2", " ", "3", "4", "5", " ">>,
     country_code |-> <<"u", "s">>, currency_code |-> <<"u", "s", "d">>,
     industry_code |-> <<"T", "E", "C", "H">>, reporting_period |-> "text",
     money |-> [revenue |-> 1000, operating_profit |-> 125, net_income |-> 90,
                current_assets |-> 500, current_liabilities |-> 250,
                total_assets |-> 2000, total_debt |-> 800,
                shareholder_equity |-> 900, previous_revenue |-> 900,
                previous_profit |-> 80]]

PerCent(x, p) == (x * p) \div 100

\* The amounts drawn around one revenue.
AmountsAround(revenue, f) ==
    LET operating == PerCent(revenue, f.operating)
        assets == PerCent(revenue, f.total_assets)
        debt == PerCent(assets, f.debt)
    IN  [revenue |-> revenue, operating_profit |-> operating,
         net_income |-> PerCent(operating, f.net),
         current_assets |-> PerCent(revenue, f.current_assets),
         current_liabilities |-> PerCent(revenue, f.current_liabilities),
         total_assets |-> assets, total_debt |-> debt,
         shareholder_equity |-> assets - debt - PerCent(assets, f.loss),
         previous_revenue |-> PerCent(revenue, f.previous_revenue),
         previous_profit |-> PerCent(operating, f.previous_profit)]

\* Mutant (as all names with an underscore inside, the next definition with a
\* plausible bug): only the country is damaged.
Malformed_CodeOnly(raw) == [raw EXCEPT !.country_code = Unlisted]

\* What a record chosen to be malformed gets: its payload stays well-formed.
Malformed(raw) ==
    [raw EXCEPT !.country_code = Unlisted, !.money.shareholder_equity = -1]

\* maybe_money leaves out some of three amounts.
Generated(revenue, factors, missing, pick) ==
    [company_id |-> "text", legal_name |-> pick.name,
     address |-> pick.street \o <<",", " ">> \o (IF pick.skew THEN York ELSE Metro)
                 \o (IF pick.large_text THEN Floor ELSE <<>>),
     postal_code |-> pick.postal,
     country_code |-> IF pick.skew THEN <<"U", "S">> ELSE pick.country,
     currency_code |-> IF pick.skew THEN <<"U", "S", "D">> ELSE pick.currency,
     industry_code |-> pick.industry, reporting_period |-> "text",
     money |-> [m \in MoneyFields |->
                  IF m \in missing THEN Missing
                  ELSE AmountsAround(revenue, factors)[m]]]

GenerateWorkload ==
    LET sound == {Generated(r, f, missing, pick) :
                    r \in Revenues, f \in Factors, pick \in Picks,
                    missing \in SUBSET {"revenue", "operating_profit", "net_income"}}
    IN  sound \cup {Malformed(raw) : raw \in sound}

-----------------------------------------------------------------------------
\* The shares of missing and malformed records that a benchmark asks for are
\* what the pipelines see: a malformed record, and no other, goes to review,
\* for both its faults; a missing revenue, and nothing else, is marked as a
\* zero denominator; and no other flag is ever raised.
WorkloadIsAsAsked ==
    step = "done" /\ ~encoded.malformed /\ encoded.raw \in GenerateWorkload =>
        LET malformed == encoded.raw.country_code = Unlisted
        IN  /\ canonical.flags =
                 (IF malformed THEN {"unknown_country", "invalid_accounting"} ELSE {})
                 \cup {f \in {"zero_denominator"} :
                         encoded.raw.money["revenue"] = Missing}
            /\ malformed <=> canonical.risk_class = "review"
=============================================================================
