-------------------------- MODULE MCOptimizedRecord --------------------------
(* Records for TLC: the edge case record, those that differ from it in one *)
(* or two amounts, or in its texts and codes, and generated ones.          *)
EXTENDS Generator

MCMarks == {".", ",", "-", "'", "?"}
MCMaxFinite == 60000
MCMaxRatio == 50000
MCUnspecified == -MCMaxRatio - 1

\* The generator's smallest and largest factors: all of them, and all but one.
LowFactors == [operating |-> -5, net |-> 45, current_assets |-> 10,
    current_liabilities |-> 8, total_assets |-> 50, debt |-> 5, loss |-> 0,
    previous_revenue |-> 75, previous_profit |-> 70]
HighFactors == [operating |-> 28, net |-> 92, current_assets |-> 45,
    current_liabilities |-> 38, total_assets |-> 250, debt |-> 85, loss |-> 5,
    previous_revenue |-> 125, previous_profit |-> 130]
MCFactors ==
    {LowFactors, HighFactors}
    \cup {[LowFactors EXCEPT ![f] = HighFactors[f]] : f \in DOMAIN LowFactors}
    \cup {[HighFactors EXCEPT ![f] = LowFactors[f]] : f \in DOMAIN LowFactors}

MCRevenues == {10000}
MCNames == {<<"A", " ", "D", "a", "t", "u", "m">>}
MCStreets == {<<"4", " ", "R", "d", ".">>, <<"1", " ", "B", "l", "v", "d">>}
MCPostals == {<<" ", "1", "-", "6", " ">>, <<"a", "b", " ", "1">>}
MCPicks ==
    {[skew |-> skew, large_text |-> skew, country |-> codes[1],
      currency |-> codes[2], industry |-> codes[3], name |-> name,
      street |-> street, postal |-> <<" ", "1", "-", "6", " ">>] :
        skew \in BOOLEAN, name \in MCNames, street \in MCStreets,
        codes \in {<<<<"B", "R">>, <<"B", "R", "L">>, <<"T", "E", "C", "H">>>>,
                   <<<<"Z", "A">>, <<"Z", "A", "R">>, <<"E", "N", "R", "G">>>>}}

Healthy == MakeEdgeCaseRecord

\* Every kind of amount; -40000 and 40000 are further apart than MaxFinite,
\* 6 over 1 is beyond MaxRatio and 7 over 1 beyond MaxFinite.
Values == {Missing, NaN, PlusInfinity, MinusInfinity, -40000, -1, 0, 1, 6, 7,
           40000}

MoneyVariants ==
    UNION {{[Healthy EXCEPT !.money[f] = x, !.money[g] = y] : x, y \in Values} :
        f, g \in MoneyFields}

\* A code as it is listed; in small letters between white space; split by it;
\* one that is not listed; and none.
Codes(known) ==
    {known, <<" ">> \o [i \in DOMAIN known |-> ToLower(known[i])] \o <<"\t">>,
     <<Head(known), " ">> \o Tail(known), Unlisted, <<>>}

\* One amount missing, one negative, one larger than what it is a part of.
Contradictory ==
    [Healthy EXCEPT !.money.net_income = Missing, !.money.previous_revenue = -1,
                    !.money.current_assets = 40000]

TextVariants ==
    {[Healthy EXCEPT !.company_id = i, !.legal_name = n, !.reporting_period = p] :
        i, p \in CopiedTexts, n \in {<<>>, <<" ">>, <<" ", "a", "\t">>}}
    \cup UNION {{[Healthy EXCEPT !.country_code = c, !.currency_code = u,
                                 !.industry_code = d] : c \in Codes(country)} :
        country \in Countries, u \in Codes(<<"E", "U", "R">>),
        d \in Codes(<<"F", "I", "N">>)}

\* Every way the terms of the score can fall, the one tie among them.
ScoreVariants ==
    {[Healthy EXCEPT !.country_code = c, !.industry_code = d,
                     !.money.current_assets = a, !.money.total_debt = t,
                     !.money.net_income = n, !.money.revenue = r] :
        c \in {<<"U", "S">>, Unlisted}, d \in {<<"F", "I", "N">>, Unlisted},
        a \in {500, 100}, t \in {800, 2000}, n \in {90, -1}, r \in {1000, 800}}

\* All short texts, and addresses of two and three words with everything the
\* abbreviations can meet: in front, in a row, inside a word, with a mark.
ShortTexts == BoundedSeq({" ", "\t", "b", "D", "7", "."}, 4)
Written ==
    {<<"s", "t", ".">>, <<"S", "T", ",">>, <<"R", "d", ".", "x">>, <<"r", "d", ",">>,
     <<"b", "L", "v", "d">>, <<"s", "t">>, <<"o", "'", "S", "t", ".">>, <<"7">>}
Addresses ==
    {v \o <<" ">> \o w : v, w \in Written}
    \cup {v \o <<" ", "\t">> \o w \o <<" ">> \o x : v, w, x \in Written}

Worded ==
    {[Healthy EXCEPT !.legal_name = t, !.address = t, !.postal_code = t] :
        t \in ShortTexts \cup Addresses}

MCInputs ==
    {[malformed |-> FALSE, raw |-> r] :
        r \in {Contradictory} \cup MoneyVariants \cup TextVariants \cup ScoreVariants \cup Worded
             \cup GenerateWorkload}
    \cup {[malformed |-> TRUE, raw |-> Healthy]}
=============================================================================
