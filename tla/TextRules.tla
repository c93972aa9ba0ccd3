------------------------------ MODULE TextRules ------------------------------
(* The text functions of the record stages: collapse_ws, upper_copy,       *)
(* title_copy, replace_all, normalize_address and normalize_postal of the  *)
(* oracle, which solution 01 repeats and solution 02 writes over           *)
(* std::pmr::string.                                                       *)
(* A text is a sequence of characters, a character a string of length one; *)
(* the C locale knows the cases of the letters below and no others.        *)
EXTENDS Integers, SequencesExt

CONSTANT Marks          \* the characters that are in no other class

Small == <<"a", "b", "c", "d", "e", "f", "g", "h", "i", "j", "k", "l", "m",
           "n", "o", "p", "q", "r", "s", "t", "u", "v", "w", "x", "y", "z">>
Capital == <<"A", "B", "C", "D", "E", "F", "G", "H", "I", "J", "K", "L", "M",
             "N", "O", "P", "Q", "R", "S", "T", "U", "V", "W", "X", "Y", "Z">>
\* The characters of the replacements that are no letters.
Blank == " "
Stop == "."
Comma == ","

Digits == {"0", "1", "2", "3", "4", "5", "6", "7", "8", "9"}

Spaces == {" ", "\t", "\n"}
Letters == ToSet(Small) \cup ToSet(Capital)
Characters == Spaces \cup Digits \cup Letters \cup Marks
Texts == Seq(Characters)

ASSUME MarksAssumption ==
    {Stop, Comma} \subseteq Marks /\ Marks \cap (Spaces \cup Digits \cup Letters) = {}

IsSpace(c) == c \in Spaces
IsAlnum(c) == c \in Digits \cup Letters
ToUpper(c) == IF Contains(Small, c)
                THEN Capital[CHOOSE i \in 1 .. 26 : Small[i] = c] ELSE c
ToLower(c) == IF Contains(Capital, c)
                THEN Small[CHOOSE i \in 1 .. 26 : Capital[i] = c] ELSE c

TrimCopy(text) ==
    LET kept == {i \in DOMAIN text : ~IsSpace(text[i])}
    IN  IF kept = {} THEN <<>> ELSE SubSeq(text, Min(kept), Max(kept))

\* A run of white space becomes one space, and none at either end.
CollapseWs(text) ==
    LET push(state, c) ==
            [out |-> IF ~IsSpace(c) THEN Append(state.out, c)
                     ELSE IF state.previous_space THEN state.out
                     ELSE Append(state.out, " "),
             previous_space |-> IsSpace(c)]
    IN  TrimCopy(FoldLeft(push, [out |-> <<>>, previous_space |-> FALSE], text).out)

UpperCopy(text) == [i \in DOMAIN text |-> ToUpper(text[i])]

\* Mutant (as all names with an underscore inside, the next definition with a
\* plausible bug): a word starts after whatever is no letter.
TitleCopy_AfterMark(text) ==
    LET write(state, c) ==
            [out |-> Append(state.out,
                        IF state.start_word THEN ToUpper(c) ELSE ToLower(c)),
             start_word |-> ~IsAlnum(c)]
    IN  FoldLeft(write, [out |-> <<>>, start_word |-> TRUE], CollapseWs(text)).out

\* The first character of a word in upper case, the others in lower case.
TitleCopy(text) ==
    LET write(state, c) ==
            [out |-> Append(state.out,
                        IF state.start_word THEN ToUpper(c) ELSE ToLower(c)),
             start_word |-> IsSpace(c)]
    IN  FoldLeft(write, [out |-> <<>>, start_word |-> TRUE], CollapseWs(text)).out

\* The loop of replace_all, from left to right: what replaces an occurrence is
\* not searched again.  rest[pos] is what becomes of the text from pos on.
ReplaceAllOf(text, from, to) ==
    LET rest[pos \in 1 .. Len(text) + Len(from)] ==
            IF pos > Len(text) THEN <<>>
            ELSE IF IsPrefix(from, SubSeq(text, pos, Len(text)))
              THEN to \o rest[pos + Len(from)]
            ELSE <<text[pos]>> \o rest[pos + 1]
    IN  rest[1]

Street    == <<Blank, "S", "t", "r", "e", "e", "t">>
Road      == <<Blank, "R", "o", "a", "d">>
Boulevard == <<Blank, "B", "o", "u", "l", "e", "v", "a", "r", "d">>

\* The replacements, in the order of the calls.
Replacements ==
    << <<<<Blank, "S", "t", Stop>>, Street>>,
       <<<<Blank, "S", "t", Comma>>, Append(Street, Comma)>>,
       <<<<Blank, "R", "d", Stop>>, Road>>,
       <<<<Blank, "R", "d", Comma>>, Append(Road, Comma)>>,
       <<<<Blank, "B", "l", "v", "d">>, Boulevard>> >>

NormalizeAddress(text) ==
    FoldLeft(LAMBDA value, r : ReplaceAllOf(value, r[1], r[2]),
             TitleCopy(text), Replacements)

NormalizePostal(text) ==
    FoldLeft(LAMBDA code, c : IF IsAlnum(c) THEN Append(code, ToUpper(c)) ELSE code,
             <<>>, text)
=============================================================================
