----------------------- MODULE OptimizedRecordProofs ------------------------
(* Solution 02 gives every record the result of the oracle, whatever its   *)
(* amounts, codes and texts are, and that result is what a reader of the   *)
(* words expects: the texts, the flags, and what becomes of a generated    *)
(* workload.                                                               *)
(*                                                                         *)
(* The texts come first.  The folds of collapse_ws, title_copy and         *)
(* normalize_postal and the recursion of replace_all are seen step by step *)
(* (CollapseSteps to PostalSteps); what they write so far is told in words *)
(* (SplitAtSpaces, Spaced), which each step keeps true.  So a text is its  *)
(* words joined by spaces (CollapseIs), the name is these capitalised      *)
(* (TitleWords), a replacement works on each word by itself                *)
(* (ReplaceSpaced), and the five in turn are one function of words         *)
(* (AddressWords, WrittenOutIs) that leaves nothing for a second pass      *)
(* (InTurnAgain).                                                          *)
(*                                                                         *)
(* Then the steps of the worker: each computes what one of the oracle's    *)
(* functions does, and while the ratios are computed the flags lack those  *)
(* of the ratios still pending, and nothing else (RecordInv).  What the    *)
(* oracle returns is then read off its definition: the flags one by one    *)
(* (FlagsOfResult, RatiosRaise), for the generator with bounds on what it  *)
(* draws (AmountsDrawn).                                                   *)
EXTENDS Generator, InductionLemmas

-----------------------------------------------------------------------------
(* Characters.                                                             *)

\* The letters.
LEMMA LetterFacts ==
    /\ \A i \in 1 .. 26 : Small[i] \in Letters /\ Capital[i] \in Letters
    /\ \A i, j \in 1 .. 26 : Small[i] # Capital[j]
    /\ Letters \cap Spaces = {}
    /\ Len(Small) = 26 /\ Len(Capital) = 26
<1> DEFINE small == {"a", "b", "c", "d", "e", "f", "g", "h", "i", "j", "k", "l", "m",
                     "n", "o", "p", "q", "r", "s", "t", "u", "v", "w", "x", "y", "z"}
           capital == {"A", "B", "C", "D", "E", "F", "G", "H", "I", "J", "K", "L", "M",
                       "N", "O", "P", "Q", "R", "S", "T", "U", "V", "W", "X", "Y", "Z"}
<1>1. Small \in Seq(small) /\ Len(Small) = 26
  BY DEF Small
<1>2. Capital \in Seq(capital) /\ Len(Capital) = 26
  BY DEF Capital
<1>3. small \cap capital = {} /\ (small \cup capital) \cap Spaces = {}
  BY DEF Spaces
<1> HIDE DEF small, capital
<1>4. \A i \in 1 .. 26 : Small[i] \in small /\ Capital[i] \in capital
  BY <1>1, <1>2, ElementOfSeq
<1>5. DOMAIN Small = 1 .. 26 /\ DOMAIN Capital = 1 .. 26
  BY <1>1, <1>2, LenProperties
<1> QED BY <1>1, <1>2, <1>3, <1>4, <1>5 DEF Letters, ToSet

\* The classes of the characters.
LEMMA CharacterFacts ==
    /\ " " \in Characters /\ IsSpace(" ")
    /\ Letters \subseteq Characters
    /\ \A c : IsSpace(c) => ~IsAlnum(c)
  BY LetterFacts DEF Characters, Spaces, IsSpace, IsAlnum, Digits

\* What the conversions to upper and to lower case do to a character.
LEMMA CaseFacts ==
    ASSUME NEW c \in Characters
    PROVE  /\ ToUpper(c) \in Characters /\ ToLower(c) \in Characters
           /\ ToUpper(ToUpper(c)) = ToUpper(c) /\ ToLower(ToLower(c)) = ToLower(c)
           /\ IsSpace(ToUpper(c)) <=> IsSpace(c)
           /\ IsSpace(ToLower(c)) <=> IsSpace(c)
           /\ IsSpace(c) => ToUpper(c) = c /\ ToLower(c) = c
           /\ IsAlnum(c) => IsAlnum(ToUpper(c))
<1> DEFINE place(letters) == CHOOSE i \in 1 .. 26 : letters[i] = c
<1>1. ASSUME Contains(Small, c)
      PROVE  \E i, j \in 1 .. 26 : c = Small[i] /\ ToUpper(c) = Capital[j]
  <2>1. \E i \in 1 .. 26 : Small[i] = c
    BY <1>1, LetterFacts DEF Contains
  <2>2. place(Small) \in 1 .. 26
    BY <2>1
  <2>3. ToUpper(c) = Capital[place(Small)]
    BY <1>1 DEF ToUpper
  <2> QED BY <2>1, <2>2, <2>3
<1>2. ASSUME Contains(Capital, c)
      PROVE  \E i, j \in 1 .. 26 : c = Capital[i] /\ ToLower(c) = Small[j]
  <2>1. \E i \in 1 .. 26 : Capital[i] = c
    BY <1>2, LetterFacts DEF Contains
  <2>2. place(Capital) \in 1 .. 26
    BY <2>1
  <2>3. ToLower(c) = Small[place(Capital)]
    BY <1>2 DEF ToLower
  <2> QED BY <2>1, <2>2, <2>3
<1>3. \A j \in 1 .. 26 : ~Contains(Small, Capital[j]) /\ ~Contains(Capital, Small[j])
  BY LetterFacts DEF Contains
<1>4. \A j \in 1 .. 26 : IsAlnum(Capital[j])
  BY LetterFacts DEF IsAlnum
<1>5. /\ ToUpper(c) \in Characters /\ ToUpper(ToUpper(c)) = ToUpper(c)
      /\ IsSpace(ToUpper(c)) <=> IsSpace(c)
      /\ IsSpace(c) => ToUpper(c) = c
      /\ IsAlnum(c) => IsAlnum(ToUpper(c))
  <2>1. CASE Contains(Small, c)
    <3>1. PICK i \in 1 .. 26, j \in 1 .. 26 : c = Small[i] /\ ToUpper(c) = Capital[j]
      BY <1>1, <2>1
    <3>2. ToUpper(Capital[j]) = Capital[j]
      BY <1>3 DEF ToUpper
    <3> QED BY <1>4, <3>1, <3>2, LetterFacts, CharacterFacts DEF IsSpace
  <2>2. CASE ~Contains(Small, c)
    <3>1. ToUpper(c) = c
      BY <2>2 DEF ToUpper
    <3> QED BY <3>1
  <2> QED BY <2>1, <2>2
<1>6. /\ ToLower(c) \in Characters /\ ToLower(ToLower(c)) = ToLower(c)
      /\ IsSpace(ToLower(c)) <=> IsSpace(c)
      /\ IsSpace(c) => ToLower(c) = c
  <2>1. CASE Contains(Capital, c)
    <3>1. PICK i \in 1 .. 26, j \in 1 .. 26 : c = Capital[i] /\ ToLower(c) = Small[j]
      BY <1>2, <2>1
    <3>2. ToLower(Small[j]) = Small[j]
      BY <1>3 DEF ToLower
    <3> QED BY <3>1, <3>2, LetterFacts, CharacterFacts DEF IsSpace
  <2>2. CASE ~Contains(Capital, c)
    <3>1. ToLower(c) = c
      BY <2>2 DEF ToLower
    <3> QED BY <3>1
  <2> QED BY <2>1, <2>2
<1> QED BY <1>5, <1>6

-----------------------------------------------------------------------------
(* The folds, one character at a time.                                     *)

\* What the fold of CollapseWs does with a character.
Push(state, c) ==
    [out |-> IF ~IsSpace(c) THEN Append(state.out, c)
             ELSE IF state.previous_space THEN state.out
             ELSE Append(state.out, " "),
     previous_space |-> IsSpace(c)]

\* What collapse_ws keeps between two characters, and what it begins with.
Pushing == [out : Texts, previous_space : BOOLEAN]
NothingPushed == [out |-> <<>>, previous_space |-> FALSE]

\* The states of collapse_ws, after each character.
IsCollapsing(st, text) ==
    /\ st \in [0 .. Len(text) -> Pushing]
    /\ st[0] = NothingPushed
    /\ \A k \in 1 .. Len(text) : st[k] = Push(st[k - 1], text[k])

\* A turn keeps the state what it is.
LEMMA PushFacts ==
    ASSUME NEW state \in Pushing, NEW c \in Characters
    PROVE  Push(state, c) \in Pushing
<1>1. /\ state.out \in Seq(Characters) /\ state.previous_space \in BOOLEAN
      /\ c \in Characters /\ " " \in Characters
  BY CharacterFacts DEF Pushing, Texts
<1>2. /\ Append(state.out, c) \in Seq(Characters)
      /\ Append(state.out, " ") \in Seq(Characters)
  BY <1>1, AppendProperties
<1>3. IsSpace(c) \in BOOLEAN
  BY DEF IsSpace
<1>4. PICK out \in Seq(Characters) :
         Push(state, c) = [out |-> out, previous_space |-> IsSpace(c)]
  BY <1>1, <1>2 DEF Push
<1> QED BY <1>3, <1>4 DEF Pushing, Texts

\* The fold of collapse_ws, seen after each character.
LEMMA CollapseSteps ==
    ASSUME NEW text \in Texts
    PROVE  \E st : /\ IsCollapsing(st, text)
                   /\ CollapseWs(text) = TrimCopy(st[Len(text)].out)
<1>1. PICK n \in Nat : n = Len(text) /\ DOMAIN text = 1 .. n
  BY LenProperties DEF Texts
<1>2. \A k \in 1 .. n : text[k] \in Characters
  BY <1>1, ElementOfSeq DEF Texts
<1> DEFINE turn == [k \in 1 .. n |-> [state \in Pushing |-> Push(state, text[k])]]
           Fold(F) == [s \in SUBSET (DOMAIN text) |->
                         IF s = {} THEN NothingPushed
                         ELSE Push(F[s \ {Max(s)}], text[Max(s)])]
           chosen == CHOOSE F : F = Fold(F)
           st == [k \in 0 .. n |-> chosen[1 .. k]]
<1>3. NothingPushed \in Pushing /\ Steps(turn, n, Pushing)
  <2>1. NothingPushed \in Pushing
    BY DEF NothingPushed, Pushing, Texts
  <2>2. \A k \in 1 .. n : \A state \in Pushing : turn[k][state] \in Pushing
    BY <1>2, PushFacts
  <2> QED BY <2>1, <2>2 DEF Steps
<1>4. \E F : F = Fold(F)
  <2>1. PICK F \in [SUBSET (1 .. n) -> Pushing] : IsFold(F, n, NothingPushed, turn)
    <3> HIDE DEF turn
    <3> QED BY <1>3, FoldExists
  <2>2. ASSUME NEW s \in SUBSET (1 .. n)
        PROVE  F[s] = IF s = {} THEN NothingPushed
                      ELSE Push(F[s \ {Max(s)}], text[Max(s)])
    <3>1. CASE s = {}
      BY <2>1, <3>1 DEF IsFold
    <3>2. CASE s # {}
      <4>1. Max(s) \in 1 .. n /\ s \ {Max(s)} \in SUBSET (1 .. n)
        BY <3>2, LargestOf
      <4>2. F[s] = turn[Max(s)][F[s \ {Max(s)}]]
        <5> HIDE DEF turn
        <5> QED BY <2>1, <3>2 DEF IsFold
      <4>3. F[s \ {Max(s)}] \in Pushing
        BY <2>1, <4>1
      <4> QED BY <3>2, <4>1, <4>2, <4>3
    <3> QED BY <3>1, <3>2
  <2>3. F = Fold(F)
    BY <1>1, <2>1, <2>2
  <2> QED BY <2>3
<1>5. chosen = Fold(chosen)
  <2> HIDE DEF Fold
  <2> QED BY <1>4
<1>6. CollapseWs(text) = TrimCopy(chosen[DOMAIN text].out)
  BY Zenon DEF CollapseWs, FoldLeft, MapThenFoldSet, Push, NothingPushed
<1>7. \A s \in SUBSET (1 .. n) :
         chosen[s] = IF s = {} THEN NothingPushed
                     ELSE Push(chosen[s \ {Max(s)}], text[Max(s)])
  <2> HIDE DEF chosen
  <2> QED BY <1>1, <1>5
<1> HIDE DEF chosen
<1>8. Iterates(st, n, Pushing, NothingPushed, turn)
  <2>1. ASSUME NEW s \in SUBSET (1 .. n), s # {}, chosen[s \ {Max(s)}] \in Pushing
        PROVE  chosen[s] = turn[Max(s)][chosen[s \ {Max(s)}]]
    <3>1. Max(s) \in 1 .. n
      BY <2>1, LargestOf
    <3> QED BY <1>7, <2>1, <3>1
  <2>2. chosen[{}] = NothingPushed
    <3>1. {} \in SUBSET (1 .. n)
      OBVIOUS
    <3> QED BY <1>7, <3>1
  <2> HIDE DEF turn
  <2> QED BY <1>3, <2>1, <2>2, FoldTurns
<1>9. st[n].out = chosen[DOMAIN text].out
  BY <1>1
<1> HIDE DEF st
<1>10. ASSUME NEW k \in 1 .. n
       PROVE  st[k] = Push(st[k - 1], text[k])
  <2>1. st[k] = turn[k][st[k - 1]] /\ st[k - 1] \in Pushing
    <3>1. k - 1 \in 0 .. n
      OBVIOUS
    <3> HIDE DEF turn
    <3> QED BY <1>8, <3>1 DEF Iterates
  <2> QED BY <2>1
<1>11. IsCollapsing(st, text)
  BY <1>1, <1>8, <1>10 DEF IsCollapsing, Iterates
<1> QED BY <1>1, <1>6, <1>9, <1>11

\* What the fold of TitleCopy does with a character.
Write(state, c) ==
    [out |-> Append(state.out,
                IF state.start_word THEN ToUpper(c) ELSE ToLower(c)),
     start_word |-> IsSpace(c)]

\* The same of title_copy.
Writing == [out : Texts, start_word : BOOLEAN]
NothingWritten == [out |-> <<>>, start_word |-> TRUE]

\* The states of title_copy, after each character.
IsTitling(st, text) ==
    /\ st \in [0 .. Len(text) -> Writing]
    /\ st[0] = NothingWritten
    /\ \A k \in 1 .. Len(text) : st[k] = Write(st[k - 1], text[k])

\* A turn keeps the state what it is.
LEMMA WriteFacts ==
    ASSUME NEW state \in Writing, NEW c \in Characters
    PROVE  Write(state, c) \in Writing
<1>1. state.out \in Seq(Characters)
  BY DEF Writing, Texts
<1>2. /\ Append(state.out, ToUpper(c)) \in Seq(Characters)
      /\ Append(state.out, ToLower(c)) \in Seq(Characters)
  BY <1>1, CaseFacts, AppendProperties
<1>3. IsSpace(c) \in BOOLEAN
  BY DEF IsSpace
<1>4. PICK out \in Seq(Characters) :
         Write(state, c) = [out |-> out, start_word |-> IsSpace(c)]
  BY <1>1, <1>2 DEF Write
<1> QED BY <1>3, <1>4 DEF Writing, Texts

\* The fold of title_copy, seen after each character.
LEMMA TitleSteps ==
    ASSUME NEW text, CollapseWs(text) \in Texts
    PROVE  \E st : /\ IsTitling(st, CollapseWs(text))
                   /\ TitleCopy(text) = st[Len(CollapseWs(text))].out
<1>0. PICK short \in Texts : short = CollapseWs(text)
  OBVIOUS
<1>1. PICK n \in Nat : n = Len(short) /\ DOMAIN short = 1 .. n
  BY LenProperties DEF Texts
<1>2. \A k \in 1 .. n : short[k] \in Characters
  BY <1>1, ElementOfSeq DEF Texts
<1> DEFINE turn == [k \in 1 .. n |-> [state \in Writing |-> Write(state, short[k])]]
           Fold(F) == [s \in SUBSET (DOMAIN short) |->
                         IF s = {} THEN NothingWritten
                         ELSE Write(F[s \ {Max(s)}], short[Max(s)])]
           chosen == CHOOSE F : F = Fold(F)
           st == [k \in 0 .. n |-> chosen[1 .. k]]
<1>3. NothingWritten \in Writing /\ Steps(turn, n, Writing)
  <2>1. NothingWritten \in Writing
    BY DEF NothingWritten, Writing, Texts
  <2>2. \A k \in 1 .. n : \A state \in Writing : turn[k][state] \in Writing
    BY <1>2, WriteFacts
  <2> QED BY <2>1, <2>2 DEF Steps
<1>4. \E F : F = Fold(F)
  <2>1. PICK F \in [SUBSET (1 .. n) -> Writing] : IsFold(F, n, NothingWritten, turn)
    <3> HIDE DEF turn
    <3> QED BY <1>3, FoldExists
  <2>2. ASSUME NEW s \in SUBSET (1 .. n)
        PROVE  F[s] = IF s = {} THEN NothingWritten
                      ELSE Write(F[s \ {Max(s)}], short[Max(s)])
    <3>1. CASE s = {}
      BY <2>1, <3>1 DEF IsFold
    <3>2. CASE s # {}
      <4>1. Max(s) \in 1 .. n /\ s \ {Max(s)} \in SUBSET (1 .. n)
        BY <3>2, LargestOf
      <4>2. F[s] = turn[Max(s)][F[s \ {Max(s)}]]
        <5> HIDE DEF turn
        <5> QED BY <2>1, <3>2 DEF IsFold
      <4>3. F[s \ {Max(s)}] \in Writing
        BY <2>1, <4>1
      <4> QED BY <3>2, <4>1, <4>2, <4>3
    <3> QED BY <3>1, <3>2
  <2>3. F = Fold(F)
    BY <1>1, <2>1, <2>2
  <2> QED BY <2>3
<1>5. chosen = Fold(chosen)
  <2> HIDE DEF Fold
  <2> QED BY <1>4
<1>6. TitleCopy(text) = chosen[DOMAIN short].out
  BY <1>0, Zenon DEF TitleCopy, FoldLeft, MapThenFoldSet, Write, NothingWritten
<1>7. \A s \in SUBSET (1 .. n) :
         chosen[s] = IF s = {} THEN NothingWritten
                     ELSE Write(chosen[s \ {Max(s)}], short[Max(s)])
  <2> HIDE DEF chosen
  <2> QED BY <1>1, <1>5
<1> HIDE DEF chosen
<1>8. Iterates(st, n, Writing, NothingWritten, turn)
  <2>1. ASSUME NEW s \in SUBSET (1 .. n), s # {}, chosen[s \ {Max(s)}] \in Writing
        PROVE  chosen[s] = turn[Max(s)][chosen[s \ {Max(s)}]]
    <3>1. Max(s) \in 1 .. n
      BY <2>1, LargestOf
    <3> QED BY <1>7, <2>1, <3>1
  <2>2. chosen[{}] = NothingWritten
    <3>1. {} \in SUBSET (1 .. n)
      OBVIOUS
    <3> QED BY <1>7, <3>1
  <2> HIDE DEF turn
  <2>3. Iterates([k \in 0 .. n |-> chosen[1 .. k]], n, Writing, NothingWritten, turn)
    <3>1. NothingWritten \in Writing /\ Steps(turn, n, Writing)
      BY <1>3
    <3>2. \A s \in SUBSET (1 .. n) : s # {} /\ chosen[s \ {Max(s)}] \in Writing
            => chosen[s] = turn[Max(s)][chosen[s \ {Max(s)}]]
      BY <2>1
    <3> HIDE DEF Fold
    <3> QED BY <2>2, <3>1, <3>2, FoldTurns
  <2> QED BY <2>3
<1>9. st[n].out = chosen[DOMAIN short].out
  BY <1>1
<1> HIDE DEF st
<1>10. ASSUME NEW k \in 1 .. n
       PROVE  st[k] = Write(st[k - 1], short[k])
  <2>1. st[k] = turn[k][st[k - 1]] /\ st[k - 1] \in Writing
    <3>1. k - 1 \in 0 .. n
      OBVIOUS
    <3> HIDE DEF turn
    <3> QED BY <1>8, <3>1 DEF Iterates
  <2> QED BY <2>1
<1>11. IsTitling(st, short)
  BY <1>1, <1>8, <1>10 DEF IsTitling, Iterates
<1> QED BY <1>0, <1>1, <1>6, <1>9, <1>11

-----------------------------------------------------------------------------
(* Words.                                                                  *)

\* A word has characters, and no space among them.
Word == {w \in Texts : w # <<>> /\ \A n \in 1 .. Len(w) : ~IsSpace(w[n])}

\* One turn of SplitAtSpaces.
Split(words, text, i) ==
    IF IsSpace(text[i]) THEN words
    ELSE IF i = 1 \/ IsSpace(text[i - 1]) THEN Append(words, <<text[i]>>)
    ELSE [words EXCEPT ![Len(words)] = Append(@, text[i])]

\* The words after each character.
IsSplitting(ws, text) ==
    /\ ws \in [0 .. Len(text) -> Seq(Word)]
    /\ ws[0] = <<>>
    /\ \A i \in 1 .. Len(text) :
         /\ ws[i] = Split(ws[i - 1], text, i)
         /\ ~IsSpace(text[i]) => ws[i] # <<>>

\* The last element of a sequence is longer by one.
LEMMA LastLonger ==
    ASSUME NEW words \in Seq(Texts), NEW c \in Characters
    PROVE  /\ [words EXCEPT ![Len(words)] = Append(@, c)] \in Seq(Texts)
           /\ words # <<>> =>
                \E front \in Seq(Texts) : \E last \in Texts :
                   /\ words = Append(front, last)
                   /\ [words EXCEPT ![Len(words)] = Append(@, c)]
                        = Append(front, Append(last, c))
<1> DEFINE longer == [words EXCEPT ![Len(words)] = Append(@, c)]
<1>1. CASE words = <<>>
  <2>1. longer = words
    BY <1>1
  <2> QED BY <1>1, <2>1
<1>2. CASE words # <<>>
  <2>1. PICK front \in Seq(Texts), last \in Texts : words = Append(front, last)
    BY <1>2, SequenceEmptyOrAppend
  <2>2. PICK n \in Nat : n = Len(front)
    BY LenProperties
  <2>3. Len(words) = n + 1 /\ words[n + 1] = last
    BY <2>1, <2>2, AppendProperties
  <2>4. Append(last, c) \in Texts
    BY AppendProperties DEF Texts
  <2>5. /\ longer \in Seq(Texts) /\ Len(longer) = n + 1
        /\ \A i \in 1 .. n + 1 :
             longer[i] = IF i = n + 1 THEN Append(last, c) ELSE words[i]
    <3>1. n + 1 \in 1 .. Len(words)
      BY <2>3
    <3>2. longer = [words EXCEPT ![n + 1] = Append(last, c)]
      BY <2>3
    <3> QED BY <2>3, <2>4, <3>1, <3>2, ExceptSeq
  <2>6. PICK other : other = Append(front, Append(last, c))
    OBVIOUS
  <2>7. /\ other \in Seq(Texts) /\ Len(other) = n + 1
        /\ other[n + 1] = Append(last, c)
        /\ \A i \in 1 .. n : other[i] = front[i] /\ words[i] = front[i]
    BY <2>1, <2>2, <2>4, <2>6, AppendProperties
  <2>8. longer = other
    <3>1. \A i \in 1 .. n + 1 : longer[i] = other[i]
      <4>1. \A i \in 1 .. n + 1 : i = n + 1 \/ i \in 1 .. n
        OBVIOUS
      <4> QED BY <2>5, <2>7, <4>1
    <3> QED BY <2>5, <2>7, <3>1, SeqEqual
  <2> QED BY <2>1, <2>5, <2>6, <2>8
<1> QED BY <1>1, <1>2

\* What a word becomes is a word.
LEMMA SplitFacts ==
    ASSUME NEW text \in Texts, NEW i \in 1 .. Len(text), NEW words \in Seq(Word),
           i > 1 /\ ~IsSpace(text[i - 1]) => words # <<>>
    PROVE  /\ Split(words, text, i) \in Seq(Word)
           /\ ~IsSpace(text[i]) => Split(words, text, i) # <<>>
<1>1. text[i] \in Characters
  BY ElementOfSeq DEF Texts
<1>2. CASE IsSpace(text[i])
  BY <1>2 DEF Split
<1>3. CASE ~IsSpace(text[i]) /\ (i = 1 \/ IsSpace(text[i - 1]))
  <2>1. <<text[i]>> \in Word
    BY <1>1, <1>3 DEF Word, Texts
  <2>2. Split(words, text, i) = Append(words, <<text[i]>>)
    BY <1>3 DEF Split
  <2> QED BY <2>1, <2>2, AppendProperties
<1>4. CASE ~IsSpace(text[i]) /\ i # 1 /\ ~IsSpace(text[i - 1])
  <2>1. words # <<>> /\ words \in Seq(Texts)
    <3>1. i > 1 /\ Word \subseteq Texts
      BY <1>4 DEF Word
    <3> QED BY <1>4, <3>1, SeqMonotonic
  <2>2. Split(words, text, i) = [words EXCEPT ![Len(words)] = Append(@, text[i])]
    BY <1>4 DEF Split
  <2>3. PICK n \in Nat : n = Len(words) /\ n \in 1 .. Len(words)
    BY <2>1, EmptySeq
  <2>4. words[n] \in Word
    BY <2>3, ElementOfSeq
  <2>5. Append(words[n], text[i]) \in Word
    <3>1. PICK w \in Texts : w = words[n] /\ w \in Word
      BY <2>4 DEF Word
    <3>2. PICK m \in Nat : m = Len(w)
      BY LenProperties DEF Texts
    <3>3. PICK v : v = Append(w, text[i])
      OBVIOUS
    <3>4. /\ v \in Texts /\ v # <<>> /\ Len(v) = m + 1 /\ v[m + 1] = text[i]
          /\ \A k \in 1 .. m : v[k] = w[k]
      BY <1>1, <3>1, <3>2, <3>3, AppendProperties DEF Texts
    <3>5. ASSUME NEW k \in 1 .. m + 1
          PROVE  ~IsSpace(v[k])
      <4>1. CASE k = m + 1
        BY <1>4, <3>4, <4>1
      <4>2. CASE k # m + 1
        <5>1. k \in 1 .. m
          BY <4>2
        <5> QED BY <3>1, <3>2, <3>4, <5>1 DEF Word
      <4> QED BY <4>1, <4>2
    <3> QED BY <3>1, <3>3, <3>4, <3>5 DEF Word
  <2>6. /\ [words EXCEPT ![n] = Append(words[n], text[i])] \in Seq(Word)
        /\ Len([words EXCEPT ![n] = Append(words[n], text[i])]) = n
    BY <2>3, <2>5, ExceptSeq
  <2>7. Split(words, text, i) = [words EXCEPT ![n] = Append(words[n], text[i])]
    BY <2>2, <2>3
  <2>8. n # 0
    BY <2>1, <2>3, EmptySeq
  <2> QED BY <2>6, <2>7, <2>8, EmptySeq
<1> QED BY <1>2, <1>3, <1>4

\* The recursion of SplitAtSpaces, seen after each character.
LEMMA SplitSteps ==
    ASSUME NEW text \in Texts
    PROVE  \E ws : IsSplitting(ws, text) /\ SplitAtSpaces(text) = ws[Len(text)]
<1>1. PICK n \in Nat : n = Len(text)
  BY LenProperties DEF Texts
<1>2. \A k \in 1 .. n : text[k] \in Characters
  BY <1>1, ElementOfSeq DEF Texts
<1> DEFINE D == Seq(Texts)
           turn == [k \in 1 .. n |-> [words \in D |-> Split(words, text, k)]]
           Ws(f) == [i \in 0 .. Len(text) |->
                       IF i = 0 THEN <<>>
                       ELSE IF IsSpace(text[i]) THEN f[i - 1]
                       ELSE IF i = 1 \/ IsSpace(text[i - 1])
                         THEN Append(f[i - 1], <<text[i]>>)
                       ELSE [f[i - 1] EXCEPT ![Len(f[i - 1])] = Append(@, text[i])]]
           chosen == CHOOSE f : f = Ws(f)
<1>3. Steps(turn, n, D) /\ <<>> \in D
  <2> SUFFICES ASSUME NEW k \in 1 .. n, NEW words \in D
               PROVE  Split(words, text, k) \in D
    BY DEF Steps
  <2>1. text[k] \in Characters /\ <<text[k]>> \in Texts
    BY <1>2 DEF Texts
  <2>2. Append(words, <<text[k]>>) \in D
    BY <2>1, AppendProperties
  <2>3. [words EXCEPT ![Len(words)] = Append(@, text[k])] \in D
    BY <2>1, LastLonger
  <2> QED BY <2>2, <2>3 DEF Split
<1>4. PICK f : Iterates(f, n, D, <<>>, turn)
  <2> HIDE DEF turn, D
  <2> QED BY <1>3, Recursion
<1>5. ASSUME NEW i \in 1 .. n
      PROVE  f[i] = Split(f[i - 1], text, i)
  <2>1. f[i] = turn[i][f[i - 1]] /\ f[i - 1] \in D
    <3>1. i - 1 \in 0 .. n
      OBVIOUS
    <3> HIDE DEF turn, D
    <3> QED BY <1>4, <3>1 DEF Iterates
  <2> QED BY <2>1
<1>6. f = Ws(f)
  <2>1. f = [i \in 0 .. n |-> f[i]] /\ f[0] = <<>>
    BY <1>4 DEF Iterates
  <2>2. ASSUME NEW i \in 0 .. n
        PROVE  f[i] = Ws(f)[i]
    <3>1. CASE i = 0
      BY <1>1, <2>1, <3>1
    <3>2. CASE i # 0
      <4>1. i \in 1 .. n
        BY <3>2
      <4>2. f[i] = Split(f[i - 1], text, i)
        BY <1>5, <4>1
      <4>3. Ws(f)[i] = Split(f[i - 1], text, i)
        BY <1>1, <3>2 DEF Split
      <4> QED BY <4>2, <4>3
    <3> QED BY <3>1, <3>2
  <2>3. Ws(f) = [i \in 0 .. n |-> Ws(f)[i]]
    BY <1>1
  <2> HIDE DEF Ws
  <2> QED BY <2>1, <2>2, <2>3
<1>7. chosen = Ws(chosen)
  <2> HIDE DEF Ws
  <2> QED BY <1>6
<1>8. SplitAtSpaces(text) = chosen[Len(text)]
  BY Zenon DEF SplitAtSpaces
<1>9. chosen[0] = <<>> /\ \A i \in 1 .. n : chosen[i] = Split(chosen[i - 1], text, i)
  <2>1. \A i \in 0 .. n : chosen[i] = Ws(chosen)[i]
    BY <1>7
  <2> HIDE DEF chosen
  <2>2. Ws(chosen)[0] = <<>>
    BY <1>1
  <2>3. \A i \in 1 .. n : Ws(chosen)[i] = Split(chosen[i - 1], text, i)
    BY <1>1 DEF Split
  <2>4. 0 \in 0 .. n /\ 1 .. n \subseteq 0 .. n
    OBVIOUS
  <2> HIDE DEF Ws
  <2> QED BY <2>1, <2>2, <2>3, <2>4
<1> HIDE DEF chosen
<1> DEFINE T == {k \in 0 .. n :
                   /\ chosen[k] \in Seq(Word)
                   /\ k > 0 /\ ~IsSpace(text[k]) => chosen[k] # <<>>}
<1>10. 0 \in T
  <2>1. chosen[0] \in Seq(Word)
    BY <1>9, EmptySeq
  <2>2. 0 \in 0 .. n /\ ~(0 > 0)
    OBVIOUS
  <2> QED BY <2>1, <2>2
<1>11. ASSUME NEW k \in 0 .. n - 1, k \in T
       PROVE  k + 1 \in T
  <2>1. PICK i \in 1 .. n : i = k + 1 /\ i - 1 = k
    OBVIOUS
  <2>2. chosen[k] \in Seq(Word) /\ (i > 1 /\ ~IsSpace(text[i - 1]) => chosen[k] # <<>>)
    BY <1>11, <2>1
  <2>3. chosen[i] = Split(chosen[k], text, i)
    BY <1>9, <2>1
  <2>4. chosen[i] \in Seq(Word) /\ (~IsSpace(text[i]) => chosen[i] # <<>>)
    BY <1>1, <2>2, <2>3, SplitFacts
  <2> QED BY <2>1, <2>4
<1>12. \A k \in 0 .. n : k \in T
  <2> HIDE DEF T
  <2> QED BY <1>10, <1>11, UpTo
<1>13. chosen = [k \in 0 .. n |-> chosen[k]]
  <2>1. Ws(chosen) = [k \in 0 .. n |-> Ws(chosen)[k]]
    BY <1>1
  <2> HIDE DEF Ws
  <2> QED BY <1>7, <2>1
<1>14. IsSplitting(chosen, text)
  <2>1. \A k \in 0 .. n : chosen[k] \in Seq(Word)
    BY <1>12
  <2>2. \A k \in 1 .. n : ~IsSpace(text[k]) => chosen[k] # <<>>
    BY <1>12
  <2>3. chosen \in [0 .. n -> Seq(Word)]
    BY <1>13, <2>1
  <2> QED BY <1>1, <1>9, <2>2, <2>3 DEF IsSplitting
<1> QED BY <1>8, <1>14

\* A sequence and one more element.
LEMMA OneMore ==
    ASSUME NEW S, NEW seq \in Seq(S), NEW e \in S, NEW n, n = Len(seq),
           NEW more, more = Append(seq, e)
    PROVE  /\ n \in Nat
           /\ more \in Seq(S) /\ more # <<>>
           /\ Len(more) = n + 1 /\ more[n + 1] = e
           /\ \A k \in 1 .. n : more[k] = seq[k]
  BY AppendProperties, LenProperties

\* Short texts.
LEMMA TextFacts ==
    /\ <<>> \in Texts /\ Len(<<>>) = 0
    /\ \A c \in Characters : <<c>> \in Texts /\ Len(<<c>>) = 1 /\ <<c>>[1] = c
    /\ <<" ">> \in Texts /\ Len(<<" ">>) = 1 /\ <<" ">>[1] = " "
    /\ \A s \in Texts, c \in Characters :
         Append(s, c) \in Texts /\ Append(s, c) = s \o <<c>>
<1>1. \A c \in Characters : <<c>> \in Texts /\ Len(<<c>>) = 1 /\ <<c>>[1] = c
  BY DEF Texts
<1>2. PICK blank \in Characters : blank = " "
  BY CharacterFacts
<1>3. <<blank>> \in Texts /\ Len(<<blank>>) = 1 /\ <<blank>>[1] = blank
  BY <1>1
<1>4. \A s \in Texts, c \in Characters :
         Append(s, c) \in Texts /\ Append(s, c) = s \o <<c>>
  BY AppendProperties, AppendIsConcat DEF Texts
<1> QED BY <1>1, <1>2, <1>3, <1>4, EmptySeq DEF Texts

\* Texts one behind the other.
LEMMA ConcatTexts ==
    /\ \A s, t \in Texts :
         /\ s \o t \in Texts /\ Len(s \o t) = Len(s) + Len(t)
         /\ \A i \in 1 .. Len(s) + Len(t) :
              (s \o t)[i] = IF i <= Len(s) THEN s[i] ELSE t[i - Len(s)]
    /\ \A s \in Texts : s \o <<>> = s /\ <<>> \o s = s
    /\ \A s, t, u \in Texts : (s \o t) \o u = s \o (t \o u)
<1>1. ASSUME NEW s \in Texts, NEW t \in Texts
      PROVE  /\ s \o t \in Texts /\ Len(s \o t) = Len(s) + Len(t)
             /\ \A i \in 1 .. Len(s) + Len(t) :
                  (s \o t)[i] = IF i <= Len(s) THEN s[i] ELSE t[i - Len(s)]
  BY ConcatProperties DEF Texts
<1>2. \A s \in Texts : s \o <<>> = s /\ <<>> \o s = s
  BY ConcatEmptySeq DEF Texts
<1>3. ASSUME NEW s \in Texts, NEW t \in Texts, NEW u \in Texts
      PROVE  (s \o t) \o u = s \o (t \o u)
  <2>1. s \in Seq(Characters) /\ t \in Seq(Characters) /\ u \in Seq(Characters)
    BY DEF Texts
  <2> QED BY <2>1, ConcatAssociative
<1> QED BY <1>1, <1>2, <1>3

\* And their characters.
LEMMA ConcatIs ==
    ASSUME NEW s \in Texts, NEW t \in Texts, NEW a, a = Len(s), NEW b, b = Len(t),
           NEW both, both = s \o t
    PROVE  /\ a \in Nat /\ b \in Nat /\ both \in Texts /\ Len(both) = a + b
           /\ \A i \in 1 .. a + b : both[i] = IF i <= a THEN s[i] ELSE t[i - a]
  BY ConcatTexts, LenProperties DEF Texts

\* The space between two words.
LEMMA BlankIs ==
    ASSUME NEW blank, blank = <<" ">>
    PROVE  /\ blank \in Texts /\ blank # <<>> /\ Len(blank) = 1
           /\ blank[1] = " " /\ IsSpace(blank[1])
<1>1. " " \in Characters /\ IsSpace(" ")
  BY CharacterFacts
<1>2. blank \in Texts /\ Len(blank) = 1 /\ blank[1] = " "
  BY TextFacts
<1> QED BY <1>1, <1>2, EmptySeq

\* One character more.
LEMMA SplitNext ==
    ASSUME NEW text \in Texts, NEW c \in Characters
    PROVE  /\ SplitAtSpaces(text) \in Seq(Word)
           /\ text # <<>> /\ ~IsSpace(text[Len(text)]) => SplitAtSpaces(text) # <<>>
           /\ IsSpace(c) => SplitAtSpaces(Append(text, c)) = SplitAtSpaces(text)
           /\ ~IsSpace(c) /\ (text = <<>> \/ IsSpace(text[Len(text)])) =>
                SplitAtSpaces(Append(text, c)) = Append(SplitAtSpaces(text), <<c>>)
           /\ ~IsSpace(c) /\ text # <<>> /\ ~IsSpace(text[Len(text)]) =>
                SplitAtSpaces(Append(text, c))
                  = [SplitAtSpaces(text) EXCEPT
                       ![Len(SplitAtSpaces(text))] = Append(@, c)]
<1>1. PICK n \in Nat : n = Len(text)
  BY LenProperties DEF Texts
<1>2. PICK more \in Texts :
        /\ more = Append(text, c) /\ Len(more) = n + 1 /\ more[n + 1] = c
        /\ \A k \in 1 .. n : more[k] = text[k]
  <2>1. PICK more : more = Append(text, c)
    OBVIOUS
  <2> QED BY <1>1, <2>1, OneMore DEF Texts
<1>3. PICK ws : IsSplitting(ws, text) /\ SplitAtSpaces(text) = ws[n]
  BY <1>1, SplitSteps
<1>4. PICK vs : IsSplitting(vs, more) /\ SplitAtSpaces(more) = vs[n + 1]
  BY <1>2, SplitSteps
<1> DEFINE T == {k \in 0 .. n : vs[k] = ws[k]}
<1>5. 0 \in T
  BY <1>3, <1>4 DEF IsSplitting
<1>6. ASSUME NEW k \in 0 .. n - 1, k \in T
      PROVE  k + 1 \in T
  <2>1. PICK i \in 1 .. n : i = k + 1 /\ i - 1 = k
    OBVIOUS
  <2>2. ws[i] = Split(ws[i - 1], text, i)
    BY <1>1, <1>3 DEF IsSplitting
  <2>3. vs[i] = Split(vs[i - 1], more, i)
    BY <1>2, <1>4 DEF IsSplitting
  <2>4. more[i] = text[i] /\ (i # 1 => more[i - 1] = text[i - 1])
    BY <1>2
  <2>5. Split(ws[k], text, i) = Split(ws[k], more, i)
    BY <2>4 DEF Split
  <2> QED BY <1>6, <2>1, <2>2, <2>3, <2>5
<1>7. vs[n] = ws[n]
  <2>1. \A k \in 0 .. n : k \in T
    <3> HIDE DEF T
    <3> QED BY <1>5, <1>6, UpTo
  <2> QED BY <2>1
<1>8. vs[n + 1] = Split(ws[n], more, n + 1)
  <2>1. PICK i \in 1 .. n + 1 : i = n + 1 /\ i - 1 = n
    OBVIOUS
  <2>2. vs[i] = Split(vs[i - 1], more, i)
    BY <1>2, <1>4 DEF IsSplitting
  <2> QED BY <1>7, <2>1, <2>2
<1>9. ws[n] \in Seq(Word) /\ (n # 0 /\ ~IsSpace(text[n]) => ws[n] # <<>>)
  <2>1. n # 0 => n \in 1 .. n
    OBVIOUS
  <2> QED BY <1>1, <1>3, <2>1 DEF IsSplitting
<1>10. text = <<>> <=> n = 0
  BY <1>1, EmptySeq DEF Texts
<1>11. n # 0 => more[(n + 1) - 1] = text[n] /\ n + 1 # 1
  BY <1>2
<1>12. n = 0 => n + 1 = 1
  OBVIOUS
<1> QED BY <1>1, <1>2, <1>3, <1>4, <1>8, <1>9, <1>10, <1>11, <1>12 DEF Split

\* An empty text has no words.
LEMMA SplitNone == SplitAtSpaces(<<>>) = <<>>
<1>1. <<>> \in Texts /\ Len(<<>>) = 0
  BY EmptySeq DEF Texts
<1>2. PICK ws : IsSplitting(ws, <<>>) /\ SplitAtSpaces(<<>>) = ws[0]
  BY <1>1, SplitSteps
<1> QED BY <1>2 DEF IsSplitting

\* A text has words unless it is all white space.
LEMMA SplitEmpty ==
    ASSUME NEW text \in Texts
    PROVE  /\ SplitAtSpaces(text) \in Seq(Word)
           /\ SplitAtSpaces(text) = <<>> <=> \A i \in DOMAIN text : IsSpace(text[i])
<1> DEFINE blank(s) == \A i \in 1 .. Len(s) : IsSpace(s[i])
           T == {s \in Texts : SplitAtSpaces(s) = <<>> <=> blank(s)}
<1>1. <<>> \in T
  BY SplitNone, EmptySeq DEF Texts
<1>2. ASSUME NEW s \in Texts, NEW c \in Characters, s \in T
      PROVE  Append(s, c) \in T
  <2>1. PICK n \in Nat : n = Len(s) /\ (s # <<>> => n \in 1 .. n)
    BY EmptySeq, LenProperties DEF Texts
  <2>2. PICK more \in Texts :
          /\ more = Append(s, c) /\ Len(more) = n + 1 /\ more[n + 1] = c
          /\ \A k \in 1 .. n : more[k] = s[k]
    <3>1. PICK more : more = Append(s, c)
      OBVIOUS
    <3> QED BY <2>1, <3>1, OneMore DEF Texts
  <2>3. PICK words \in Seq(Word) : words = SplitAtSpaces(s)
    BY SplitNext
  <2>4. words = <<>> <=> blank(s)
    BY <1>2, <2>3
  <2>5. CASE IsSpace(c)
    <3>1. SplitAtSpaces(more) = words
      BY <2>2, <2>3, <2>5, SplitNext
    <3>2. blank(more) <=> blank(s)
      <4>1. \A k \in 1 .. n + 1 : k = n + 1 \/ k \in 1 .. n
        OBVIOUS
      <4> QED BY <2>1, <2>2, <2>5, <4>1
    <3> QED BY <2>2, <2>4, <3>1, <3>2
  <2>6. CASE ~IsSpace(c)
    <3>1. ~blank(more)
      BY <2>2, <2>6
    <3>2. SplitAtSpaces(more) # <<>>
      <4>1. CASE s = <<>> \/ IsSpace(s[n])
        <5>1. SplitAtSpaces(more) = Append(words, <<c>>)
          BY <2>1, <2>2, <2>3, <2>6, <4>1, SplitNext
        <5>2. words \in Seq(Texts) /\ <<c>> \in Texts
          <6>1. Word \subseteq Texts
            BY DEF Word
          <6> QED BY <6>1, SeqMonotonic DEF Texts
        <5> QED BY <5>1, <5>2, AppendProperties
      <4>2. CASE s # <<>> /\ ~IsSpace(s[n])
        <5>1. /\ SplitAtSpaces(more) = [words EXCEPT ![Len(words)] = Append(@, c)]
              /\ words # <<>>
          BY <2>1, <2>2, <2>3, <2>6, <4>2, SplitNext
        <5>2. DOMAIN words = 1 .. Len(words) /\ Len(words) \in Nat \ {0}
          BY <5>1, EmptySeq, LenProperties
        <5>3. DOMAIN SplitAtSpaces(more) = 1 .. Len(words)
          BY <5>1, <5>2
        <5>4. DOMAIN SplitAtSpaces(more) # 1 .. 0
          BY <5>2, <5>3
        <5> QED BY <5>4
      <4> QED BY <4>1, <4>2
    <3> QED BY <2>2, <3>1, <3>2
  <2> QED BY <2>5, <2>6
<1>3. text \in T
  <2> HIDE DEF T
  <2> QED BY <1>1, <1>2, SequenceInduction DEF Texts
<1>4. DOMAIN text = 1 .. Len(text)
  BY LenProperties DEF Texts
<1>5. SplitAtSpaces(text) \in Seq(Word)
  <2>1. PICK ws : IsSplitting(ws, text) /\ SplitAtSpaces(text) = ws[Len(text)]
    BY SplitSteps
  <2>2. Len(text) \in 0 .. Len(text)
    BY LenProperties DEF Texts
  <2> QED BY <2>1, <2>2 DEF IsSplitting
<1> QED BY <1>3, <1>4, <1>5

-----------------------------------------------------------------------------
(* Words joined by single spaces.                                          *)

\* No words are an empty text.
LEMMA SpacedNone == Spaced(<<>>) = <<>>
<1>1. DOMAIN <<>> = {}
  OBVIOUS
<1>2. [k \in DOMAIN <<>> |-> IF k = 1 THEN <<>>[k] ELSE <<" ">> \o <<>>[k]] = <<>>
  BY <1>1
<1> QED BY <1>2, FlattenNone DEF Spaced

\* One more word goes behind a space.
LEMMA SpacedNext ==
    ASSUME NEW words \in Seq(Texts), NEW w \in Texts
    PROVE  Spaced(Append(words, w))
             = IF words = <<>> THEN Spaced(words) \o w
               ELSE Spaced(words) \o (<<" ">> \o w)
<1>1. PICK n \in Nat : n = Len(words) /\ DOMAIN words = 1 .. n
  BY LenProperties
<1>2. PICK more \in Seq(Texts) :
        /\ more = Append(words, w) /\ Len(more) = n + 1 /\ more[n + 1] = w
        /\ \A k \in 1 .. n : more[k] = words[k]
  <2>1. PICK more : more = Append(words, w)
    OBVIOUS
  <2> QED BY <1>1, <2>1, OneMore
<1>3. DOMAIN more = 1 .. n + 1
  BY <1>2, LenProperties
<1>4. \A k \in 1 .. n + 1 : more[k] \in Texts
  BY <1>2, ElementOfSeq
<1>5. \A t \in Texts : <<" ">> \o t \in Texts
  <2> QED BY TextFacts, ConcatTexts
<1>6. PICK seqs : seqs = [k \in 1 .. n + 1 |->
                            IF k = 1 THEN more[k] ELSE <<" ">> \o more[k]]
  OBVIOUS
<1>7. seqs \in [1 .. n + 1 -> Texts]
  BY <1>4, <1>5, <1>6
<1>8. FlattenSeq(seqs) = FlattenSeq([k \in 1 .. n |-> seqs[k]]) \o seqs[n + 1]
  BY <1>7, FlattenNext DEF Texts
<1>9. Spaced(more) = FlattenSeq(seqs)
  BY <1>3, <1>6 DEF Spaced
<1>10. Spaced(words) = FlattenSeq([k \in 1 .. n |-> seqs[k]])
  <2>1. \A k \in 1 .. n :
          seqs[k] = IF k = 1 THEN words[k] ELSE <<" ">> \o words[k]
    <3>1. \A k \in 1 .. n : k \in 1 .. n + 1
      OBVIOUS
    <3> QED BY <1>2, <1>6, <3>1
  <2>2. [k \in 1 .. n |-> seqs[k]]
          = [k \in DOMAIN words |-> IF k = 1 THEN words[k] ELSE <<" ">> \o words[k]]
    BY <1>1, <2>1
  <2> QED BY <2>2 DEF Spaced
<1>11. seqs[n + 1] = IF words = <<>> THEN w ELSE <<" ">> \o w
  <2>1. words = <<>> <=> n = 0
    BY <1>1, EmptySeq
  <2>2. n + 1 \in 1 .. n + 1 /\ (n + 1 = 1 <=> n = 0)
    OBVIOUS
  <2> QED BY <1>2, <1>6, <2>1, <2>2
<1> QED BY <1>2, <1>8, <1>9, <1>10, <1>11

\* Words, spaced, are a text.
LEMMA SpacedIsText ==
    ASSUME NEW words \in Seq(Texts)
    PROVE  Spaced(words) \in Texts
<1> DEFINE T == {ws \in Seq(Texts) : Spaced(ws) \in Texts}
<1>1. <<>> \in T
  BY SpacedNone, EmptySeq DEF Texts
<1>2. ASSUME NEW ws \in Seq(Texts), NEW w \in Texts, ws \in T
      PROVE  Append(ws, w) \in T
  <2>1. Append(ws, w) \in Seq(Texts)
    BY AppendProperties
  <2>2. <<" ">> \o w \in Texts
    BY TextFacts, ConcatTexts
  <2>3. Spaced(ws) \o w \in Texts /\ Spaced(ws) \o (<<" ">> \o w) \in Texts
    BY <1>2, <2>2, ConcatTexts
  <2> QED BY <2>1, <2>3, SpacedNext
<1>3. words \in T
  <2> HIDE DEF T
  <2> QED BY <1>1, <1>2, SequenceInduction
<1> QED BY <1>3

\* A longer last word.
LEMMA SpacedLonger ==
    ASSUME NEW words \in Seq(Texts), words # <<>>, NEW c \in Characters
    PROVE  Spaced([words EXCEPT ![Len(words)] = Append(@, c)])
             = Append(Spaced(words), c)
<1>1. PICK longer : longer = [words EXCEPT ![Len(words)] = Append(@, c)]
  OBVIOUS
<1>2. PICK front \in Seq(Texts), last \in Texts :
        words = Append(front, last) /\ longer = Append(front, Append(last, c))
  <2>1. \E front \in Seq(Texts) : \E last \in Texts :
          /\ words = Append(front, last)
          /\ [words EXCEPT ![Len(words)] = Append(@, c)] = Append(front, Append(last, c))
    BY LastLonger
  <2> QED BY <1>1, <2>1
<1>3. /\ Append(last, c) \in Texts /\ Append(last, c) = last \o <<c>>
      /\ <<c>> \in Texts /\ <<" ">> \in Texts
      /\ Spaced(front) \in Texts /\ Spaced(words) \in Texts
  BY TextFacts, SpacedIsText
<1>4. CASE front = <<>>
  <2>1. Spaced(words) = Spaced(front) \o last
    BY <1>2, <1>4, SpacedNext
  <2>2. Spaced(longer) = Spaced(front) \o (last \o <<c>>)
    BY <1>2, <1>3, <1>4, SpacedNext
  <2>3. Spaced(longer) = Spaced(words) \o <<c>>
    <3>1. PICK begin \in Texts, end \in Texts : begin = Spaced(front) /\ end = <<c>>
      BY <1>3
    <3>2. (begin \o last) \o end = begin \o (last \o end)
      BY ConcatTexts
    <3> QED BY <2>1, <2>2, <3>1, <3>2
  <2> QED BY <1>1, <1>3, <2>3, TextFacts
<1>5. CASE front # <<>>
  <2>1. Spaced(words) = Spaced(front) \o (<<" ">> \o last)
    BY <1>2, <1>5, SpacedNext
  <2>2. Spaced(longer) = Spaced(front) \o (<<" ">> \o (last \o <<c>>))
    BY <1>2, <1>3, <1>5, SpacedNext
  <2>3. <<" ">> \o (last \o <<c>>) = (<<" ">> \o last) \o <<c>>
    BY <1>3, ConcatTexts
  <2>4. PICK tail \in Texts : tail = <<" ">> \o last
    BY <1>3, ConcatTexts
  <2>5. Spaced(longer) = Spaced(words) \o <<c>>
    <3>1. PICK begin \in Texts, end \in Texts : begin = Spaced(front) /\ end = <<c>>
      BY <1>3
    <3>2. (begin \o tail) \o end = begin \o (tail \o end)
      BY <2>4, ConcatTexts
    <3> QED BY <2>1, <2>2, <2>3, <2>4, <3>1, <3>2
  <2> QED BY <1>1, <1>3, <2>5, TextFacts
<1> QED BY <1>4, <1>5

\* Words are texts.
LEMMA WordsAreTexts ==
    /\ \A w \in Word : w \in Texts /\ w # <<>>
    /\ \A ws \in Seq(Word) : ws \in Seq(Texts)
    /\ \A c \in Characters : ~IsSpace(c) => <<c>> \in Word
<1>1. Word \subseteq Texts
  BY DEF Word
<1>2. \A ws \in Seq(Word) : ws \in Seq(Texts)
  BY <1>1, SeqMonotonic
<1>3. ASSUME NEW c \in Characters, ~IsSpace(c)
      PROVE  <<c>> \in Word
  <2>1. PICK w \in Texts : w = <<c>> /\ Len(w) = 1 /\ w[1] = c
    BY TextFacts
  <2>2. w # <<>>
    BY <2>1, TextFacts
  <2> QED BY <1>3, <2>1, <2>2 DEF Word
<1> QED BY <1>1, <1>2, <1>3 DEF Word

\* Texts trimmed: white space goes from both ends, and nothing else.
LEMMA TrimMiddle ==
    ASSUME NEW lead \in Texts, NEW mid \in Texts, NEW trail \in Texts,
           \A i \in 1 .. Len(lead) : IsSpace(lead[i]),
           \A i \in 1 .. Len(trail) : IsSpace(trail[i]),
           mid # <<>> => ~IsSpace(mid[1]) /\ ~IsSpace(mid[Len(mid)])
    PROVE  TrimCopy((lead \o mid) \o trail) = mid
<1>1. PICK a \in Nat, b \in Nat, z \in Nat :
        a = Len(lead) /\ b = Len(mid) /\ z = Len(trail)
  BY LenProperties DEF Texts
<1>2. PICK begin \in Texts : begin = lead \o mid
  BY ConcatTexts
<1>3. PICK text \in Texts : text = (lead \o mid) \o trail
  BY <1>2, ConcatTexts
<1>4. /\ Len(begin) = a + b
      /\ \A i \in 1 .. a + b : begin[i] = IF i <= a THEN lead[i] ELSE mid[i - a]
  BY <1>1, <1>2, ConcatTexts
<1>5. /\ Len(text) = (a + b) + z
      /\ \A i \in 1 .. (a + b) + z :
           text[i] = IF i <= a + b THEN begin[i] ELSE trail[i - (a + b)]
  <2>1. PICK e : e = Len(begin)
    OBVIOUS
  <2>2. text = begin \o trail
    BY <1>2, <1>3
  <2>3. /\ Len(text) = e + z
        /\ \A i \in 1 .. e + z : text[i] = IF i <= e THEN begin[i] ELSE trail[i - e]
    BY <1>1, <2>1, <2>2, ConcatIs
  <2> QED BY <1>4, <2>1, <2>3
<1>6. \A i \in 1 .. (a + b) + z :
        text[i] = IF i <= a THEN lead[i]
                  ELSE IF i <= a + b THEN mid[i - a] ELSE trail[i - (a + b)]
  <2> SUFFICES ASSUME NEW i \in 1 .. (a + b) + z
               PROVE  text[i] = IF i <= a THEN lead[i]
                                ELSE IF i <= a + b THEN mid[i - a]
                                ELSE trail[i - (a + b)]
    OBVIOUS
  <2>1. i <= a + b => i \in 1 .. a + b
    OBVIOUS
  <2> QED BY <1>4, <1>5, <2>1
<1> DEFINE kept == {i \in DOMAIN text : ~IsSpace(text[i])}
<1>7. DOMAIN text = 1 .. (a + b) + z
  BY <1>5, LenProperties DEF Texts
<1>8. ASSUME NEW i \in kept
      PROVE  a + 1 <= i /\ i <= a + b
  <2>1. i \in 1 .. (a + b) + z /\ ~IsSpace(text[i])
    BY <1>7
  <2>2. i <= a => i \in 1 .. a
    BY <2>1
  <2>3. i > a + b => i - (a + b) \in 1 .. z
    BY <2>1
  <2> QED BY <1>1, <1>6, <2>1, <2>2, <2>3
<1>9. CASE mid = <<>>
  <2>1. b = 0
    BY <1>1, <1>9, TextFacts
  <2>2. kept = {}
    <3>1. \A i \in kept : FALSE
      <4>1. \A i \in kept : i \in Int
        BY <1>7
      <4> HIDE DEF kept
      <4> QED BY <1>8, <2>1, <4>1
    <3> HIDE DEF kept
    <3> QED BY <3>1
  <2>3. TrimCopy(text) = <<>>
    BY <2>2 DEF TrimCopy
  <2> QED BY <1>3, <1>9, <2>3
<1>10. CASE mid # <<>>
  <2>1. b > 0
    BY <1>1, <1>10, EmptySeq DEF Texts
  <2>2. a + 1 \in kept /\ a + b \in kept
    <3>1. text[a + 1] = mid[1] /\ text[a + b] = mid[b]
      BY <1>6, <2>1
    <3> QED BY <1>1, <1>7, <1>10, <2>1, <3>1
  <2>3. kept # {} /\ \A i \in kept : i \in Int
    BY <1>7, <2>2
  <2>4. Min(kept) = a + 1 /\ Max(kept) = a + b
    <3>1. Min(kept) \in kept /\ \A i \in kept : Min(kept) <= i
      <4> HIDE DEF kept
      <4>1. \E x \in kept : \A y \in kept : x <= y
        BY <1>8, <2>2
      <4> QED BY <4>1 DEF Min
    <3>2. Max(kept) \in kept /\ \A i \in kept : Max(kept) >= i
      <4> HIDE DEF kept
      <4>1. \E x \in kept : \A y \in kept : x >= y
        BY <1>8, <2>2, <2>3
      <4> QED BY <4>1 DEF Max
    <3> HIDE DEF kept
    <3> QED BY <1>8, <2>2, <2>3, <3>1, <3>2
  <2>5. TrimCopy(text) = SubSeq(text, a + 1, a + b)
    BY <2>3, <2>4 DEF TrimCopy
  <2>6. PICK part : part = SubSeq(text, a + 1, a + b)
    OBVIOUS
  <2>7. part \in Texts /\ Len(part) = b /\ \A i \in 1 .. b : part[i] = mid[i]
    <3>1. \A i \in a + 1 .. a + b : text[i] \in Characters
      <4>1. \A i \in 1 .. Len(text) : text[i] \in Characters
        BY ElementOfSeq DEF Texts
      <4>2. \A i \in a + 1 .. a + b : i \in 1 .. Len(text)
        BY <1>5
      <4> QED BY <4>1, <4>2
    <3>2. /\ part \in Seq(Characters)
          /\ Len(part) = IF a + 1 <= a + b THEN (a + b) - (a + 1) + 1 ELSE 0
          /\ \A i \in 1 .. (a + b) - (a + 1) + 1 : part[i] = text[(a + 1) + i - 1]
      BY <2>6, <3>1, SubSeqProperties
    <3>3. \A i \in 1 .. b : text[(a + 1) + i - 1] = mid[i]
      <4> SUFFICES ASSUME NEW i \in 1 .. b PROVE text[(a + 1) + i - 1] = mid[i]
        OBVIOUS
      <4>1. PICK p \in 1 .. (a + b) + z :
              p = (a + 1) + i - 1 /\ p > a /\ p <= a + b /\ p - a = i
        OBVIOUS
      <4> QED BY <1>6, <4>1
    <3> QED BY <2>1, <3>2, <3>3 DEF Texts
  <2>8. part = mid
    BY <1>1, <2>7, SeqEqual DEF Texts
  <2> QED BY <1>3, <2>5, <2>6, <2>8
<1> QED BY <1>9, <1>10

\* Words joined by spaces begin and end with a word.
LEMMA SpacedEnds ==
    ASSUME NEW words \in Seq(Word), words # <<>>
    PROVE  /\ Spaced(words) \in Texts /\ Spaced(words) # <<>>
           /\ ~IsSpace(Spaced(words)[1])
           /\ ~IsSpace(Spaced(words)[Len(Spaced(words))])
<1> DEFINE good(s) == s # <<>> /\ ~IsSpace(s[1]) /\ ~IsSpace(s[Len(s)])
           T == {ws \in Seq(Word) : ws # <<>> => good(Spaced(ws))}
<1>1. <<>> \in T
  BY EmptySeq
<1>2. ASSUME NEW ws \in Seq(Word), NEW w \in Word, ws \in T
      PROVE  Append(ws, w) \in T
  <2>1. Append(ws, w) \in Seq(Word)
    BY AppendProperties
  <2>2. w \in Texts /\ ws \in Seq(Texts)
    BY WordsAreTexts
  <2>3. PICK b \in Nat : b = Len(w) /\ b > 0
    BY WordsAreTexts, EmptySeq DEF Texts
  <2>4. ~IsSpace(w[1]) /\ ~IsSpace(w[b])
    BY <2>3 DEF Word
  <2>5. PICK whole : whole = Spaced(Append(ws, w))
    OBVIOUS
  <2>6. CASE ws = <<>>
    <3>1. whole = w
      BY <2>2, <2>5, <2>6, SpacedNext, SpacedNone, ConcatTexts
    <3> QED BY <2>1, <2>3, <2>4, <2>5, <3>1, WordsAreTexts
  <2>7. CASE ws # <<>>
    <3>1. PICK begin \in Texts : begin = Spaced(ws) /\ good(begin)
      BY <1>2, <2>2, <2>7, SpacedIsText
    <3>2. PICK blank : blank = <<" ">>
      OBVIOUS
    <3>3. PICK tail \in Texts :
            tail = blank \o w /\ Len(tail) = 1 + b /\ tail[1 + b] = w[b]
      <4>1. blank \in Texts /\ Len(blank) = 1
        BY <3>2, BlankIs
      <4>2. PICK tail : tail = blank \o w
        OBVIOUS
      <4>3. /\ tail \in Texts /\ Len(tail) = 1 + b
            /\ \A i \in 1 .. 1 + b : tail[i] = IF i <= 1 THEN blank[i] ELSE w[i - 1]
        <5>1. PICK e : e = Len(blank) /\ blank \in Texts
          BY <4>1
        <5>2. tail \in Texts /\ Len(tail) = e + b
          BY <2>2, <2>3, <4>2, <5>1, ConcatTexts
        <5>3. \A i \in 1 .. e + b : tail[i] = IF i <= e THEN blank[i] ELSE w[i - e]
          BY <2>2, <2>3, <4>2, <5>1, ConcatIs
        <5> QED BY <4>1, <5>1, <5>2, <5>3
      <4>4. 1 + b \in 1 .. 1 + b /\ ~(1 + b <= 1) /\ (1 + b) - 1 = b
        BY <2>3
      <4> QED BY <4>2, <4>3, <4>4
    <3>4. whole = begin \o tail
      BY <2>2, <2>5, <2>7, <3>1, <3>2, <3>3, SpacedNext
    <3>5. PICK a \in Nat : a = Len(begin) /\ a > 0
      BY <3>1, EmptySeq DEF Texts
    <3>6. /\ whole \in Texts /\ Len(whole) = a + (1 + b)
          /\ \A i \in 1 .. a + (1 + b) :
               whole[i] = IF i <= a THEN begin[i] ELSE tail[i - a]
      <4>1. PICK z : z = Len(tail)
        OBVIOUS
      <4>2. whole \in Texts /\ Len(whole) = a + z
        BY <3>4, <3>5, <4>1, ConcatTexts
      <4>3. \A i \in 1 .. a + z : whole[i] = IF i <= a THEN begin[i] ELSE tail[i - a]
        BY <3>4, <3>5, <4>1, ConcatIs
      <4> QED BY <3>3, <4>1, <4>2, <4>3
    <3>7. whole[1] = begin[1] /\ whole[a + (1 + b)] = tail[1 + b]
      <4>1. 1 <= a /\ 1 \in 1 .. a + (1 + b)
        BY <3>5
      <4>2. PICK p \in 1 .. a + (1 + b) : p = a + (1 + b) /\ ~(p <= a) /\ p - a = 1 + b
        BY <3>5
      <4> QED BY <3>6, <4>1, <4>2
    <3>8. whole # <<>>
      <4>1. Len(whole) # 0
        BY <3>5, <3>6
      <4> QED BY <4>1, TextFacts
    <3> QED BY <2>1, <2>4, <2>5, <3>1, <3>3, <3>6, <3>7, <3>8
  <2> QED BY <2>6, <2>7
<1>3. words \in T
  <2> HIDE DEF T
  <2> QED BY <1>1, <1>2, SequenceInduction
<1> QED BY <1>3, WordsAreTexts, SpacedIsText

-----------------------------------------------------------------------------
(* What is written while white space is collapsed: the words so far, after *)
(* a space if the text starts with one, before a space if it ends in one.  *)
Between == {<<>>, <<" ">>}

\* What is written of the words so far.
HasCollapsed(state, words) ==
    \E lead, trail \in Between :
        /\ state.out = (lead \o Spaced(words)) \o trail
        /\ trail = IF state.previous_space /\ words # <<>> THEN <<" ">> ELSE <<>>
        /\ words = <<>> => (lead = <<" ">> <=> state.previous_space)

\* What may stand in front of and behind them.
LEMMA BetweenFacts ==
    /\ Between \subseteq Texts
    /\ \A gap \in Between : \A i \in 1 .. Len(gap) : IsSpace(gap[i])
    /\ <<>> # <<" ">>
<1>1. PICK blank : blank = <<" ">>
  OBVIOUS
<1>2. blank \in Texts /\ blank # <<>> /\ Len(blank) = 1 /\ IsSpace(blank[1])
  BY <1>1, BlankIs
<1>3. <<>> \in Texts /\ Len(<<>>) = 0
  BY TextFacts
<1>4. Between = {<<>>, blank}
  BY <1>1 DEF Between
<1>5. ASSUME NEW gap \in Between, NEW i \in 1 .. Len(gap)
      PROVE  IsSpace(gap[i])
  <2>1. CASE gap = <<>>
    <3>1. i \in 1 .. 0
      BY <1>3, <1>5, <2>1
    <3> QED BY <3>1
  <2>2. CASE gap = blank
    <3>1. i \in 1 .. 1
      BY <1>2, <1>5, <2>2
    <3> QED BY <1>2, <2>2, <3>1
  <2> QED BY <1>4, <2>1, <2>2
<1> QED BY <1>1, <1>2, <1>3, <1>4, <1>5

\* A turn of collapse_ws keeps this.
LEMMA PushCollapses ==
    ASSUME NEW state \in Pushing, NEW words \in Seq(Word), NEW c \in Characters,
           HasCollapsed(state, words)
    PROVE  /\ IsSpace(c) => HasCollapsed(Push(state, c), words)
           /\ ~IsSpace(c) /\ (state.previous_space \/ words = <<>>)
                => HasCollapsed(Push(state, c), Append(words, <<c>>))
           /\ ~IsSpace(c) /\ ~state.previous_space /\ words # <<>>
                => HasCollapsed(Push(state, c),
                                [words EXCEPT ![Len(words)] = Append(@, c)])
<1>1. PICK lead \in Between, trail \in Between :
        /\ state.out = (lead \o Spaced(words)) \o trail
        /\ trail = IF state.previous_space /\ words # <<>> THEN <<" ">> ELSE <<>>
        /\ words = <<>> => (lead = <<" ">> <=> state.previous_space)
  BY DEF HasCollapsed
<1>2. lead \in Texts /\ trail \in Texts /\ state.out \in Texts
  BY BetweenFacts DEF Pushing
<1>3. words \in Seq(Texts) /\ Spaced(words) \in Texts
  BY WordsAreTexts, SpacedIsText
<1>4. PICK all \in Texts : all = lead \o Spaced(words)
  BY <1>2, <1>3, ConcatTexts
<1>5. Push(state, c).previous_space = IsSpace(c)
  BY DEF Push
<1>6. PICK end \in Texts : end = <<c>>
  BY TextFacts
<1>7. ASSUME IsSpace(c)
      PROVE  HasCollapsed(Push(state, c), words)
  <2>1. CASE state.previous_space
    <3>1. Push(state, c).out = state.out
      BY <1>7, <2>1 DEF Push
    <3> QED BY <1>1, <1>5, <1>7, <2>1, <3>1 DEF HasCollapsed
  <2>2. CASE ~state.previous_space
    <3>1. trail = <<>> /\ state.out = all
      BY <1>1, <1>2, <1>4, <2>2, ConcatTexts
    <3>2. Push(state, c).out = Append(state.out, " ")
      BY <1>7, <2>2 DEF Push
    <3>3. Push(state, c).out = all \o <<" ">>
      BY <3>1, <3>2, TextFacts, CharacterFacts
    <3>4. CASE words # <<>>
      <4>1. <<" ">> \in Between
        BY DEF Between
      <4> QED BY <1>4, <1>5, <1>7, <3>3, <3>4, <4>1 DEF HasCollapsed
    <3>5. CASE words = <<>>
      <4>1. lead = <<>>
        BY <1>1, <2>2, <3>5 DEF Between
      <4>2. all = <<>>
        BY <1>4, <3>5, <4>1, SpacedNone, ConcatTexts, TextFacts
      <4>3. Push(state, c).out = (<<" ">> \o Spaced(words)) \o <<>>
        <5>1. PICK blank \in Texts : blank = <<" ">>
          BY TextFacts
        <5>2. /\ <<>> \o blank = blank /\ blank \o <<>> = blank
              /\ Spaced(words) = <<>>
          BY <3>5, SpacedNone, ConcatTexts
        <5> QED BY <3>3, <4>2, <5>1, <5>2
      <4>4. <<" ">> \in Between /\ <<>> \in Between
        BY DEF Between
      <4> QED BY <1>5, <1>7, <3>5, <4>3, <4>4 DEF HasCollapsed
    <3> QED BY <3>4, <3>5
  <2> QED BY <2>1, <2>2
<1>8. ASSUME ~IsSpace(c)
      PROVE  Push(state, c).out = ((lead \o Spaced(words)) \o trail) \o end
  <2>1. Push(state, c).out = Append(state.out, c)
    BY <1>8 DEF Push
  <2>2. Push(state, c).out = state.out \o end
    BY <1>2, <1>6, <2>1, TextFacts
  <2> QED BY <1>1, <2>2
<1>9. ASSUME NEW longer, longer # <<>>, ~IsSpace(c),
             Push(state, c).out = lead \o Spaced(longer),
             Spaced(longer) \in Texts
      PROVE  HasCollapsed(Push(state, c), longer)
  <2>1. PICK other \in Texts : other = lead \o Spaced(longer)
    BY <1>2, <1>9, ConcatTexts
  <2>2. Push(state, c).out = (lead \o Spaced(longer)) \o <<>>
    BY <1>9, <2>1, ConcatTexts
  <2>3. <<>> \in Between
    BY DEF Between
  <2> QED BY <1>5, <1>9, <2>2, <2>3 DEF HasCollapsed
<1>10. ASSUME ~IsSpace(c), state.previous_space \/ words = <<>>
       PROVE  HasCollapsed(Push(state, c), Append(words, <<c>>))
  <2>1. PICK longer : longer = Append(words, <<c>>)
    OBVIOUS
  <2>2. longer \in Seq(Texts) /\ longer # <<>> /\ Spaced(longer) \in Texts
    <3>1. longer \in Seq(Texts) /\ longer # <<>>
      BY <1>3, <1>6, <2>1, AppendProperties
    <3> QED BY <3>1, SpacedIsText
  <2>3. Spaced(longer) = IF words = <<>> THEN Spaced(words) \o end
                         ELSE Spaced(words) \o (<<" ">> \o end)
    BY <1>3, <1>6, <2>1, SpacedNext
  <2>4. PICK old \in Texts : old = Spaced(words)
    BY <1>3
  <2>5. PICK blank \in Texts : blank = <<" ">> /\ blank \o end \in Texts
    BY TextFacts, ConcatTexts
  <2>6. CASE words = <<>>
    <3>1. trail = <<>> /\ (lead \o old) \o <<>> = lead \o old
      BY <1>1, <1>2, <2>6, ConcatTexts
    <3>2. (lead \o old) \o end = lead \o (old \o end)
      BY <1>2, ConcatTexts
    <3>3. Push(state, c).out = lead \o Spaced(longer)
      BY <1>8, <1>10, <2>3, <2>4, <2>6, <3>1, <3>2
    <3> QED BY <1>9, <1>10, <2>1, <2>2, <3>3
  <2>7. CASE words # <<>>
    <3>1. trail = blank
      BY <1>1, <1>10, <2>5, <2>7
    <3>2. ((lead \o old) \o blank) \o end = lead \o (old \o (blank \o end))
      <4>1. PICK begin \in Texts : begin = lead \o old
        BY <1>2, ConcatTexts
      <4>2. (begin \o blank) \o end = begin \o (blank \o end)
        BY ConcatTexts
      <4>3. PICK rear \in Texts : rear = blank \o end
        BY <2>5
      <4>4. (lead \o old) \o rear = lead \o (old \o rear)
        BY <1>2, ConcatTexts
      <4> QED BY <4>1, <4>2, <4>3, <4>4
    <3>3. Push(state, c).out = lead \o Spaced(longer)
      BY <1>8, <1>10, <2>3, <2>4, <2>5, <2>7, <3>1, <3>2
    <3> QED BY <1>9, <1>10, <2>1, <2>2, <3>3
  <2> QED BY <2>6, <2>7
<1>11. ASSUME ~IsSpace(c), ~state.previous_space, words # <<>>
       PROVE  HasCollapsed(Push(state, c), [words EXCEPT ![Len(words)] = Append(@, c)])
  <2>1. PICK longer : longer = [words EXCEPT ![Len(words)] = Append(@, c)]
    OBVIOUS
  <2>2. longer # <<>>
    <3>1. DOMAIN longer = 1 .. Len(words) /\ Len(words) \in Nat \ {0}
      BY <1>11, <2>1, EmptySeq, LenProperties
    <3>2. DOMAIN longer # 1 .. 0
      BY <3>1
    <3> QED BY <3>2
  <2>3. Spaced(longer) = Append(Spaced(words), c)
    BY <1>3, <1>11, <2>1, SpacedLonger
  <2>4. PICK old \in Texts : old = Spaced(words)
    BY <1>3
  <2>5. Spaced(longer) = old \o end /\ Spaced(longer) \in Texts
    BY <1>6, <2>3, <2>4, TextFacts
  <2>6. trail = <<>> /\ (lead \o old) \o <<>> = lead \o old
    BY <1>1, <1>2, <1>11, ConcatTexts
  <2>7. (lead \o old) \o end = lead \o (old \o end)
    BY <1>2, ConcatTexts
  <2>8. Push(state, c).out = lead \o Spaced(longer)
    BY <1>8, <1>11, <2>4, <2>5, <2>6, <2>7
  <2> QED BY <1>9, <1>11, <2>1, <2>2, <2>5, <2>8
<1> QED BY <1>7, <1>10, <1>11

\* collapse_ws joins the words of a text by single spaces.
LEMMA CollapseIs ==
    ASSUME NEW text \in Texts
    PROVE  /\ CollapseWs(text) = Spaced(SplitAtSpaces(text))
           /\ CollapseWs(text) \in Texts
<1>1. PICK n \in Nat : n = Len(text)
  BY LenProperties DEF Texts
<1>2. \A k \in 1 .. n : text[k] \in Characters
  BY <1>1, ElementOfSeq DEF Texts
<1>3. PICK st : IsCollapsing(st, text) /\ CollapseWs(text) = TrimCopy(st[n].out)
  BY <1>1, CollapseSteps
<1>4. PICK ws : IsSplitting(ws, text) /\ SplitAtSpaces(text) = ws[n]
  BY <1>1, SplitSteps
<1>5. \A k \in 0 .. n : st[k] \in Pushing /\ ws[k] \in Seq(Word)
  BY <1>1, <1>3, <1>4 DEF IsCollapsing, IsSplitting
<1> DEFINE ends(k) == /\ k = 0 => ~st[k].previous_space /\ ws[k] = <<>>
                      /\ k > 0 => (st[k].previous_space <=> IsSpace(text[k]))
           T == {k \in 0 .. n : HasCollapsed(st[k], ws[k]) /\ ends(k)}
<1>6. 0 \in T
  <2>1. st[0] = NothingPushed /\ ws[0] = <<>>
    BY <1>3, <1>4 DEF IsCollapsing, IsSplitting
  <2>2. st[0].out = <<>> /\ ~st[0].previous_space
    BY <2>1 DEF NothingPushed
  <2>3. <<>> \in Between /\ (<<>> \o Spaced(<<>>)) \o <<>> = <<>>
    BY SpacedNone, TextFacts, ConcatTexts DEF Between
  <2>4. HasCollapsed(st[0], ws[0])
    BY <2>1, <2>2, <2>3, BetweenFacts DEF HasCollapsed
  <2> QED BY <2>1, <2>2, <2>4
<1>7. ASSUME NEW k \in 0 .. n - 1, k \in T
      PROVE  k + 1 \in T
  <2>1. PICK i \in 1 .. n : i = k + 1 /\ i - 1 = k
    OBVIOUS
  <2>2. st[i] = Push(st[k], text[i])
    BY <1>1, <1>3, <2>1 DEF IsCollapsing
  <2>3. ws[i] = Split(ws[k], text, i) /\ (~IsSpace(text[i]) => ws[i] # <<>>)
    BY <1>1, <1>4, <2>1 DEF IsSplitting
  <2>4. PICK state \in Pushing, words \in Seq(Word), c \in Characters :
          state = st[k] /\ words = ws[k] /\ c = text[i]
    BY <1>2, <1>5
  <2>5. HasCollapsed(state, words) /\ ends(k)
    BY <1>7, <2>4
  <2>6. st[i].previous_space <=> IsSpace(text[i])
    <3>1. Push(st[k], text[i]).previous_space = IsSpace(text[i])
      BY DEF Push
    <3> QED BY <2>2, <3>1
  <2>7. k > 0 /\ ~IsSpace(text[k]) => words # <<>>
    <3>1. k > 0 => k \in 1 .. n
      OBVIOUS
    <3> QED BY <1>1, <1>4, <2>4, <3>1 DEF IsSplitting
  <2>8. HasCollapsed(Push(state, c), ws[i])
    <3>1. CASE IsSpace(c)
      <4>1. ws[i] = words
        BY <2>3, <2>4, <3>1 DEF Split
      <4> QED BY <2>5, <3>1, <4>1, PushCollapses
    <3>2. CASE ~IsSpace(c) /\ (i = 1 \/ IsSpace(text[i - 1]))
      <4>1. ws[i] = Append(words, <<c>>)
        BY <2>3, <2>4, <3>2 DEF Split
      <4>2. state.previous_space \/ words = <<>>
        BY <2>1, <2>4, <2>5, <3>2
      <4> QED BY <2>5, <3>2, <4>1, <4>2, PushCollapses
    <3>3. CASE ~IsSpace(c) /\ ~(i = 1 \/ IsSpace(text[i - 1]))
      <4>1. ws[i] = [words EXCEPT ![Len(words)] = Append(@, c)]
        BY <2>3, <2>4, <3>3 DEF Split
      <4>2. k > 0 /\ ~IsSpace(text[k])
        BY <2>1, <3>3
      <4>3. ~state.previous_space /\ words # <<>>
        BY <2>4, <2>5, <2>7, <4>2
      <4>4. HasCollapsed(Push(state, c), [words EXCEPT ![Len(words)] = Append(@, c)])
        BY <2>5, <3>3, <4>3, PushCollapses
      <4> QED BY <4>1, <4>4
    <3> QED BY <3>1, <3>2, <3>3
  <2>9. HasCollapsed(st[i], ws[i]) /\ ends(i)
    BY <2>1, <2>2, <2>4, <2>6, <2>8
  <2> QED BY <2>1, <2>9
<1>8. n \in T
  <2>1. \A k \in 0 .. n : k \in T
    <3> HIDE DEF T
    <3> QED BY <1>6, <1>7, UpTo
  <2>2. n \in 0 .. n
    OBVIOUS
  <2> QED BY <2>1, <2>2
<1>9. PICK lead \in Between, trail \in Between :
         st[n].out = (lead \o Spaced(ws[n])) \o trail
  BY <1>8 DEF HasCollapsed
<1>10. PICK words \in Seq(Word) : words = ws[n]
  BY <1>5
<1>11. PICK mid \in Texts : mid = Spaced(words)
  BY WordsAreTexts, SpacedIsText
<1>12. mid # <<>> => ~IsSpace(mid[1]) /\ ~IsSpace(mid[Len(mid)])
  BY <1>11, SpacedNone, SpacedEnds
<1>13. TrimCopy((lead \o mid) \o trail) = mid
  <2>1. lead \in Texts /\ trail \in Texts
    BY BetweenFacts
  <2>2. /\ \A i \in 1 .. Len(lead) : IsSpace(lead[i])
        /\ \A i \in 1 .. Len(trail) : IsSpace(trail[i])
    BY BetweenFacts
  <2> QED BY <1>12, <2>1, <2>2, TrimMiddle
<1> QED BY <1>3, <1>4, <1>9, <1>10, <1>11, <1>13

\* Splitting takes apart what joining put together.
LEMMA SplitSpaced ==
    ASSUME NEW words \in Seq(Word)
    PROVE  SplitAtSpaces(Spaced(words)) = words
<1> DEFINE T == {ws \in Seq(Word) : SplitAtSpaces(Spaced(ws)) = ws}
<1>1. <<>> \in T
  BY SpacedNone, SplitNone, EmptySeq
<1>2. ASSUME NEW ws \in Seq(Word), NEW w \in Word, ws \in T
      PROVE  Append(ws, w) \in T
  <2>1. Append(ws, w) \in Seq(Word) /\ ws \in Seq(Texts) /\ w \in Texts
    BY AppendProperties, WordsAreTexts
  <2>2. PICK base \in Texts :
          /\ Spaced(Append(ws, w)) = base \o w /\ SplitAtSpaces(base) = ws
          /\ base = <<>> \/ IsSpace(base[Len(base)])
    <3>1. PICK old \in Texts : old = Spaced(ws) /\ SplitAtSpaces(old) = ws
      BY <1>2, <2>1, SpacedIsText
    <3>2. CASE ws = <<>>
      <4>1. old = <<>> /\ Spaced(Append(ws, w)) = old \o w
        BY <2>1, <3>1, <3>2, SpacedNone, SpacedNext
      <4> QED BY <3>1, <4>1
    <3>3. CASE ws # <<>>
      <4>1. PICK blank \in Texts : blank = <<" ">>
        BY TextFacts
      <4>2. PICK base : base = Append(old, " ")
        OBVIOUS
      <4>3. base \in Texts /\ base = old \o blank
        BY <4>1, <4>2, TextFacts, CharacterFacts
      <4>4. Spaced(Append(ws, w)) = old \o (blank \o w)
        BY <2>1, <3>1, <3>3, <4>1, SpacedNext
      <4>5. Spaced(Append(ws, w)) = base \o w
        BY <2>1, <4>3, <4>4, ConcatTexts
      <4>6. IsSpace(base[Len(base)])
        <5>1. PICK n : n = Len(old)
          OBVIOUS
        <5>2. Len(base) = n + 1 /\ base[n + 1] = " "
          <6>1. PICK c \in Characters : c = " "
            BY CharacterFacts
          <6>2. base = Append(old, c)
            BY <4>2, <6>1
          <6>3. Len(base) = n + 1 /\ base[n + 1] = c
            BY <5>1, <6>2, OneMore DEF Texts
          <6> QED BY <6>1, <6>3
        <5> QED BY <5>2, CharacterFacts
      <4>7. SplitAtSpaces(base) = ws
        BY <3>1, <4>2, SplitNext, CharacterFacts
      <4> QED BY <4>3, <4>5, <4>6, <4>7
    <3> QED BY <3>2, <3>3
  <2> DEFINE solid(v) == v # <<>> /\ \A i \in 1 .. Len(v) : ~IsSpace(v[i])
             V == {v \in Texts : solid(v) => SplitAtSpaces(base \o v) = Append(ws, v)}
  <2>3. <<>> \in V
    BY TextFacts
  <2>4. ASSUME NEW v \in Texts, NEW c \in Characters, v \in V
        PROVE  Append(v, c) \in V
    <3>1. PICK m \in Nat : m = Len(v) /\ (v # <<>> => m \in 1 .. m /\ m > 0)
      BY EmptySeq, LenProperties DEF Texts
    <3>2. PICK more \in Texts :
            /\ more = Append(v, c) /\ Len(more) = m + 1 /\ more[m + 1] = c
            /\ \A k \in 1 .. m : more[k] = v[k]
      <4>1. PICK more : more = Append(v, c)
        OBVIOUS
      <4>2. more \in Texts
        BY <4>1, TextFacts
      <4>3. Len(more) = m + 1 /\ more[m + 1] = c /\ \A k \in 1 .. m : more[k] = v[k]
        BY <3>1, <4>1, OneMore DEF Texts
      <4> QED BY <4>1, <4>2, <4>3
    <3> SUFFICES ASSUME solid(more) PROVE SplitAtSpaces(base \o more) = Append(ws, more)
      BY <3>2
    <3>3. ~IsSpace(c)
      <4>1. m + 1 \in 1 .. m + 1
        OBVIOUS
      <4> QED BY <3>2, <4>1
    <3>4. PICK part \in Texts : part = base \o v
      BY ConcatTexts
    <3>5. base \o more = Append(part, c)
      <4>1. PICK end \in Texts : end = <<c>>
        BY TextFacts
      <4>2. more = v \o end /\ Append(part, c) = part \o end
        BY <3>2, <4>1, TextFacts
      <4>3. (base \o v) \o end = base \o (v \o end)
        BY ConcatTexts
      <4> QED BY <3>4, <4>2, <4>3
    <3>6. CASE v = <<>>
      <4>1. part = base
        BY <3>4, <3>6, ConcatTexts
      <4>2. SplitAtSpaces(Append(part, c)) = Append(ws, <<c>>)
        BY <2>2, <3>3, <4>1, SplitNext
      <4>3. more = <<c>>
        BY <3>2, <3>6
      <4> QED BY <3>5, <4>2, <4>3
    <3>7. CASE v # <<>>
      <4>1. solid(v)
        <5>1. \A k \in 1 .. m : k \in 1 .. m + 1
          OBVIOUS
        <5> QED BY <3>1, <3>2, <3>7, <5>1
      <4>2. SplitAtSpaces(part) = Append(ws, v)
        BY <2>4, <3>4, <4>1
      <4>3. part # <<>> /\ ~IsSpace(part[Len(part)])
        <5>1. PICK a \in Nat : a = Len(base)
          BY LenProperties DEF Texts
        <5>2. \A i \in 1 .. a + m : part[i] = IF i <= a THEN base[i] ELSE v[i - a]
          BY <3>1, <3>4, <5>1, ConcatIs
        <5>3. Len(part) = a + m
          BY <3>1, <3>4, <5>1, ConcatTexts
        <5>4. a + m \in 1 .. a + m /\ ~(a + m <= a) /\ (a + m) - a = m
          BY <3>1, <3>7
        <5>5. part[a + m] = v[m]
          BY <5>2, <5>4
        <5>6. ~IsSpace(v[m])
          BY <3>1, <3>7, <4>1
        <5>7. part # <<>>
          <6>1. Len(part) # 0
            BY <3>1, <3>7, <5>3
          <6> QED BY <6>1, TextFacts
        <5> QED BY <5>3, <5>5, <5>6, <5>7
      <4>4. PICK longer \in Seq(Texts) : longer = Append(ws, v)
        BY <2>1, AppendProperties
      <4>5. SplitAtSpaces(Append(part, c)) = [longer EXCEPT ![Len(longer)] = Append(@, c)]
        BY <3>3, <4>2, <4>3, <4>4, SplitNext
      <4>6. [longer EXCEPT ![Len(longer)] = Append(@, c)] = Append(ws, more)
        <5>1. longer # <<>>
          BY <2>1, <4>4, AppendProperties
        <5>2. \E front \in Seq(Texts) : \E last \in Texts :
                /\ longer = Append(front, last)
                /\ [longer EXCEPT ![Len(longer)] = Append(@, c)]
                     = Append(front, Append(last, c))
          BY <5>1, LastLonger
        <5>3. PICK front \in Seq(Texts), last \in Texts :
                /\ longer = Append(front, last)
                /\ [longer EXCEPT ![Len(longer)] = Append(@, c)]
                     = Append(front, Append(last, c))
          BY <5>2
        <5>4. front = ws /\ last = v
          <6>1. Append(ws, v) = Append(front, last)
            BY <4>4, <5>3
          <6> QED BY <2>1, <6>1, AppendInjective
        <5> QED BY <3>2, <5>3, <5>4
      <4> QED BY <3>5, <4>5, <4>6
    <3> QED BY <3>6, <3>7
  <2>5. w \in V
    <3> HIDE DEF V
    <3> QED BY <2>1, <2>3, <2>4, SequenceInduction DEF Texts
  <2>6. solid(w)
    BY DEF Word
  <2> QED BY <2>1, <2>2, <2>5, <2>6
<1>3. words \in T
  <2> HIDE DEF T
  <2> QED BY <1>1, <1>2, SequenceInduction
<1> QED BY <1>3

\* What title_copy makes of a text without surplus white space.
Titled(text) ==
    [i \in DOMAIN text |-> IF i = 1 \/ IsSpace(text[i - 1])
                             THEN ToUpper(text[i]) ELSE ToLower(text[i])]

\* What title_copy makes of a text without a run of spaces.
LEMMA TitledIs ==
    ASSUME NEW text \in Texts, NEW n, n = Len(text)
    PROVE  /\ n \in Nat /\ Titled(text) \in Texts /\ Len(Titled(text)) = n
           /\ \A i \in 1 .. n :
                Titled(text)[i] = IF i = 1 \/ IsSpace(text[i - 1])
                                    THEN ToUpper(text[i]) ELSE ToLower(text[i])
<1>1. n \in Nat /\ DOMAIN text = 1 .. n
  BY LenProperties DEF Texts
<1>2. \A i \in 1 .. n : text[i] \in Characters
  BY ElementOfSeq DEF Texts
<1>3. \A i \in 1 .. n : ToUpper(text[i]) \in Characters /\ ToLower(text[i]) \in Characters
  BY <1>2, CaseFacts
<1>4. Titled(text) = [i \in 1 .. n |-> IF i = 1 \/ IsSpace(text[i - 1])
                                         THEN ToUpper(text[i]) ELSE ToLower(text[i])]
  BY <1>1 DEF Titled
<1>5. Titled(text) \in [1 .. n -> Characters]
  BY <1>3, <1>4
<1>6. Titled(text) \in Seq(Characters)
  BY <1>1, <1>5, SeqDef
<1>7. Len(Titled(text)) = n
  BY <1>1, <1>4
<1> QED BY <1>1, <1>4, <1>6, <1>7 DEF Texts

\* That is what it returns.
LEMMA TitleIs ==
    ASSUME NEW text \in Texts
    PROVE  TitleCopy(text) = Titled(CollapseWs(text))
<1>1. PICK short \in Texts : short = CollapseWs(text)
  BY CollapseIs
<1>2. PICK n \in Nat : n = Len(short)
  BY LenProperties DEF Texts
<1>3. PICK st : IsTitling(st, short) /\ TitleCopy(text) = st[n].out
  BY <1>1, <1>2, TitleSteps
<1>4. \A k \in 1 .. n : short[k] \in Characters
  BY <1>2, ElementOfSeq DEF Texts
<1>5. PICK titled \in Texts :
        /\ titled = Titled(short) /\ Len(titled) = n
        /\ \A i \in 1 .. n :
             titled[i] = IF i = 1 \/ IsSpace(short[i - 1])
                           THEN ToUpper(short[i]) ELSE ToLower(short[i])
  BY <1>2, TitledIs
<1> DEFINE done(k) == /\ st[k] \in Writing
                      /\ Len(st[k].out) = k
                      /\ \A i \in 1 .. k : st[k].out[i] = titled[i]
                      /\ st[k].start_word <=> k = 0 \/ IsSpace(short[k])
           T == {k \in 0 .. n : done(k)}
<1>6. 0 \in T
  <2>1. st[0] = NothingWritten /\ NothingWritten \in Writing
    BY <1>3, TextFacts DEF IsTitling, NothingWritten, Writing
  <2>2. st[0].out = <<>> /\ st[0].start_word
    BY <2>1 DEF NothingWritten
  <2>3. Len(st[0].out) = 0 /\ 1 .. 0 = {}
    BY <2>2, EmptySeq
  <2> QED BY <2>1, <2>2, <2>3
<1>7. ASSUME NEW k \in 0 .. n - 1, k \in T
      PROVE  k + 1 \in T
  <2>1. PICK i \in 1 .. n : i = k + 1 /\ i - 1 = k
    OBVIOUS
  <2>2. PICK state \in Writing : state = st[k] /\ state.out \in Texts
    BY <1>7 DEF Writing
  <2>3. st[i] = Write(state, short[i]) /\ st[i] \in Writing
    <3>1. st[i] = Write(st[k], short[i])
      BY <1>2, <1>3, <2>1 DEF IsTitling
    <3> QED BY <1>4, <2>2, <3>1, WriteFacts
  <2>4. PICK c \in Characters : c = titled[i]
    BY <1>4, <1>5, CaseFacts
  <2>5. st[i].out = Append(state.out, c)
    <3>1. st[i].out = Append(state.out, IF state.start_word THEN ToUpper(short[i])
                                          ELSE ToLower(short[i]))
      BY <2>3 DEF Write
    <3>2. state.start_word <=> i = 1 \/ IsSpace(short[i - 1])
      BY <1>7, <2>1, <2>2
    <3> QED BY <1>5, <2>4, <3>1, <3>2
  <2>6. st[i].start_word = IsSpace(short[i])
    <3>1. Write(state, short[i]).start_word = IsSpace(short[i])
      BY DEF Write
    <3> QED BY <2>3, <3>1
  <2>7. k = Len(state.out) /\ \A j \in 1 .. k : state.out[j] = titled[j]
    BY <1>7, <2>2
  <2>8. /\ Len(st[i].out) = k + 1 /\ st[i].out[k + 1] = c
        /\ \A j \in 1 .. k : st[i].out[j] = state.out[j]
    BY <2>2, <2>5, <2>7, OneMore DEF Texts
  <2>9. \A j \in 1 .. i : st[i].out[j] = titled[j]
    <3>1. \A j \in 1 .. i : j = k + 1 \/ j \in 1 .. k
      BY <2>1
    <3> QED BY <2>1, <2>4, <2>7, <2>8, <3>1
  <2>10. i # 0
    OBVIOUS
  <2> QED BY <2>1, <2>3, <2>6, <2>8, <2>9, <2>10
<1>8. done(n)
  <2>1. \A k \in 0 .. n : k \in T
    <3> HIDE DEF T
    <3> QED BY <1>6, <1>7, UpTo
  <2>2. n \in 0 .. n
    OBVIOUS
  <2> QED BY <2>1, <2>2
<1>9. st[n].out \in Texts
  BY <1>8 DEF Writing
<1>10. st[n].out = titled
  <2>1. PICK out \in Texts : out = st[n].out
    BY <1>9
  <2>2. Len(out) = n /\ Len(titled) = n /\ \A i \in 1 .. n : out[i] = titled[i]
    BY <1>5, <1>8, <2>1
  <2>3. out = titled
    BY <1>2, <2>2, SeqEqual DEF Texts
  <2> QED BY <2>1, <2>3
<1> QED BY <1>1, <1>3, <1>5, <1>10

-----------------------------------------------------------------------------
(* Capitalised words.                                                      *)

\* A capitalised word is a word, and capitalised already.
LEMMA CapitalisedIs ==
    ASSUME NEW w \in Word, NEW n, n = Len(w)
    PROVE  /\ n \in Nat \ {0} /\ Capitalised(w) \in Word /\ Len(Capitalised(w)) = n
           /\ \A i \in 1 .. n :
                Capitalised(w)[i] = IF i = 1 THEN ToUpper(w[i]) ELSE ToLower(w[i])
           /\ Capitalised(Capitalised(w)) = Capitalised(w)
<1>1. w \in Texts /\ n \in Nat \ {0} /\ DOMAIN w = 1 .. n
  BY WordsAreTexts, LenProperties, EmptySeq DEF Texts
<1>2. \A i \in 1 .. n : w[i] \in Characters /\ ~IsSpace(w[i])
  <2>1. \A i \in 1 .. n : ~IsSpace(w[i])
    BY DEF Word
  <2> QED BY <1>1, <2>1, ElementOfSeq DEF Texts
<1>3. PICK v : v = Capitalised(w)
  OBVIOUS
<1>4. v = [i \in 1 .. n |-> IF i = 1 THEN ToUpper(w[i]) ELSE ToLower(w[i])]
  BY <1>1, <1>3 DEF Capitalised
<1>5. \A i \in 1 .. n :
        /\ v[i] = IF i = 1 THEN ToUpper(w[i]) ELSE ToLower(w[i])
        /\ v[i] \in Characters /\ ~IsSpace(v[i])
        /\ v[i] = IF i = 1 THEN ToUpper(v[i]) ELSE ToLower(v[i])
  BY <1>2, <1>4, CaseFacts
<1>6. v \in Seq(Characters)
  <2>1. v \in [1 .. n -> Characters]
    BY <1>4, <1>5
  <2> QED BY <1>1, <2>1, SeqDef
<1>7. Len(v) = n
  BY <1>1, <1>4
<1>8. v # <<>>
  BY <1>1, <1>7, TextFacts
<1>9. v \in Word
  BY <1>5, <1>6, <1>7, <1>8 DEF Word, Texts
<1>10. Capitalised(v) = v
  <2>1. Capitalised(v) = [i \in 1 .. n |-> IF i = 1 THEN ToUpper(v[i]) ELSE ToLower(v[i])]
    <3>1. DOMAIN v = 1 .. n
      BY <1>4
    <3> QED BY <3>1 DEF Capitalised
  <2>2. v = [i \in 1 .. n |-> v[i]]
    BY <1>4
  <2> QED BY <1>5, <2>1, <2>2
<1> QED BY <1>1, <1>3, <1>5, <1>7, <1>9, <1>10

\* Titled goes on where a word begins.
LEMMA TitledMore ==
    ASSUME NEW base \in Texts, base = <<>> \/ IsSpace(base[Len(base)]), NEW w \in Word
    PROVE  Titled(base \o w) = Titled(base) \o Capitalised(w)
<1>1. w \in Texts
  BY WordsAreTexts
<1>2. PICK a \in Nat, b \in Nat : a = Len(base) /\ b = Len(w)
  BY <1>1, LenProperties DEF Texts
<1>3. PICK both : both = base \o w
  OBVIOUS
<1>4. both \in Texts /\ Len(both) = a + b
  BY <1>1, <1>2, <1>3, ConcatTexts
<1>5. \A i \in 1 .. a + b : both[i] = IF i <= a THEN base[i] ELSE w[i - a]
  BY <1>1, <1>2, <1>3, ConcatIs
<1>6. PICK big : big = Titled(both)
  OBVIOUS
<1>7. /\ big \in Texts /\ Len(big) = a + b
      /\ \A i \in 1 .. a + b : big[i] = IF i = 1 \/ IsSpace(both[i - 1])
                                          THEN ToUpper(both[i]) ELSE ToLower(both[i])
  <2>1. PICK n : n = a + b /\ n = Len(both)
    BY <1>4
  <2>2. /\ big \in Texts /\ Len(big) = n
        /\ \A i \in 1 .. n : big[i] = IF i = 1 \/ IsSpace(both[i - 1])
                                        THEN ToUpper(both[i]) ELSE ToLower(both[i])
    BY <1>4, <1>6, <2>1, TitledIs
  <2> QED BY <2>1, <2>2
<1>8. PICK left \in Texts :
        /\ left = Titled(base) /\ a = Len(left)
        /\ \A i \in 1 .. a : left[i] = IF i = 1 \/ IsSpace(base[i - 1])
                                         THEN ToUpper(base[i]) ELSE ToLower(base[i])
  BY <1>2, TitledIs
<1>9. PICK right \in Texts :
        /\ right = Capitalised(w) /\ b = Len(right)
        /\ \A i \in 1 .. b : right[i] = IF i = 1 THEN ToUpper(w[i]) ELSE ToLower(w[i])
  <2>1. PICK right : right = Capitalised(w)
    OBVIOUS
  <2>2. right \in Word /\ Len(right) = b
    BY <1>2, <2>1, CapitalisedIs
  <2>3. \A i \in 1 .. b : right[i] = IF i = 1 THEN ToUpper(w[i]) ELSE ToLower(w[i])
    BY <1>2, <2>1, CapitalisedIs
  <2> QED BY <2>1, <2>2, <2>3, WordsAreTexts
<1>10. PICK join : join = left \o right
  OBVIOUS
<1>11. join \in Texts /\ Len(join) = a + b
  BY <1>8, <1>9, <1>10, ConcatTexts
<1>12. \A i \in 1 .. a + b : join[i] = IF i <= a THEN left[i] ELSE right[i - a]
  <2>1. a = Len(left) /\ b = Len(right)
    BY <1>8, <1>9
  <2> QED BY <1>10, <2>1, ConcatIs
<1>13. ASSUME NEW i \in 1 .. a + b
       PROVE  big[i] = join[i]
  <2>1. CASE i <= a
    <3>1. i \in 1 .. a /\ (i # 1 => i - 1 \in 1 .. a + b /\ i - 1 <= a)
      BY <2>1
    <3>2. both[i] = base[i] /\ (i # 1 => both[i - 1] = base[i - 1])
      BY <1>5, <2>1, <3>1
    <3> QED BY <1>7, <1>8, <1>12, <2>1, <3>1, <3>2
  <2>2. CASE i = a + 1
    <3>1. i - a \in 1 .. b /\ i - a = 1 /\ ~(i <= a) /\ i - 1 = a
      BY <2>2
    <3>2. both[i] = w[1]
      BY <1>5, <3>1
    <3>3. i = 1 \/ IsSpace(both[i - 1])
      <4>1. CASE base = <<>>
        <5>1. a = 0
          BY <1>2, <4>1, TextFacts
        <5> QED BY <2>2, <5>1
      <4>2. CASE base # <<>>
        <5>1. a \in 1 .. a + b /\ a <= a /\ IsSpace(base[a])
          BY <1>2, <4>2, EmptySeq DEF Texts
        <5> QED BY <1>5, <3>1, <5>1
      <4> QED BY <4>1, <4>2
    <3>4. big[i] = ToUpper(w[1])
      BY <1>7, <3>2, <3>3
    <3>5. right[1] = ToUpper(w[1])
      <4>1. 1 \in 1 .. b
        BY <3>1
      <4> QED BY <1>9, <4>1
    <3>6. join[i] = right[1]
      BY <1>12, <3>1
    <3> QED BY <3>4, <3>5, <3>6
  <2>3. CASE i > a + 1
    <3>1. PICK j \in 1 .. b : j = i - a /\ j # 1 /\ j - 1 \in 1 .. b /\ ~(i <= a)
      BY <2>3
    <3>2. i - 1 \in 1 .. a + b /\ ~(i - 1 <= a) /\ (i - 1) - a = j - 1 /\ i # 1
      BY <2>3, <3>1
    <3>3. both[i] = w[j] /\ both[i - 1] = w[j - 1]
      BY <1>5, <3>1, <3>2
    <3>4. ~IsSpace(w[j - 1])
      BY <1>2, <3>1 DEF Word
    <3>5. big[i] = ToLower(w[j])
      BY <1>7, <3>2, <3>3, <3>4
    <3>6. join[i] = right[j] /\ right[j] = ToLower(w[j])
      BY <1>9, <1>12, <3>1
    <3> QED BY <3>5, <3>6
  <2> QED BY <2>1, <2>2, <2>3
<1>14. big = join
  BY <1>7, <1>11, <1>13, SeqEqual DEF Texts
<1> QED BY <1>3, <1>6, <1>8, <1>9, <1>10, <1>14

\* A space is kept, and a word starts behind it.
LEMMA TitledBlank ==
    ASSUME NEW text \in Texts
    PROVE  Titled(Append(text, " ")) = Append(Titled(text), " ")
<1>1. PICK c \in Characters : c = " " /\ IsSpace(c)
  BY CharacterFacts
<1>2. PICK n \in Nat : n = Len(text)
  BY LenProperties DEF Texts
<1>3. PICK more : more = Append(text, c)
  OBVIOUS
<1>4. /\ more \in Texts /\ Len(more) = n + 1 /\ more[n + 1] = c
      /\ \A k \in 1 .. n : more[k] = text[k]
  BY <1>2, <1>3, OneMore DEF Texts
<1>5. PICK big : big = Titled(more)
  OBVIOUS
<1>6. /\ big \in Texts /\ Len(big) = n + 1
      /\ \A i \in 1 .. n + 1 : big[i] = IF i = 1 \/ IsSpace(more[i - 1])
                                          THEN ToUpper(more[i]) ELSE ToLower(more[i])
  <2>1. PICK m : m = n + 1 /\ m = Len(more)
    BY <1>4
  <2>2. /\ big \in Texts /\ Len(big) = m
        /\ \A i \in 1 .. m : big[i] = IF i = 1 \/ IsSpace(more[i - 1])
                                        THEN ToUpper(more[i]) ELSE ToLower(more[i])
    BY <1>4, <1>5, <2>1, TitledIs
  <2> QED BY <2>1, <2>2
<1>7. PICK left \in Texts :
        /\ left = Titled(text) /\ n = Len(left)
        /\ \A i \in 1 .. n : left[i] = IF i = 1 \/ IsSpace(text[i - 1])
                                         THEN ToUpper(text[i]) ELSE ToLower(text[i])
  BY <1>2, TitledIs
<1>8. PICK join : join = Append(left, c)
  OBVIOUS
<1>9. /\ join \in Texts /\ Len(join) = n + 1 /\ join[n + 1] = c
      /\ \A k \in 1 .. n : join[k] = left[k]
  BY <1>7, <1>8, OneMore DEF Texts
<1>10. ASSUME NEW i \in 1 .. n + 1
       PROVE  big[i] = join[i]
  <2>1. CASE i = n + 1
    <3>1. ToUpper(c) = c /\ ToLower(c) = c
      BY <1>1, CaseFacts
    <3> QED BY <1>4, <1>6, <1>9, <2>1, <3>1
  <2>2. CASE i # n + 1
    <3>1. i \in 1 .. n /\ (i # 1 => i - 1 \in 1 .. n)
      BY <2>2
    <3>2. more[i] = text[i] /\ (i # 1 => more[i - 1] = text[i - 1])
      BY <1>4, <3>1
    <3> QED BY <1>6, <1>7, <1>9, <3>1, <3>2
  <2> QED BY <2>1, <2>2
<1>11. big = join
  BY <1>6, <1>9, <1>10, SeqEqual DEF Texts
<1> QED BY <1>1, <1>3, <1>5, <1>7, <1>8, <1>11

\* Each word capitalised.
AllCapitalised(words) == [k \in DOMAIN words |-> Capitalised(words[k])]

\* They are as many, and words.
LEMMA AllCapitalisedIs ==
    ASSUME NEW words \in Seq(Word)
    PROVE  /\ AllCapitalised(words) \in Seq(Word)
           /\ Len(AllCapitalised(words)) = Len(words)
           /\ \A k \in 1 .. Len(words) :
                AllCapitalised(words)[k] = Capitalised(words[k])
<1>1. PICK n \in Nat : n = Len(words) /\ DOMAIN words = 1 .. n
  BY LenProperties
<1>2. AllCapitalised(words) = [k \in 1 .. n |-> Capitalised(words[k])]
  BY <1>1 DEF AllCapitalised
<1>3. \A k \in 1 .. n : Capitalised(words[k]) \in Word
  BY <1>1, ElementOfSeq, CapitalisedIs
<1>4. AllCapitalised(words) \in [1 .. n -> Word]
  BY <1>2, <1>3
<1>5. AllCapitalised(words) \in Seq(Word)
  BY <1>4, SeqDef
<1>6. Len(AllCapitalised(words)) = n
  BY <1>2
<1> QED BY <1>1, <1>2, <1>5, <1>6

\* The last is the last, capitalised.
LEMMA AllCapitalisedNext ==
    ASSUME NEW words \in Seq(Word), NEW w \in Word
    PROVE  AllCapitalised(Append(words, w)) = Append(AllCapitalised(words), Capitalised(w))
<1>1. PICK n \in Nat : n = Len(words)
  BY LenProperties
<1>2. PICK more : more = Append(words, w)
  OBVIOUS
<1>3. /\ more \in Seq(Word) /\ Len(more) = n + 1 /\ more[n + 1] = w
      /\ \A k \in 1 .. n : more[k] = words[k]
  BY <1>1, <1>2, OneMore
<1>4. PICK big : big = AllCapitalised(more)
  OBVIOUS
<1>5. /\ big \in Seq(Word) /\ Len(big) = n + 1
      /\ \A k \in 1 .. n + 1 : big[k] = Capitalised(more[k])
  BY <1>3, <1>4, AllCapitalisedIs
<1>6. PICK left \in Seq(Word) :
        /\ left = AllCapitalised(words) /\ n = Len(left)
        /\ \A k \in 1 .. n : left[k] = Capitalised(words[k])
  BY <1>1, AllCapitalisedIs
<1>7. PICK join : join = Append(left, Capitalised(w))
  OBVIOUS
<1>8. /\ /\ join \in Seq(Word) /\ Len(join) = n + 1
      /\ join[n + 1] = Capitalised(w)
      /\ \A k \in 1 .. n : join[k] = left[k]
  <2>1. PICK v \in Word : v = Capitalised(w)
    BY CapitalisedIs
  <2>2. join = Append(left, v)
    BY <1>7, <2>1
  <2>3. /\ join \in Seq(Word) /\ Len(join) = n + 1 /\ join[n + 1] = v
        /\ \A k \in 1 .. n : join[k] = left[k]
    BY <1>6, <2>2, OneMore
  <2> QED BY <2>1, <2>3
<1>9. \A k \in 1 .. n + 1 : big[k] = join[k]
  <2>1. \A k \in 1 .. n + 1 : k = n + 1 \/ k \in 1 .. n
    OBVIOUS
  <2> QED BY <1>3, <1>5, <1>6, <1>8, <2>1
<1>10. big = join
  BY <1>5, <1>8, <1>9, SeqEqual
<1> QED BY <1>2, <1>4, <1>6, <1>7, <1>10

\* Spaced words are titled word by word.
LEMMA TitledSpaced ==
    ASSUME NEW words \in Seq(Word)
    PROVE  Titled(Spaced(words)) = Spaced(AllCapitalised(words))
<1> DEFINE T == {ws \in Seq(Word) : Titled(Spaced(ws)) = Spaced(AllCapitalised(ws))}
<1>1. <<>> \in T
  <2>1. DOMAIN <<>> = {} /\ <<>> \in Seq(Word)
    BY EmptySeq
  <2>2. Titled(<<>>) = <<>> /\ AllCapitalised(<<>>) = <<>>
    BY <2>1 DEF Titled, AllCapitalised
  <2> QED BY <2>1, <2>2, SpacedNone
<1>2. ASSUME NEW ws \in Seq(Word), NEW w \in Word, ws \in T
      PROVE  Append(ws, w) \in T
  <2>1. Append(ws, w) \in Seq(Word) /\ ws \in Seq(Texts) /\ w \in Texts
    BY AppendProperties, WordsAreTexts
  <2>2. PICK caps \in Seq(Texts), cap \in Texts :
          caps = AllCapitalised(ws) /\ cap = Capitalised(w)
    BY AllCapitalisedIs, CapitalisedIs, WordsAreTexts
  <2>3. AllCapitalised(Append(ws, w)) = Append(caps, cap)
    BY <2>2, AllCapitalisedNext
  <2>4. PICK old \in Texts, new \in Texts : old = Spaced(ws) /\ new = Spaced(caps)
    BY <2>1, SpacedIsText
  <2>5. Titled(old) = new
    BY <1>2, <2>2, <2>4
  <2>6. caps = <<>> <=> ws = <<>>
    <3>1. Len(caps) = Len(ws)
      BY <2>2, AllCapitalisedIs
    <3> QED BY <2>1, <3>1, EmptySeq
  <2>7. CASE ws = <<>>
    <3>1. /\ Spaced(Append(ws, w)) = old \o w
          /\ Spaced(Append(caps, cap)) = new \o cap
      BY <2>1, <2>4, <2>6, <2>7, SpacedNext
    <3>2. old = <<>>
      BY <2>4, <2>7, SpacedNone
    <3>3. Titled(old \o w) = new \o cap
      BY <2>2, <2>5, <3>2, TitledMore
    <3> QED BY <2>1, <2>3, <3>1, <3>3
  <2>8. CASE ws # <<>>
    <3>1. PICK blank \in Texts, c \in Characters :
            blank = <<c>> /\ c = " " /\ IsSpace(c)
      BY TextFacts, CharacterFacts
    <3>2. /\ Spaced(Append(ws, w)) = old \o (blank \o w)
          /\ Spaced(Append(caps, cap)) = new \o (blank \o cap)
      BY <2>1, <2>4, <2>6, <2>8, <3>1, SpacedNext
    <3>3. PICK base \in Texts : base = Append(old, c) /\ base = old \o blank
      BY <3>1, TextFacts
    <3>4. Append(new, c) = new \o blank
      BY <3>1, TextFacts
    <3>5. Titled(base) = Append(new, c)
      BY <2>5, <3>1, <3>3, TitledBlank
    <3>6. IsSpace(base[Len(base)])
      <4>1. PICK n : n = Len(old) /\ base = Append(old, c)
        BY <3>3
      <4>2. n \in Nat /\ Len(base) = n + 1 /\ base[n + 1] = c
        BY <4>1, OneMore DEF Texts
      <4> QED BY <3>1, <4>2
    <3>7. Titled(base \o w) = (new \o blank) \o cap
      BY <2>2, <3>4, <3>5, <3>6, TitledMore
    <3>8. (old \o blank) \o w = old \o (blank \o w)
      BY <2>1, ConcatTexts
    <3>9. (new \o blank) \o cap = new \o (blank \o cap)
      BY ConcatTexts
    <3> QED BY <2>1, <2>3, <3>2, <3>3, <3>7, <3>8, <3>9
  <2> QED BY <2>7, <2>8
<1>3. words \in T
  <2> HIDE DEF T
  <2> QED BY <1>1, <1>2, SequenceInduction
<1> QED BY <1>3

\* title_copy: the words of a text, capitalised and joined by single spaces.
LEMMA TitleWords ==
    ASSUME NEW text \in Texts
    PROVE  /\ Words(text) \in Seq(Word)
           /\ Words(text) = AllCapitalised(SplitAtSpaces(text))
           /\ TitleCopy(text) = Spaced(Words(text))
           /\ \A k \in 1 .. Len(Words(text)) : Capitalised(Words(text)[k]) = Words(text)[k]
<1>1. PICK split \in Seq(Word) : split = SplitAtSpaces(text)
  BY SplitNext, CharacterFacts
<1>2. Words(text) = AllCapitalised(split)
  BY <1>1 DEF Words, AllCapitalised
<1>3. TitleCopy(text) = Spaced(Words(text))
  BY <1>1, <1>2, TitleIs, CollapseIs, TitledSpaced
<1>4. ASSUME NEW k \in 1 .. Len(split)
      PROVE  Capitalised(Words(text)[k]) = Words(text)[k]
  <2>1. split[k] \in Word
    BY ElementOfSeq
  <2>2. Words(text)[k] = Capitalised(split[k])
    BY <1>2, AllCapitalisedIs
  <2> QED BY <2>1, <2>2, CapitalisedIs
<1> QED BY <1>1, <1>2, <1>3, <1>4, AllCapitalisedIs

\* Nothing is left of white space only, and something of anything else.
LEMMA TitleEmpty ==
    ASSUME NEW text \in Texts
    PROVE  TitleCopy(text) = <<>> <=> \A i \in DOMAIN text : IsSpace(text[i])
<1>1. PICK split \in Seq(Word), words \in Seq(Word) :
        /\ split = SplitAtSpaces(text) /\ words = Words(text)
        /\ words = AllCapitalised(split)
        /\ TitleCopy(text) = Spaced(words)
  BY SplitEmpty, TitleWords
<1>2. Len(words) = Len(split)
  BY <1>1, AllCapitalisedIs
<1>3. words = <<>> <=> split = <<>>
  BY <1>2, EmptySeq
<1>4. Spaced(words) = <<>> <=> words = <<>>
  BY SpacedNone, SpacedEnds
<1> QED BY <1>1, <1>3, <1>4, SplitEmpty

\* A second pass finds the same words, if they were capitalised.
LEMMA TitleAgain ==
    ASSUME NEW words \in Seq(Word),
           \A k \in 1 .. Len(words) : Capitalised(words[k]) = words[k]
    PROVE  /\ Words(Spaced(words)) = words
           /\ TitleCopy(Spaced(words)) = Spaced(words)
<1>1. PICK text \in Texts : text = Spaced(words)
  BY WordsAreTexts, SpacedIsText
<1>2. Words(text) = AllCapitalised(words)
  BY <1>1, SplitSpaced, TitleWords
<1>3. AllCapitalised(words) = words
  <2>1. PICK caps \in Seq(Word) :
          /\ caps = AllCapitalised(words) /\ Len(caps) = Len(words)
          /\ \A k \in 1 .. Len(words) : caps[k] = Capitalised(words[k])
    BY AllCapitalisedIs
  <2>2. caps = words
    BY <2>1, SeqEqual
  <2> QED BY <2>1, <2>2
<1> QED BY <1>1, <1>2, <1>3, TitleWords

-----------------------------------------------------------------------------
(* The loop of replace_all.                                                *)

\* What becomes of the text from each place on.
RestFrom(rest, text, from, to, pos) ==
    IF pos > Len(text) THEN <<>>
    ELSE IF IsPrefix(from, SubSeq(text, pos, Len(text)))
      THEN to \o rest[pos + Len(from)]
    ELSE <<text[pos]>> \o rest[pos + 1]

\* What becomes of a text from each place on.
IsReplacing(rest, text, from, to) ==
    /\ rest \in [1 .. Len(text) + Len(from) -> Texts]
    /\ \A pos \in 1 .. Len(text) + Len(from) :
         rest[pos] = RestFrom(rest, text, from, to, pos)

\* The recursion of replace_all, seen from each place on.
LEMMA ReplaceSteps ==
    ASSUME NEW text \in Texts, NEW from \in Texts, NEW to \in Texts, from # <<>>
    PROVE  \E rest : /\ IsReplacing(rest, text, from, to)
                     /\ ReplaceAllOf(text, from, to) = rest[1]
<1>1. PICK m \in Nat, z \in Nat \ {0} : m = Len(text) /\ z = Len(from)
  BY LenProperties, EmptySeq DEF Texts
<1>2. PICK n \in Nat : n = m + z
  OBVIOUS
<1> DEFINE E == [1 .. n -> Texts]
           turn == [pos \in 1 .. n |-> [f \in E |-> RestFrom(f, text, from, to, pos)]]
           Rest(f) == [pos \in 1 .. Len(text) + Len(from) |->
                         IF pos > Len(text) THEN <<>>
                         ELSE IF IsPrefix(from, SubSeq(text, pos, Len(text)))
                           THEN to \o f[pos + Len(from)]
                         ELSE <<text[pos]>> \o f[pos + 1]]
           chosen == CHOOSE f : f = Rest(f)
<1>3. ASSUME NEW pos \in 1 .. n, NEW f,
             \A j \in pos + 1 .. n : f[j] \in Texts
      PROVE  RestFrom(f, text, from, to, pos) \in Texts
  <2>1. CASE pos > m
    BY <1>1, <2>1, TextFacts DEF RestFrom
  <2>2. CASE pos <= m
    <3>1. pos + z \in pos + 1 .. n /\ pos + 1 \in pos + 1 .. n
      BY <1>2, <2>2
    <3>2. f[pos + z] \in Texts /\ f[pos + 1] \in Texts
      BY <1>3, <3>1
    <3>3. text[pos] \in Characters
      <4>1. pos \in 1 .. Len(text)
        BY <1>1, <2>2
      <4> QED BY <4>1, ElementOfSeq DEF Texts
    <3>4. PICK one \in Texts : one = <<text[pos]>>
      BY <3>3, TextFacts
    <3>5. to \o f[pos + z] \in Texts /\ one \o f[pos + 1] \in Texts
      BY <3>2, ConcatTexts
    <3> QED BY <1>1, <2>2, <3>4, <3>5 DEF RestFrom
  <2> QED BY <2>1, <2>2
<1>4. PICK f \in E : \A pos \in 1 .. n : f[pos] = turn[pos][f]
  <2>1. ASSUME NEW pos \in 1 .. n, NEW f \in E
        PROVE  turn[pos][f] \in Texts
    <3>1. \A j \in pos + 1 .. n : f[j] \in Texts
      OBVIOUS
    <3>2. RestFrom(f, text, from, to, pos) \in Texts
      BY <1>3, <3>1
    <3> QED BY <3>2
  <2>2. ASSUME NEW pos \in 1 .. n, NEW f \in E, NEW g \in E,
               \A j \in pos + 1 .. n : f[j] = g[j]
        PROVE  turn[pos][f] = turn[pos][g]
    <3>1. pos <= m => f[pos + z] = g[pos + z] /\ f[pos + 1] = g[pos + 1]
      <4>1. pos <= m => pos + z \in pos + 1 .. n /\ pos + 1 \in pos + 1 .. n
        BY <1>2
      <4> QED BY <2>2, <4>1
    <3>2. RestFrom(f, text, from, to, pos) = RestFrom(g, text, from, to, pos)
      BY <1>1, <3>1 DEF RestFrom
    <3> QED BY <3>2
  <2>3. <<>> \in Texts
    BY TextFacts
  <2>4. \A pos \in 1 .. n : \A g \in [1 .. n -> Texts] : turn[pos][g] \in Texts
    BY <2>1
  <2>5. \A pos \in 1 .. n : \A f, g \in [1 .. n -> Texts] :
          (\A j \in pos + 1 .. n : f[j] = g[j]) => turn[pos][f] = turn[pos][g]
    BY <2>2
  <2>6. \E f \in [1 .. n -> Texts] : \A pos \in 1 .. n : f[pos] = turn[pos][f]
    <3> HIDE DEF turn
    <3>1. LooksAhead(turn, n, Texts)
      BY <2>4, <2>5 DEF LooksAhead
    <3> QED BY <2>3, <3>1, CourseOfValues
  <2> QED BY <2>6
<1>5. \A pos \in 1 .. n : f[pos] = RestFrom(f, text, from, to, pos)
  BY <1>4
<1>6. f = Rest(f)
  <2>1. f = [pos \in 1 .. n |-> f[pos]]
    OBVIOUS
  <2>2. Rest(f) = [pos \in 1 .. n |-> RestFrom(f, text, from, to, pos)]
    BY <1>1, <1>2 DEF RestFrom
  <2> HIDE DEF Rest
  <2> QED BY <1>5, <2>1, <2>2
<1>7. chosen = Rest(chosen)
  <2> HIDE DEF Rest
  <2> QED BY <1>6
<1>8. ReplaceAllOf(text, from, to) = chosen[1]
  BY Zenon DEF ReplaceAllOf
<1> HIDE DEF chosen
<1>9. chosen = [pos \in 1 .. n |-> RestFrom(chosen, text, from, to, pos)]
  <2>1. Rest(chosen) = [pos \in 1 .. n |-> RestFrom(chosen, text, from, to, pos)]
    BY <1>1, <1>2 DEF RestFrom
  <2> HIDE DEF Rest
  <2> QED BY <1>7, <2>1
<1>10. \A pos \in 1 .. n : chosen[pos] = RestFrom(chosen, text, from, to, pos)
  BY <1>9
<1> DEFINE T == {pos \in 1 .. n : chosen[pos] \in Texts}
<1>11. \A pos \in 1 .. n : pos \in T
  <2>1. ASSUME NEW pos \in 1 .. n, \A j \in pos + 1 .. n : j \in T
        PROVE  pos \in T
    <3>1. \A j \in pos + 1 .. n : chosen[j] \in Texts
      BY <2>1
    <3>2. RestFrom(chosen, text, from, to, pos) \in Texts
      BY <1>3, <3>1
    <3> QED BY <1>10, <3>2
  <2> HIDE DEF T
  <2> QED BY <2>1, DownFrom
<1>12. chosen \in E
  <2>1. \A pos \in 1 .. n : chosen[pos] \in Texts
    BY <1>11
  <2>2. chosen = [pos \in 1 .. n |-> chosen[pos]]
    BY <1>9
  <2> QED BY <2>1, <2>2
<1>13. IsReplacing(chosen, text, from, to)
  BY <1>1, <1>2, <1>10, <1>12 DEF IsReplacing
<1> QED BY <1>8, <1>13

\* The library's prefix, character by character.
LEMMA PrefixIs ==
    ASSUME NEW s \in Texts, NEW t \in Texts, NEW a, a = Len(s), NEW b, b = Len(t)
    PROVE  IsPrefix(s, t) <=> a <= b /\ \A i \in 1 .. a : s[i] = t[i]
<1>1. a \in Nat /\ b \in Nat
  BY LenProperties DEF Texts
<1>2. \A i \in 1 .. a : s[i] \in Characters
  BY ElementOfSeq DEF Texts
<1>3. \A i \in 1 .. b : t[i] \in Characters
  BY ElementOfSeq DEF Texts
<1>4. CASE a <= b
  <2>1. \A i \in 1 .. a : t[i] \in Characters
    <3>1. \A i \in 1 .. a : i \in 1 .. b
      BY <1>1, <1>4
    <3> QED BY <1>3, <3>1
  <2>2. PICK x : x = SubSeq(s, 1, a)
    OBVIOUS
  <2>3. PICK y : y = SubSeq(t, 1, a)
    OBVIOUS
  <2>4. x = s
    BY <2>2, SubSeqFull DEF Texts
  <2>5. y \in Seq(Characters) /\ Len(y) = a /\ \A i \in 1 .. a : y[i] = t[i]
    <3>1. /\ y \in Seq(Characters)
          /\ Len(y) = IF 1 <= a THEN a - 1 + 1 ELSE 0
          /\ \A i \in 1 .. a - 1 + 1 : y[i] = t[1 + i - 1]
      BY <1>1, <2>1, <2>3, SubSeqProperties
    <3> QED BY <1>1, <3>1
  <2>6. s = y <=> \A i \in 1 .. a : s[i] = y[i]
    BY <2>5, SeqEqual DEF Texts
  <2> QED BY <1>4, <2>2, <2>3, <2>4, <2>5, <2>6 DEF IsPrefix
<1>5. CASE ~(a <= b)
  BY <1>5 DEF IsPrefix
<1> QED BY <1>4, <1>5

\* The rest of a text from a place on.
LEMMA FromPlace ==
    ASSUME NEW text \in Texts, NEW n, n = Len(text), NEW pos \in 1 .. n + 1
    PROVE  /\ n \in Nat /\ SubSeq(text, pos, n) \in Texts
           /\ Len(SubSeq(text, pos, n)) = n + 1 - pos
           /\ \A i \in 1 .. n + 1 - pos : SubSeq(text, pos, n)[i] = text[pos + i - 1]
<1>1. n \in Nat /\ pos \in Int /\ n \in Int
  BY LenProperties DEF Texts
<1>2. \A i \in pos .. n : text[i] \in Characters
  <2>1. \A i \in 1 .. n : text[i] \in Characters
    BY ElementOfSeq DEF Texts
  <2>2. \A i \in pos .. n : i \in 1 .. n
    BY <1>1
  <2> QED BY <2>1, <2>2
<1>3. PICK part : part = SubSeq(text, pos, n)
  OBVIOUS
<1>4. /\ part \in Seq(Characters)
      /\ Len(part) = IF pos <= n THEN n - pos + 1 ELSE 0
      /\ \A i \in 1 .. n - pos + 1 : part[i] = text[pos + i - 1]
  BY <1>1, <1>2, <1>3, SubSeqProperties
<1>5. n - pos + 1 = n + 1 - pos /\ (~(pos <= n) => n + 1 - pos = 0)
  BY <1>1
<1> QED BY <1>1, <1>3, <1>4, <1>5 DEF Texts

\* What is searched for stands in the text at a place.
Occurs(from, z, text, pos) == \A i \in 1 .. z : text[pos + i - 1] = from[i]

\* An occurrence is a prefix of what is left.
LEMMA MatchIs ==
    ASSUME NEW text \in Texts, NEW n \in Nat, n = Len(text), NEW from \in Texts,
           NEW z \in Nat, z = Len(from), NEW pos \in 1 .. n + 1
    PROVE  IsPrefix(from, SubSeq(text, pos, n))
             <=> pos + z <= n + 1 /\ Occurs(from, z, text, pos)
<1>1. n \in Nat /\ z \in Nat
  BY LenProperties DEF Texts
<1>2. PICK part \in Texts :
        /\ part = SubSeq(text, pos, n) /\ Len(part) = n + 1 - pos
        /\ \A i \in 1 .. n + 1 - pos : part[i] = text[pos + i - 1]
  <2>1. /\ SubSeq(text, pos, n) \in Texts
        /\ Len(SubSeq(text, pos, n)) = n + 1 - pos
    BY FromPlace
  <2>2. \A i \in 1 .. n + 1 - pos : SubSeq(text, pos, n)[i] = text[pos + i - 1]
    BY FromPlace
  <2> QED BY <2>1, <2>2
<1>3. PICK b : b = Len(part)
  OBVIOUS
<1>4. IsPrefix(from, part) <=> z <= b /\ \A i \in 1 .. z : from[i] = part[i]
  BY <1>3, PrefixIs
<1>5. z <= b <=> pos + z <= n + 1
  BY <1>1, <1>2, <1>3
<1>6. z <= b => \A i \in 1 .. z : part[i] = text[pos + i - 1]
  <2>1. z <= b => \A i \in 1 .. z : i \in 1 .. n + 1 - pos
    BY <1>1, <1>2, <1>3
  <2> QED BY <1>2, <2>1
<1> QED BY <1>2, <1>4, <1>5, <1>6 DEF Occurs

\* What is searched for starts with a space and has no other.
Short(from) == /\ from \in Texts /\ Len(from) > 1
               /\ IsSpace(from[1]) /\ \A i \in 2 .. Len(from) : ~IsSpace(from[i])

\* A replaced text is a space and a word.
LEMMA ShortIs ==
    ASSUME NEW from, Short(from)
    PROVE  from \in Texts /\ from # <<>> /\ Len(from) \in Nat /\ Len(from) > 1
<1>1. from \in Texts /\ Len(from) > 1
  BY DEF Short
<1>2. Len(from) \in Nat
  BY <1>1, LenProperties DEF Texts
<1>3. from # <<>>
  <2>1. from = <<>> => Len(from) = 0
    BY EmptySeq
  <2> QED BY <1>1, <2>1
<1> QED BY <1>1, <1>2, <1>3

\* Where no white space is left nothing is replaced.
LEMMA ReplaceTail ==
    ASSUME NEW text \in Texts, NEW n, n = Len(text), NEW from, Short(from), NEW to \in Texts,
           NEW rest, IsReplacing(rest, text, from, to),
           NEW p \in 1 .. n + 1, \A i \in p .. n : ~IsSpace(text[i])
    PROVE  rest[p] = SubSeq(text, p, n)
<1>1. PICK z \in Nat : z = Len(from) /\ z > 1 /\ from \in Texts
  BY ShortIs
<1>2. n \in Nat
  BY LenProperties DEF Texts
<1> DEFINE T == {q \in 1 .. n + 1 : q >= p => rest[q] = SubSeq(text, q, n)}
<1>3. ASSUME NEW q \in 1 .. n + 1, \A j \in q + 1 .. n + 1 : j \in T
      PROVE  q \in T
  <2> SUFFICES ASSUME q >= p PROVE rest[q] = SubSeq(text, q, n)
    OBVIOUS
  <2>1. rest[q] = RestFrom(rest, text, from, to, q)
    <3>1. q \in 1 .. n + z
      BY <1>1, <1>2
    <3> QED BY <1>1, <3>1 DEF IsReplacing
  <2>2. CASE q = n + 1
    <3>1. rest[q] = <<>>
      BY <1>2, <2>1, <2>2 DEF RestFrom
    <3>2. SubSeq(text, q, n) = <<>>
      BY <1>2, <2>2, SubSeqEmpty
    <3> QED BY <3>1, <3>2
  <2>3. CASE q # n + 1
    <3>1. /\ q \in 1 .. n /\ q + 1 \in q + 1 .. n + 1 /\ q \in p .. n
          /\ q + 1 >= p
      BY <1>2, <2>3
    <3>2. ~IsPrefix(from, SubSeq(text, q, n))
      <4>1. SUFFICES ASSUME IsPrefix(from, SubSeq(text, q, n)) PROVE FALSE
        OBVIOUS
      <4>2. \A i \in 1 .. z : text[q + i - 1] = from[i]
        <5>1. z = Len(from)
          BY <1>1
        <5>2. q \in 1 .. n + 1 /\ from \in Texts
          BY <1>1, <3>1
        <5>3. Occurs(from, z, text, q)
          BY <1>2, <4>1, <5>1, <5>2, MatchIs
        <5> QED BY <5>3 DEF Occurs
      <4>3. 1 \in 1 .. z /\ q + 1 - 1 = q
        BY <1>1
      <4>4. text[q] = from[1]
        BY <4>2, <4>3
      <4> QED BY <3>1, <4>4 DEF Short
    <3>3. rest[q] = <<text[q]>> \o rest[q + 1]
      BY <2>1, <3>1, <3>2 DEF RestFrom
    <3>4. rest[q + 1] = SubSeq(text, q + 1, n)
      BY <1>3, <3>1
    <3>5. SubSeq(text, q, n) = <<text[q]>> \o SubSeq(text, q + 1, n)
      <4>1. q \in 1 .. Len(text) /\ n \in q .. Len(text)
        BY <1>2, <3>1
      <4> QED BY <4>1, SubSeqRecursiveFirst DEF Texts
    <3> QED BY <3>3, <3>4, <3>5
  <2> QED BY <2>2, <2>3
<1>4. \A q \in 1 .. n + 1 : q \in T
  <2>1. n + 1 \in Nat
    BY <1>2
  <2> HIDE DEF T
  <2> QED BY <1>3, <2>1, DownFrom
<1> QED BY <1>4

\* What a word becomes whose beginning is written short, p for q.
Rule(w, p, q) ==
    IF IsPrefix(p, w) THEN q \o SubSeq(w, Len(p) + 1, Len(w)) ELSE w

\* A text of one space.
IsBlank(text) == Len(text) = 1 /\ IsSpace(text[1])

\* The last word can be looked at on its own.
ReplacesLast(blank, text, w, p, q) ==
    ReplaceAllOf(text \o (blank \o w), blank \o p, blank \o q)
      = ReplaceAllOf(text, blank \o p, blank \o q) \o (blank \o Rule(w, p, q))

\* Three texts one behind the other.
LEMMA ConcatAssoc == \A s, t, u \in Texts : (s \o t) \o u = s \o (t \o u)
  BY ConcatTexts

\* The first character and the others.
LEMMA OneLetter ==
    ASSUME NEW text \in Texts, Len(text) = 1
    PROVE  <<text[1]>> = text
<1>1. text \in Seq(Characters)
  BY DEF Texts
<1>2. PICK c \in Characters : c = text[1]
  BY <1>1, ElementOfSeq
<1>3. PICK one : one = <<c>>
  OBVIOUS
<1>4. one \in Seq(Characters) /\ Len(one) = 1 /\ one[1] = c
  BY <1>3
<1>5. \A i \in 1 .. 1 : one[i] = text[i]
  BY <1>2, <1>4
<1>6. one = text
  BY <1>1, <1>4, <1>5, SeqEqual
<1> QED BY <1>2, <1>3, <1>6

\* One word in front of others is replaced as the rule says.
LEMMA ReplaceWord ==
    ASSUME NEW text \in Texts, NEW w \in Word, NEW p \in Word, NEW q \in Texts,
           NEW blank \in Texts, IsBlank(blank)
    PROVE  ReplacesLast(blank, text, w, p, q)
<1>1. w \in Texts /\ p \in Texts
  BY WordsAreTexts
<1>2. PICK m \in Nat, b \in Nat, y \in Nat :
        m = Len(text) /\ b = Len(w) /\ y = Len(p) /\ b > 0 /\ y > 0
  BY <1>1, WordsAreTexts, EmptySeq, LenProperties DEF Texts
<1>3. Len(blank) = 1 /\ IsSpace(blank[1])
  BY DEF IsBlank
<1>4. PICK z \in Nat, n \in Nat : z = y + 1 /\ n = m + (b + 1)
  OBVIOUS
<1>5. PICK from \in Texts : from = blank \o p /\ Len(from) = z
  <2>1. Len(blank) + Len(p) = z
    BY <1>2, <1>3, <1>4
  <2> QED BY <1>1, <2>1, ConcatTexts
<1>6. from[1] = blank[1] /\ \A i \in 2 .. z : from[i] = p[i - 1]
  <2>1. PICK e : e = Len(blank)
    OBVIOUS
  <2>2. \A i \in 1 .. e + y : from[i] = IF i <= e THEN blank[i] ELSE p[i - e]
    BY <1>1, <1>2, <1>5, <2>1, ConcatIs
  <2> QED BY <1>2, <1>3, <1>4, <2>1, <2>2
<1>7. PICK to \in Texts : to = blank \o q
  BY ConcatTexts
<1>8. Short(from)
  <2>1. \A i \in 2 .. z : ~IsSpace(from[i])
    <3>1. \A i \in 1 .. y : ~IsSpace(p[i])
      BY <1>2 DEF Word
    <3>2. \A i \in 2 .. z : i - 1 \in 1 .. y
      BY <1>4
    <3> QED BY <1>6, <3>1, <3>2
  <2> QED BY <1>2, <1>3, <1>4, <1>5, <1>6, <2>1 DEF Short
<1>9. PICK tail : tail \in Texts /\ tail = blank \o w /\ Len(tail) = b + 1
  <2>1. Len(blank) + Len(w) = b + 1
    BY <1>2, <1>3
  <2>2. blank \o w \in Texts /\ Len(blank \o w) = Len(blank) + Len(w)
    BY <1>1, ConcatTexts
  <2> QED BY <2>1, <2>2
<1>10. tail[1] = blank[1] /\ \A i \in 2 .. b + 1 : tail[i] = w[i - 1]
  <2>1. PICK e : e = Len(blank)
    OBVIOUS
  <2>2. \A i \in 1 .. e + b : tail[i] = IF i <= e THEN blank[i] ELSE w[i - e]
    BY <1>1, <1>2, <1>9, <2>1, ConcatIs
  <2> QED BY <1>2, <1>3, <2>1, <2>2
<1>11. PICK whole : whole \in Texts /\ whole = text \o tail /\ Len(whole) = n
  <2>1. Len(text) + Len(tail) = n
    BY <1>2, <1>4, <1>9
  <2>2. text \o tail \in Texts /\ Len(text \o tail) = Len(text) + Len(tail)
    BY <1>9, ConcatTexts
  <2> QED BY <2>1, <2>2
<1>e. z = Len(from)
  BY <1>5
<1>w. whole \in Texts /\ n = Len(whole)
  BY <1>11
<1>t. m = Len(text)
  BY <1>2
<1>b. b = Len(w)
  BY <1>2
<1>12. /\ \A i \in 1 .. m : whole[i] = text[i]
       /\ whole[m + 1] = blank[1] /\ \A i \in 1 .. b : whole[m + 1 + i] = w[i]
  <2>1. PICK e : e = Len(tail)
    OBVIOUS
  <2>2. \A i \in 1 .. m + e : whole[i] = IF i <= m THEN text[i] ELSE tail[i - m]
    BY <1>2, <1>11, <2>1, ConcatIs
  <2>3. \A i \in 1 .. m : whole[i] = text[i]
    BY <1>9, <2>1, <2>2
  <2>4. \A i \in 1 .. b + 1 : whole[m + i] = tail[i]
    <3>1. \A i \in 1 .. b + 1 : m + i \in 1 .. m + e /\ ~(m + i <= m) /\ (m + i) - m = i
      BY <1>9, <2>1
    <3> QED BY <2>2, <3>1
  <2>5. whole[m + 1] = blank[1]
    BY <1>10, <2>4
  <2>6. ASSUME NEW i \in 1 .. b
        PROVE  whole[m + 1 + i] = w[i]
    <3>1. PICK j \in 2 .. b + 1 : j = i + 1 /\ m + 1 + i = m + j /\ j - 1 = i
      OBVIOUS
    <3>2. j \in 1 .. b + 1
      OBVIOUS
    <3> QED BY <1>10, <2>4, <3>1, <3>2
  <2> QED BY <2>3, <2>5, <2>6
<1>13. PICK rest : IsReplacing(rest, whole, from, to)
                   /\ ReplaceAllOf(whole, from, to) = rest[1]
  BY <1>8, <1>w, ReplaceSteps, ShortIs
<1>14. PICK old : IsReplacing(old, text, from, to)
                  /\ ReplaceAllOf(text, from, to) = old[1]
  BY <1>8, ReplaceSteps, ShortIs
<1>15. PICK end \in Texts : end = rest[m + 1]
  <2>1. m + 1 \in 1 .. n + z
    BY <1>4
  <2> QED BY <1>5, <1>11, <1>13, <2>1 DEF IsReplacing
<1> DEFINE T == {pos \in 1 .. m + 1 : rest[pos] = old[pos] \o end}
<1>16. ASSUME NEW pos \in 1 .. m + 1, \A j \in pos + 1 .. m + 1 : j \in T
       PROVE  pos \in T
  <2>1. rest[pos] = RestFrom(rest, whole, from, to, pos)
    <3>1. pos \in 1 .. n + z
      BY <1>4
    <3> QED BY <1>5, <1>11, <1>13, <3>1 DEF IsReplacing
  <2>2. old[pos] = RestFrom(old, text, from, to, pos)
    <3>1. pos \in 1 .. m + z
      BY <1>2, <1>4
    <3> QED BY <1>2, <1>5, <1>14, <3>1 DEF IsReplacing
  <2>3. \A j \in 1 .. m + 1 : old[j] \in Texts
    <3>1. \A j \in 1 .. m + 1 : j \in 1 .. m + z
      BY <1>2, <1>4
    <3> QED BY <1>2, <1>5, <1>14, <3>1 DEF IsReplacing
  <2>4. CASE pos = m + 1
    <3>1. old[pos] = <<>>
      BY <1>2, <2>2, <2>4 DEF RestFrom
    <3> QED BY <1>15, <2>4, <3>1, ConcatTexts
  <2>5. CASE pos # m + 1
    <3>1. pos \in 1 .. m /\ pos \in 1 .. n /\ pos \in 1 .. n + 1
      BY <1>4, <2>5
    <3>2. IsPrefix(from, SubSeq(whole, pos, n))
            <=> pos + z <= n + 1 /\ Occurs(from, z, whole, pos)
      BY <1>e, <1>w, <3>1, MatchIs
    <3>3. IsPrefix(from, SubSeq(text, pos, m))
            <=> pos + z <= m + 1 /\ Occurs(from, z, text, pos)
      BY <1>e, <1>t, MatchIs
    <3>4. pos + z <= m + 1 => \A i \in 1 .. z : whole[pos + i - 1] = text[pos + i - 1]
      <4>1. pos + z <= m + 1 => \A i \in 1 .. z : pos + i - 1 \in 1 .. m
        OBVIOUS
      <4> QED BY <1>12, <4>1
    <3>5. (\A i \in 1 .. z : whole[pos + i - 1] = from[i]) => pos + z <= m + 1
      <4> SUFFICES ASSUME \A i \in 1 .. z : whole[pos + i - 1] = from[i], pos + z > m + 1
                   PROVE  FALSE
        OBVIOUS
      <4>1. PICK i \in 2 .. z : i = m + 2 - pos /\ pos + i - 1 = m + 1 /\ i \in 1 .. z
        BY <3>1
      <4>2. from[i] = blank[1]
        BY <1>12, <4>1
      <4>3. ~IsSpace(from[i])
        BY <1>5, <1>8, <4>1 DEF Short
      <4> QED BY <1>3, <4>2, <4>3
    <3>6. IsPrefix(from, SubSeq(whole, pos, n)) <=> IsPrefix(from, SubSeq(text, pos, m))
      <4>1. pos + z <= m + 1 => pos + z <= n + 1
        BY <1>4
      <4> QED BY <3>2, <3>3, <3>4, <3>5, <4>1 DEF Occurs
    <3>7. CASE IsPrefix(from, SubSeq(text, pos, m))
      <4>1. pos + z \in pos + 1 .. m + 1 /\ pos + z \in 1 .. m + 1
        BY <1>2, <1>4, <3>3, <3>7
      <4>2. rest[pos] = to \o rest[pos + z]
        BY <1>5, <1>11, <2>1, <3>1, <3>6, <3>7 DEF RestFrom
      <4>3. old[pos] = to \o old[pos + z]
        BY <1>2, <1>5, <2>2, <3>1, <3>7 DEF RestFrom
      <4>4. rest[pos + z] = old[pos + z] \o end
        BY <1>16, <4>1
      <4>5. PICK mid \in Texts : mid = old[pos + z]
        BY <2>3, <4>1
      <4>6. (to \o mid) \o end = to \o (mid \o end)
        BY ConcatAssoc
      <4> QED BY <4>2, <4>3, <4>4, <4>5, <4>6
    <3>8. CASE ~IsPrefix(from, SubSeq(text, pos, m))
      <4>1. pos + 1 \in pos + 1 .. m + 1 /\ pos + 1 \in 1 .. m + 1
        BY <3>1
      <4>2. rest[pos] = <<whole[pos]>> \o rest[pos + 1]
        BY <1>5, <1>11, <2>1, <3>1, <3>6, <3>8 DEF RestFrom
      <4>3. old[pos] = <<text[pos]>> \o old[pos + 1]
        BY <1>2, <1>5, <2>2, <3>1, <3>8 DEF RestFrom
      <4>4. rest[pos + 1] = old[pos + 1] \o end
        BY <1>16, <4>1
      <4>5. PICK mid \in Texts : mid = old[pos + 1]
        BY <2>3, <4>1
      <4>6. PICK one \in Texts : one = <<text[pos]>> /\ one = <<whole[pos]>>
        <5>1. text[pos] \in Characters /\ whole[pos] = text[pos]
          BY <1>2, <1>12, <3>1, ElementOfSeq DEF Texts
        <5> QED BY <5>1, TextFacts
      <4>7. (one \o mid) \o end = one \o (mid \o end)
        BY ConcatAssoc
      <4> QED BY <4>2, <4>3, <4>4, <4>5, <4>6, <4>7
    <3> QED BY <3>7, <3>8
  <2> QED BY <2>4, <2>5
<1>17. rest[1] = old[1] \o end
  <2>1. \A pos \in 1 .. m + 1 : pos \in T
    <3>1. m + 1 \in Nat
      OBVIOUS
    <3> HIDE DEF T
    <3> QED BY <1>16, <3>1, DownFrom
  <2>2. 1 \in 1 .. m + 1
    OBVIOUS
  <2> QED BY <2>1, <2>2
<1>18. end = blank \o Rule(w, p, q)
  <2>1. PICK f \in 1 .. n : f = m + 1
    BY <1>4
  <2>2. end = RestFrom(rest, whole, from, to, f)
    <3>1. f \in 1 .. n + z
      OBVIOUS
    <3> QED BY <1>5, <1>11, <1>13, <1>15, <2>1, <3>1 DEF IsReplacing
  <2>3. \A i \in f + 1 .. n : ~IsSpace(whole[i])
    <3> SUFFICES ASSUME NEW i \in f + 1 .. n PROVE ~IsSpace(whole[i])
      OBVIOUS
    <3>1. PICK j \in 1 .. b : j = i - (m + 1) /\ m + 1 + j = i
      BY <1>4, <2>1
    <3>2. whole[i] = w[j]
      BY <1>12, <3>1
    <3> QED BY <1>2, <3>2 DEF Word
  <2>4. ASSUME NEW g \in f + 1 .. n + 1
        PROVE  rest[g] = SubSeq(whole, g, n)
    <3>1. g \in 1 .. n + 1 /\ \A i \in g .. n : ~IsSpace(whole[i])
      BY <2>3
    <3> QED BY <1>8, <1>w, <1>13, <3>1, ReplaceTail
  <2>5. \A i \in 1 .. b : whole[f + i] = w[i]
    BY <1>12, <2>1
  <2>6. IsPrefix(from, SubSeq(whole, f, n)) <=> IsPrefix(p, w)
    <3>1. IsPrefix(from, SubSeq(whole, f, n))
            <=> f + z <= n + 1 /\ Occurs(from, z, whole, f)
      <4>1. f \in 1 .. n + 1
        OBVIOUS
      <4> QED BY <1>e, <1>w, <4>1, MatchIs
    <3>2. IsPrefix(p, w) <=> y <= b /\ \A i \in 1 .. y : p[i] = w[i]
      BY <1>1, <1>2, PrefixIs
    <3>3. f + z <= n + 1 <=> y <= b
      BY <1>4, <2>1
    <3>4. ASSUME y <= b
          PROVE  (\A i \in 1 .. z : whole[f + i - 1] = from[i])
                   <=> \A i \in 1 .. y : p[i] = w[i]
      <4>1. ASSUME NEW i \in 1 .. y
            PROVE  whole[f + (i + 1) - 1] = w[i] /\ from[i + 1] = p[i]
        <5>1. f + (i + 1) - 1 = f + i /\ i \in 1 .. b
          BY <3>4
        <5>2. i + 1 \in 2 .. z /\ (i + 1) - 1 = i
          BY <1>4
        <5>3. whole[f + (i + 1) - 1] = w[i]
          BY <2>5, <5>1
        <5>4. from[i + 1] = p[i]
          BY <1>6, <5>2
        <5> QED BY <5>3, <5>4
      <4>2. whole[f + 1 - 1] = blank[1] /\ from[1] = blank[1]
        BY <1>6, <1>12, <2>1
      <4>3. \A i \in 1 .. z : i = 1 \/ (i - 1 \in 1 .. y /\ (i - 1) + 1 = i)
        BY <1>4
      <4>4. \A i \in 1 .. y : i + 1 \in 1 .. z
        BY <1>4
      <4> QED BY <4>1, <4>2, <4>3, <4>4
    <3> QED BY <3>1, <3>2, <3>3, <3>4 DEF Occurs
  <2>7. CASE IsPrefix(p, w)
    <3>1. y <= b
      BY <1>1, <1>2, <2>7, PrefixIs
    <3>2. end = to \o rest[f + z]
      BY <1>5, <1>11, <2>1, <2>2, <2>6, <2>7 DEF RestFrom
    <3>3. f + z \in f + 1 .. n + 1
      BY <1>2, <1>4, <2>1, <3>1
    <3>4. rest[f + z] = SubSeq(whole, f + z, n)
      BY <2>4, <3>3
    <3>5. PICK part \in Texts : part = SubSeq(w, y + 1, b)
      <4>1. y + 1 \in 1 .. b + 1
        BY <3>1
      <4> QED BY <1>1, <1>2, <4>1, FromPlace
    <3>6. SubSeq(whole, f + z, n) = part
      <4>1. PICK x : x = SubSeq(whole, f + z, n)
        OBVIOUS
      <4>2. /\ x \in Texts /\ Len(x) = n + 1 - (f + z)
            /\ \A i \in 1 .. n + 1 - (f + z) : x[i] = whole[(f + z) + i - 1]
        <5>1. PICK g \in 1 .. n + 1 : g = f + z
          BY <3>3
        <5>2. x \in Texts /\ Len(x) = n + 1 - g
          BY <1>w, <4>1, <5>1, FromPlace
        <5>3. \A i \in 1 .. n + 1 - g : x[i] = whole[g + i - 1]
          BY <1>w, <4>1, <5>1, FromPlace
        <5> QED BY <5>1, <5>2, <5>3
      <4>3. /\ Len(part) = b + 1 - (y + 1)
            /\ \A i \in 1 .. b + 1 - (y + 1) : part[i] = w[(y + 1) + i - 1]
        <5>1. PICK g \in 1 .. b + 1 : g = y + 1
          BY <3>1
        <5>2. Len(part) = b + 1 - g
          BY <1>1, <1>b, <3>5, <5>1, FromPlace
        <5>3. \A i \in 1 .. b + 1 - g : part[i] = w[g + i - 1]
          BY <1>1, <1>b, <3>5, <5>1, FromPlace
        <5> QED BY <5>1, <5>2, <5>3
      <4>4. n + 1 - (f + z) = b - y /\ b + 1 - (y + 1) = b - y
        BY <1>4, <2>1
      <4>5. ASSUME NEW i \in 1 .. b - y
            PROVE  x[i] = part[i]
        <5>1. /\ (f + z) + i - 1 = f + (y + i) /\ y + i \in 1 .. b
              /\ (y + 1) + i - 1 = y + i
          BY <1>4
        <5> QED BY <2>5, <4>2, <4>3, <4>4, <5>1
      <4>6. x = part
        BY <4>2, <4>3, <4>4, <4>5, SeqEqual DEF Texts
      <4> QED BY <4>1, <4>6
    <3>7. Rule(w, p, q) = q \o part
      BY <1>2, <2>7, <3>5 DEF Rule
    <3>8. (blank \o q) \o part = blank \o (q \o part)
      BY ConcatTexts
    <3> QED BY <1>7, <3>2, <3>4, <3>6, <3>7, <3>8
  <2>8. CASE ~IsPrefix(p, w)
    <3>1. end = <<whole[f]>> \o rest[f + 1]
      BY <1>5, <1>11, <2>1, <2>2, <2>6, <2>8 DEF RestFrom
    <3>2. <<whole[f]>> = blank
      <4>1. <<whole[f]>> = <<blank[1]>>
        BY <1>12, <2>1
      <4>2. <<blank[1]>> = blank
        BY <1>3, OneLetter
      <4> QED BY <4>1, <4>2
    <3>3. f + 1 \in f + 1 .. n + 1 /\ f + 1 \in 1 .. n + 1
      OBVIOUS
    <3>4. rest[f + 1] = SubSeq(whole, f + 1, n)
      BY <2>4, <3>3
    <3>5. SubSeq(whole, f + 1, n) = w
      <4>1. PICK x : x = SubSeq(whole, f + 1, n)
        OBVIOUS
      <4>2. /\ x \in Texts /\ Len(x) = n + 1 - (f + 1)
            /\ \A i \in 1 .. n + 1 - (f + 1) : x[i] = whole[(f + 1) + i - 1]
        <5>1. PICK g \in 1 .. n + 1 : g = f + 1
          BY <3>3
        <5>2. x \in Texts /\ Len(x) = n + 1 - g
          BY <1>w, <4>1, <5>1, FromPlace
        <5>3. \A i \in 1 .. n + 1 - g : x[i] = whole[g + i - 1]
          BY <1>w, <4>1, <5>1, FromPlace
        <5> QED BY <5>1, <5>2, <5>3
      <4>3. n + 1 - (f + 1) = b
        BY <1>4, <2>1
      <4>4. ASSUME NEW i \in 1 .. b
            PROVE  x[i] = w[i]
        <5>1. (f + 1) + i - 1 = f + i
          OBVIOUS
        <5> QED BY <2>5, <4>2, <4>3, <5>1
      <4>5. x = w
        BY <1>1, <1>2, <4>2, <4>3, <4>4, SeqEqual DEF Texts
      <4> QED BY <4>1, <4>5
    <3>6. Rule(w, p, q) = w
      BY <2>8 DEF Rule
    <3> QED BY <3>1, <3>2, <3>4, <3>5, <3>6
  <2> QED BY <2>7, <2>8
<1> QED BY <1>5, <1>7, <1>9, <1>11, <1>13, <1>14, <1>17, <1>18 DEF ReplacesLast

\* A space and a word make something to search for.
LEMMA ShortBlank ==
    ASSUME NEW p \in Word, NEW blank \in Texts, IsBlank(blank)
    PROVE  Short(blank \o p)
<1>1. p \in Texts
  BY WordsAreTexts
<1>2. PICK y \in Nat : y = Len(p) /\ y > 0 /\ \A i \in 1 .. y : ~IsSpace(p[i])
  <2>1. Len(p) \in Nat /\ (Len(p) = 0 => p = <<>>)
    BY <1>1, LenProperties, EmptySeq DEF Texts
  <2>2. p # <<>> /\ \A i \in 1 .. Len(p) : ~IsSpace(p[i])
    BY WordsAreTexts DEF Word
  <2> QED BY <2>1, <2>2
<1>3. Len(blank) = 1 /\ IsSpace(blank[1])
  BY DEF IsBlank
<1>4. PICK from : from = blank \o p
  OBVIOUS
<1>5. PICK e : e = Len(blank)
  OBVIOUS
<1>6. from \in Texts /\ Len(from) = e + y
  BY <1>1, <1>2, <1>4, <1>5, ConcatTexts
<1>7. \A i \in 1 .. e + y : from[i] = IF i <= e THEN blank[i] ELSE p[i - e]
  BY <1>1, <1>2, <1>4, <1>5, ConcatIs
<1>8. from[1] = blank[1] /\ \A i \in 2 .. y + 1 : ~IsSpace(from[i])
  BY <1>2, <1>3, <1>5, <1>7
<1>9. Len(from) = y + 1 /\ Len(from) > 1
  BY <1>2, <1>3, <1>5, <1>6
<1>10. Short(from)
  BY <1>3, <1>6, <1>8, <1>9 DEF Short
<1> QED BY <1>4, <1>10

\* Nothing is replaced in an empty text.
LEMMA ReplaceNone ==
    ASSUME NEW text \in Texts, \A i \in 1 .. Len(text) : ~IsSpace(text[i]),
           NEW from, Short(from), NEW to \in Texts
    PROVE  ReplaceAllOf(text, from, to) = text
<1>1. PICK n \in Nat : n = Len(text)
  BY LenProperties DEF Texts
<1>2. PICK rest : IsReplacing(rest, text, from, to) /\ ReplaceAllOf(text, from, to) = rest[1]
  BY ReplaceSteps, ShortIs
<1>3. PICK one \in 1 .. n + 1 : one = 1
  BY <1>1
<1>4. \A i \in one .. n : ~IsSpace(text[i])
  BY <1>1, <1>3
<1>5. rest[one] = SubSeq(text, one, n)
  BY <1>1, <1>2, <1>4, ReplaceTail
<1>6. SubSeq(text, 1, n) = text
  BY <1>1, SubSeqFull DEF Texts
<1> QED BY <1>2, <1>3, <1>5, <1>6

-----------------------------------------------------------------------------
(* What is done to all words but the first.                                *)

\* Each word but the first has f applied to it.
Mapped(words, f) == [k \in DOMAIN words |-> IF k = 1 THEN words[k] ELSE f[words[k]]]

\* They are as many, and words.
LEMMA MappedIs ==
    ASSUME NEW words \in Seq(Word), NEW f \in [Word -> Word], NEW n, n = Len(words)
    PROVE  /\ n \in Nat /\ Mapped(words, f) \in Seq(Word) /\ Len(Mapped(words, f)) = n
           /\ \A k \in 1 .. n :
                Mapped(words, f)[k] = IF k = 1 THEN words[k] ELSE f[words[k]]
<1>1. n \in Nat /\ DOMAIN words = 1 .. n
  BY LenProperties
<1>2. PICK m : m = Mapped(words, f)
  OBVIOUS
<1>3. m = [k \in 1 .. n |-> IF k = 1 THEN words[k] ELSE f[words[k]]]
  BY <1>1, <1>2 DEF Mapped
<1>4. \A k \in 1 .. n : words[k] \in Word
  BY <1>1, ElementOfSeq
<1>5. m \in [1 .. n -> Word]
  BY <1>3, <1>4
<1>6. m \in Seq(Word) /\ Len(m) = n
  BY <1>1, <1>3, <1>5, SeqDef
<1> QED BY <1>1, <1>2, <1>3, <1>6

\* Of no words, none.
LEMMA MappedNone == \A f : Mapped(<<>>, f) = <<>>
<1>1. DOMAIN <<>> = {}
  OBVIOUS
<1> QED BY <1>1 DEF Mapped

\* The last is the last, with f applied if it is not the first.
LEMMA MappedNext ==
    ASSUME NEW words \in Seq(Word), NEW f \in [Word -> Word], NEW w \in Word,
           NEW v, v = IF words = <<>> THEN w ELSE f[w]
    PROVE  Mapped(Append(words, w), f) = Append(Mapped(words, f), v)
<1>1. PICK n \in Nat : n = Len(words)
  BY LenProperties
<1>2. v \in Word
  OBVIOUS
<1>3. PICK more : more = Append(words, w)
  OBVIOUS
<1>4. /\ more \in Seq(Word) /\ Len(more) = n + 1 /\ more[n + 1] = w
      /\ \A k \in 1 .. n : more[k] = words[k]
  BY <1>1, <1>3, OneMore
<1>5. PICK big : big = Mapped(more, f)
  OBVIOUS
<1>6. PICK e : e = Len(more)
  OBVIOUS
<1>7. /\ big \in Seq(Word) /\ Len(big) = e
      /\ \A k \in 1 .. e : big[k] = IF k = 1 THEN more[k] ELSE f[more[k]]
  <2>1. more \in Seq(Word) /\ e = Len(more)
    BY <1>4, <1>6
  <2> QED BY <1>5, <2>1, MappedIs
<1>8. PICK left : left = Mapped(words, f)
  OBVIOUS
<1>9. /\ left \in Seq(Word) /\ n = Len(left)
      /\ \A k \in 1 .. n : left[k] = IF k = 1 THEN words[k] ELSE f[words[k]]
  BY <1>1, <1>8, MappedIs
<1>10. PICK join : join = Append(left, v)
  OBVIOUS
<1>11. /\ join \in Seq(Word) /\ Len(join) = n + 1 /\ join[n + 1] = v
       /\ \A k \in 1 .. n : join[k] = left[k]
  <2>1. left \in Seq(Word) /\ n = Len(left)
    BY <1>9
  <2> QED BY <1>2, <1>10, <2>1, OneMore
<1>12. e = n + 1
  BY <1>4, <1>6
<1>13. words = <<>> <=> n = 0
  BY <1>1, EmptySeq
<1>14. ASSUME NEW k \in 1 .. n + 1
       PROVE  big[k] = join[k]
  <2>1. CASE k = n + 1
    <3>1. big[k] = IF k = 1 THEN more[k] ELSE f[more[k]]
      BY <1>7, <1>12
    <3>2. k = 1 <=> n = 0
      BY <2>1
    <3> QED BY <1>4, <1>11, <1>13, <2>1, <3>1, <3>2
  <2>2. CASE k # n + 1
    <3>1. k \in 1 .. n
      BY <2>2
    <3>2. big[k] = IF k = 1 THEN more[k] ELSE f[more[k]]
      BY <1>7, <1>12
    <3> QED BY <1>4, <1>9, <1>11, <3>1, <3>2
  <2> QED BY <2>1, <2>2
<1>15. big = join
  BY <1>7, <1>11, <1>12, <1>14, SeqEqual
<1> QED BY <1>3, <1>5, <1>8, <1>10, <1>15

\* One after the other is both at once.
LEMMA MappedTwice ==
    ASSUME NEW words \in Seq(Word), NEW f \in [Word -> Word], NEW g \in [Word -> Word]
    PROVE  Mapped(Mapped(words, f), g) = Mapped(words, [w \in Word |-> g[f[w]]])
<1>1. PICK both : both = [w \in Word |-> g[f[w]]]
  OBVIOUS
<1>2. both \in [Word -> Word] /\ \A w \in Word : both[w] = g[f[w]]
  BY <1>1
<1>3. PICK n \in Nat : n = Len(words)
  BY LenProperties
<1>4. PICK once : once = Mapped(words, f)
  OBVIOUS
<1>5. /\ once \in Seq(Word) /\ n = Len(once)
      /\ \A k \in 1 .. n : once[k] = IF k = 1 THEN words[k] ELSE f[words[k]]
  BY <1>3, <1>4, MappedIs
<1>6. PICK twice : twice = Mapped(once, g)
  OBVIOUS
<1>7. /\ twice \in Seq(Word) /\ n = Len(twice)
      /\ \A k \in 1 .. n : twice[k] = IF k = 1 THEN once[k] ELSE g[once[k]]
  <2>1. once \in Seq(Word) /\ n = Len(once)
    BY <1>5
  <2> QED BY <1>6, <2>1, MappedIs
<1>8. PICK all : all = Mapped(words, both)
  OBVIOUS
<1>9. /\ all \in Seq(Word) /\ n = Len(all)
      /\ \A k \in 1 .. n : all[k] = IF k = 1 THEN words[k] ELSE both[words[k]]
  BY <1>2, <1>3, <1>8, MappedIs
<1>10. \A k \in 1 .. n : words[k] \in Word
  BY <1>3, ElementOfSeq
<1>11. \A k \in 1 .. n : twice[k] = all[k]
  BY <1>2, <1>5, <1>7, <1>9, <1>10
<1>12. twice = all
  BY <1>7, <1>9, <1>11, SeqEqual
<1> QED BY <1>1, <1>4, <1>6, <1>8, <1>12

-----------------------------------------------------------------------------
\* A word that a rule is applied to is a word.
LEMMA RuleIs ==
    ASSUME NEW w \in Word, NEW p \in Word, NEW q \in Word
    PROVE  Rule(w, p, q) \in Word
<1>1. w \in Texts /\ p \in Texts /\ q \in Texts /\ q # <<>>
  BY WordsAreTexts DEF Word
<1>2. PICK b \in Nat, y \in Nat, a \in Nat : b = Len(w) /\ y = Len(p) /\ a = Len(q)
  BY <1>1, LenProperties DEF Texts
<1>3. CASE IsPrefix(p, w)
  <2>1. y <= b
    BY <1>1, <1>2, <1>3, PrefixIs
  <2>2. PICK g \in 1 .. b + 1 : g = y + 1
    BY <2>1
  <2>3. PICK part : part = SubSeq(w, g, b)
    OBVIOUS
  <2>4. part \in Texts /\ Len(part) = b + 1 - g
    BY <1>1, <1>2, <2>3, FromPlace
  <2>5. \A i \in 1 .. b + 1 - g : part[i] = w[g + i - 1]
    BY <1>1, <1>2, <2>3, FromPlace
  <2>6. PICK c \in Nat : c = Len(part)
    BY <2>2, <2>4
  <2>7. PICK both : both = q \o part
    OBVIOUS
  <2>8. both \in Texts /\ Len(both) = a + c
    BY <1>1, <1>2, <2>4, <2>6, <2>7, ConcatTexts
  <2>9. \A i \in 1 .. a + c : both[i] = IF i <= a THEN q[i] ELSE part[i - a]
    BY <1>1, <1>2, <2>4, <2>6, <2>7, ConcatIs
  <2>10. \A i \in 1 .. a : ~IsSpace(q[i])
    BY <1>2 DEF Word
  <2>11. \A i \in 1 .. c : ~IsSpace(part[i])
    <3>1. \A i \in 1 .. c : part[i] = w[g + i - 1] /\ g + i - 1 \in 1 .. b
      BY <2>2, <2>4, <2>5, <2>6
    <3> QED BY <1>2, <3>1 DEF Word
  <2>12. \A i \in 1 .. a + c : ~IsSpace(both[i])
    <3>1. \A i \in 1 .. a + c : i <= a => i \in 1 .. a
      OBVIOUS
    <3>2. \A i \in 1 .. a + c : ~(i <= a) => i - a \in 1 .. c
      OBVIOUS
    <3> QED BY <2>9, <2>10, <2>11, <3>1, <3>2
  <2>13. both # <<>>
    <3>1. a # 0
      BY <1>1, <1>2, EmptySeq DEF Texts
    <3>2. Len(both) # 0
      BY <2>8, <3>1
    <3> QED BY <3>2, EmptySeq
  <2>14. both \in Word
    BY <2>8, <2>12, <2>13 DEF Word
  <2>15. Rule(w, p, q) = both
    BY <1>2, <1>3, <2>2, <2>3, <2>7 DEF Rule
  <2> QED BY <2>14, <2>15
<1>4. CASE ~IsPrefix(p, w)
  BY <1>4 DEF Rule
<1> QED BY <1>3, <1>4

\* A rule as a function of words.
RuleOf(p, q) == [w \in Word |-> Rule(w, p, q)]

\* It gives words.
LEMMA RuleOfIs ==
    ASSUME NEW p \in Word, NEW q \in Word
    PROVE  /\ RuleOf(p, q) \in [Word -> Word]
           /\ \A w \in Word : RuleOf(p, q)[w] = Rule(w, p, q)
  BY RuleIs DEF RuleOf

\* The text of one space.
IsOneSpace(text) == text = <<" ">>

\* replace_all, on words joined by spaces.
LEMMA ReplaceSpaced ==
    ASSUME NEW words \in Seq(Word), NEW p \in Word, NEW q \in Word,
           NEW blank \in Texts, IsOneSpace(blank)
    PROVE  ReplaceAllOf(Spaced(words), blank \o p, blank \o q)
             = Spaced(Mapped(words, RuleOf(p, q)))
<1>1. IsBlank(blank)
  BY BlankIs DEF IsBlank, IsOneSpace
<1>2. p \in Texts /\ q \in Texts
  BY WordsAreTexts
<1>3. PICK from : from = blank \o p /\ Short(from)
  BY <1>1, ShortBlank
<1>4. PICK to \in Texts : to = blank \o q
  BY <1>2, ConcatTexts
<1>5. PICK f \in [Word -> Word] :
        f = RuleOf(p, q) /\ \A w \in Word : f[w] = Rule(w, p, q)
  BY RuleOfIs
<1> DEFINE T == {ws \in Seq(Word) :
                   ReplaceAllOf(Spaced(ws), from, to) = Spaced(Mapped(ws, f))}
<1>6. <<>> \in T
  <2>1. PICK none \in Texts : none = <<>>
    BY TextFacts
  <2>2. \A i \in 1 .. Len(none) : ~IsSpace(none[i])
    <3>1. Len(none) = 0
      BY <2>1, TextFacts
    <3> QED BY <3>1
  <2>3. ReplaceAllOf(none, from, to) = none
    BY <1>3, <2>2, ReplaceNone
  <2>4. Mapped(<<>>, f) = <<>>
    BY MappedNone
  <2> QED BY <2>1, <2>3, <2>4, SpacedNone, EmptySeq
<1>7. ASSUME NEW ws \in Seq(Word), NEW w \in Word, ws \in T
      PROVE  Append(ws, w) \in T
  <2>1. PICK v \in Word : v = IF ws = <<>> THEN w ELSE f[w]
    OBVIOUS
  <2>2. PICK some \in Seq(Word) : some = Mapped(ws, f)
    BY MappedIs
  <2>3. Mapped(Append(ws, w), f) = Append(some, v)
    <3>1. Mapped(Append(ws, w), f) = Append(Mapped(ws, f), v)
      BY <2>1, MappedNext
    <3> QED BY <2>2, <3>1
  <2>4. some = <<>> <=> ws = <<>>
    <3>1. PICK n : n = Len(ws)
      OBVIOUS
    <3>2. Len(some) = n
      BY <2>2, <3>1, MappedIs
    <3> QED BY <3>1, <3>2, EmptySeq
  <2>5. /\ /\ ws \in Seq(Texts) /\ some \in Seq(Texts) /\ w \in Texts
        /\ v \in Texts
        /\ Append(ws, w) \in Seq(Word)
    BY WordsAreTexts, AppendProperties
  <2>6. PICK old \in Texts : old = Spaced(ws)
    BY <2>5, SpacedIsText
  <2>7. PICK new \in Texts : new = Spaced(some)
    BY <2>5, SpacedIsText
  <2>8. ReplaceAllOf(old, from, to) = new
    BY <1>7, <2>2, <2>6, <2>7
  <2>9. CASE ws = <<>>
    <3>1. /\ Spaced(Append(ws, w)) = old \o w
          /\ Spaced(Append(some, v)) = new \o v
      BY <2>4, <2>5, <2>6, <2>7, <2>9, SpacedNext
    <3>2. old = <<>> /\ new = <<>> /\ v = w
      BY <2>1, <2>4, <2>6, <2>7, <2>9, SpacedNone
    <3>3. Spaced(Append(ws, w)) = w /\ Spaced(Append(some, v)) = w
      BY <2>5, <3>1, <3>2, ConcatTexts
    <3>4. ReplaceAllOf(w, from, to) = w
      <4>1. \A i \in 1 .. Len(w) : ~IsSpace(w[i])
        BY DEF Word
      <4> QED BY <1>3, <2>5, <4>1, ReplaceNone
    <3> QED BY <2>3, <2>5, <3>3, <3>4
  <2>10. CASE ws # <<>>
    <3>1. /\ Spaced(Append(ws, w)) = old \o (blank \o w)
          /\ Spaced(Append(some, v)) = new \o (blank \o v)
      BY <2>4, <2>5, <2>6, <2>7, <2>10, SpacedNext DEF IsOneSpace
    <3>2. v = Rule(w, p, q)
      BY <1>5, <2>1, <2>10
    <3>3. ReplaceAllOf(old \o (blank \o w), from, to)
            = ReplaceAllOf(old, from, to) \o (blank \o Rule(w, p, q))
      <4>1. ReplacesLast(blank, old, w, p, q)
        BY <1>1, <1>2, ReplaceWord
      <4> QED BY <1>3, <1>4, <4>1 DEF ReplacesLast
    <3> QED BY <1>3, <1>4, <2>3, <2>5, <2>8, <3>1, <3>2, <3>3
  <2> QED BY <2>9, <2>10
<1>8. words \in T
  <2> HIDE DEF T
  <2> QED BY <1>6, <1>7, SequenceInduction
<1> QED BY <1>3, <1>4, <1>5, <1>8

\* How what is replaced is spelt.
Spelt(from, p) == from = <<" ">> \o p

\* Spelt so, it is replaced word by word.
LEMMA ReplaceSpelt ==
    ASSUME NEW words \in Seq(Word), NEW p \in Word, NEW q \in Word,
           NEW from, Spelt(from, p), NEW to, Spelt(to, q)
    PROVE  ReplaceAllOf(Spaced(words), from, to) = Spaced(Mapped(words, RuleOf(p, q)))
<1>1. PICK blank \in Texts : IsOneSpace(blank)
  BY TextFacts DEF IsOneSpace
<1>2. from = blank \o p /\ to = blank \o q
  BY <1>1 DEF IsOneSpace, Spelt
<1>3. ReplaceAllOf(Spaced(words), blank \o p, blank \o q)
        = Spaced(Mapped(words, RuleOf(p, q)))
  BY <1>1, ReplaceSpaced
<1> QED BY <1>2, <1>3

\* The characters of the replacements.
LEMMA Lettering ==
    /\ \A c \in {"S", "R", "B", "t", "r", "e", "o", "a", "d", "u", "l", "v", Stop, Comma} :
         c \in Characters /\ ~IsSpace(c)
    /\ \A c \in {"S", "R", "B"} : ToUpper(c) = c
    /\ \A c \in {"t", "r", "e", "o", "a", "d", "u", "l", "v", Comma} : ToLower(c) = c
<1>1. /\ Capital[19] = "S" /\ Capital[18] = "R" /\ Capital[2] = "B"
      /\ Small[20] = "t" /\ Small[18] = "r" /\ Small[5] = "e" /\ Small[15] = "o"
      /\ Small[1] = "a" /\ Small[4] = "d" /\ Small[21] = "u" /\ Small[12] = "l"
      /\ Small[22] = "v"
  BY DEF Small, Capital
<1>2. /\ \A i \in 1 .. 26 : Small[i] \in Letters /\ Capital[i] \in Letters
      /\ \A i, j \in 1 .. 26 : Small[i] # Capital[j]
      /\ Len(Small) = 26 /\ Len(Capital) = 26
  BY LetterFacts
<1>3. \A c \in Letters : c \in Characters /\ ~IsSpace(c)
  BY LetterFacts DEF Characters, IsSpace
<1>4. /\ /\ Stop \in Characters /\ Comma \in Characters /\ ~IsSpace(Stop)
      /\ ~IsSpace(Comma)
      /\ Comma \notin Letters
  <2>1. /\ {Stop, Comma} \subseteq Marks
        /\ Marks \cap (Spaces \cup Digits \cup Letters) = {}
    BY MarksAssumption
  <2> QED BY <2>1 DEF Characters, IsSpace
<1>5. \A i \in 1 .. 26 : ToUpper(Capital[i]) = Capital[i]
  <2>1. \A i \in 1 .. 26 : ~Contains(Small, Capital[i])
    BY <1>2 DEF Contains
  <2> QED BY <2>1 DEF ToUpper
<1>6. \A i \in 1 .. 26 : ToLower(Small[i]) = Small[i]
  <2>1. \A i \in 1 .. 26 : ~Contains(Capital, Small[i])
    BY <1>2 DEF Contains
  <2> QED BY <2>1 DEF ToLower
<1>7. ToLower(Comma) = Comma
  <2>1. ~Contains(Capital, Comma)
    BY <1>2, <1>4 DEF Contains
  <2> QED BY <2>1 DEF ToLower
<1>8. \A c \in {"S", "R", "B"} : \E i \in 1 .. 26 : c = Capital[i]
  BY <1>1
<1>9. \A c \in {"t", "r", "e", "o", "a", "d", "u", "l", "v"} :
        \E i \in 1 .. 26 : c = Small[i]
  BY <1>1
<1>10. \A c \in {"S", "R", "B"} : c \in Letters /\ ToUpper(c) = c
  BY <1>2, <1>5, <1>8
<1>11. \A c \in {"t", "r", "e", "o", "a", "d", "u", "l", "v"} :
         c \in Letters /\ ToLower(c) = c
  BY <1>2, <1>6, <1>9
<1> QED BY <1>3, <1>4, <1>7, <1>10, <1>11

\* What an address begins short with, and what is written for it.
Begins(k) ==
    CASE k = 1 -> <<"S", "t", Stop>>
      [] k = 2 -> <<"S", "t", Comma>>
      [] k = 3 -> <<"R", "d", Stop>>
      [] k = 4 -> <<"R", "d", Comma>>
      [] k = 5 -> <<"B", "l", "v", "d">>

\* And what they are written out as.
InFull(k) ==
    CASE k = 1 -> <<"S", "t", "r", "e", "e", "t">>
      [] k = 2 -> <<"S", "t", "r", "e", "e", "t", Comma>>
      [] k = 3 -> <<"R", "o", "a", "d">>
      [] k = 4 -> <<"R", "o", "a", "d", Comma>>
      [] k = 5 -> <<"B", "o", "u", "l", "e", "v", "a", "r", "d">>

\* The characters of both.
Lettered == {"S", "R", "B", "t", "r", "e", "o", "a", "d", "u", "l", "v", Stop, Comma}

\* Their characters are these.
LEMMA BeginsIn ==
    ASSUME NEW k \in 1 .. 5
    PROVE  Begins(k) \in Seq(Lettered) /\ Begins(k) # <<>>
<1>1. CASE k = 1
  BY <1>1 DEF Begins, Lettered
<1>2. CASE k = 2
  BY <1>2 DEF Begins, Lettered
<1>3. CASE k = 3
  BY <1>3 DEF Begins, Lettered
<1>4. CASE k = 4
  BY <1>4 DEF Begins, Lettered
<1>5. CASE k = 5
  BY <1>5 DEF Begins, Lettered
<1> QED BY <1>1, <1>2, <1>3, <1>4, <1>5

\* So are those of what they are written out as.
LEMMA InFullIn ==
    ASSUME NEW k \in 1 .. 5
    PROVE  InFull(k) \in Seq(Lettered) /\ InFull(k) # <<>>
<1>1. CASE k = 1
  BY <1>1 DEF InFull, Lettered
<1>2. CASE k = 2
  BY <1>2 DEF InFull, Lettered
<1>3. CASE k = 3
  BY <1>3 DEF InFull, Lettered
<1>4. CASE k = 4
  BY <1>4 DEF InFull, Lettered
<1>5. CASE k = 5
  BY <1>5 DEF InFull, Lettered
<1> QED BY <1>1, <1>2, <1>3, <1>4, <1>5

\* Anything of these characters is a word.
LEMMA LetteredWord ==
    ASSUME NEW w \in Seq(Lettered), w # <<>>
    PROVE  w \in Word
<1>1. Lettered \subseteq Characters /\ \A c \in Lettered : ~IsSpace(c)
  BY Lettering DEF Lettered
<1>2. w \in Texts
  BY <1>1, SeqMonotonic DEF Texts
<1>3. \A i \in 1 .. Len(w) : w[i] \in Lettered
  BY ElementOfSeq
<1> QED BY <1>1, <1>2, <1>3 DEF Word

\* So all of them are words.
LEMMA RulesAreWords ==
    ASSUME NEW k \in 1 .. 5
    PROVE  Begins(k) \in Word /\ InFull(k) \in Word
  BY BeginsIn, InFullIn, LetteredWord

\* One element in front of a sequence, and one behind it.
Precedes(b, p, from) == from = <<b>> \o p
Follows(e, seq, more) == more = Append(seq, e)

\* A sequence longer by one, with the same beginning.
LEMMA OneAfter ==
    ASSUME NEW S, NEW seq \in Seq(S), NEW e \in S, NEW n, n = Len(seq),
           NEW more \in Seq(S), Len(more) = n + 1, more[n + 1] = e,
           \A i \in 1 .. n : more[i] = seq[i]
    PROVE  Follows(e, seq, more)
<1>1. PICK join : join = Append(seq, e)
  OBVIOUS
<1>2. /\ n \in Nat /\ join \in Seq(S) /\ Len(join) = n + 1 /\ join[n + 1] = e
      /\ \A k \in 1 .. n : join[k] = seq[k]
  BY <1>1, OneMore
<1>3. \A i \in 1 .. n + 1 : more[i] = join[i]
  <2>1. \A i \in 1 .. n + 1 : i = n + 1 \/ i \in 1 .. n
    BY <1>2
  <2> QED BY <1>2, <2>1
<1>4. more = join
  BY <1>2, <1>3, SeqEqual
<1> QED BY <1>1, <1>4 DEF Follows

\* A sequence longer by one, with the same end.
LEMMA OneBefore ==
    ASSUME NEW S, NEW from \in Seq(S), NEW p \in Seq(S), NEW y, y = Len(p),
           Len(from) = y + 1, NEW b \in S, from[1] = b,
           \A i \in 1 .. y : from[i + 1] = p[i]
    PROVE  Precedes(b, p, from)
<1>0. y \in Nat
  BY LenProperties
<1>2. PICK blank : blank = <<b>>
  OBVIOUS
<1>3. blank \in Seq(S) /\ Len(blank) = 1 /\ blank[1] = b
  BY <1>2
<1>4. PICK both : both = blank \o p
  OBVIOUS
<1>5. /\ both \in Seq(S) /\ Len(both) = 1 + y
      /\ \A i \in 1 .. 1 + y : both[i] = IF i <= 1 THEN blank[i] ELSE p[i - 1]
  <2>1. PICK e : e = Len(blank)
    OBVIOUS
  <2>2. both \in Seq(S) /\ Len(both) = e + y
    BY <1>3, <1>4, <2>1, ConcatProperties
  <2>3. \A i \in 1 .. e + y : both[i] = IF i <= e THEN blank[i] ELSE p[i - e]
    <3>1. \A i \in 1 .. Len(blank) + Len(p) :
            (blank \o p)[i] = IF i <= Len(blank) THEN blank[i] ELSE p[i - Len(blank)]
      BY <1>3, ConcatProperties
    <3> QED BY <1>4, <2>1, <3>1
  <2> QED BY <1>3, <2>1, <2>2, <2>3
<1>6. \A i \in 1 .. 1 + y : both[i] = from[i]
  <2>1. \A i \in 1 .. 1 + y : i = 1 \/ (i - 1 \in 1 .. y /\ (i - 1) + 1 = i)
    BY <1>0
  <2> QED BY <1>3, <1>5, <2>1
<1>7. both = from
  BY <1>0, <1>5, <1>6, SeqEqual
<1> QED BY <1>2, <1>4, <1>7 DEF Precedes

\* The replacements of normalize_address in these terms.
LEMMA ReplacementsAre ==
    ASSUME NEW k \in 1 .. 5
    PROVE  /\ Replacements[k][1] = <<Blank>> \o Begins(k)
           /\ Replacements[k][2] = <<Blank>> \o InFull(k)
<1> DEFINE S == Lettered \cup {Blank}
<1>1. CASE k = 1
  <2>1. PICK p1 : p1 = <<"S", "t", Stop>>
    OBVIOUS
  <2>2. PICK s1 : s1 = <<Blank, "S", "t", Stop>>
    OBVIOUS
  <2>3. Begins(k) = p1 /\ Replacements[k][1] = s1
    BY <1>1, <2>1, <2>2 DEF Begins, Replacements, Street
  <2>4. p1 \in Seq(S) /\ Len(p1) = 3 /\ s1 \in Seq(S) /\ Len(s1) = 3 + 1
    BY <2>1, <2>2 DEF Lettered
  <2>5. s1[1] = Blank /\ s1[2] = p1[1] /\ s1[3] = p1[2] /\ s1[4] = p1[3]
    BY <2>1, <2>2
  <2>6. \A i \in 1 .. 3 : s1[i + 1] = p1[i]
    BY <2>5
  <2>7. s1 = <<Blank>> \o p1
    <3>1. PICK y : y = Len(p1)
      OBVIOUS
    <3>2. Len(s1) = y + 1 /\ \A i \in 1 .. y : s1[i + 1] = p1[i]
      BY <2>4, <2>6, <3>1
    <3>3. PICK b \in S : b = Blank /\ s1[1] = b
      BY <2>5
    <3>4. Precedes(b, p1, s1)
      BY <2>4, <3>1, <3>2, <3>3, OneBefore
    <3> QED BY <3>3, <3>4 DEF Precedes
  <2>8. PICK p2 : p2 = <<"S", "t", "r", "e", "e", "t">>
    OBVIOUS
  <2>9. PICK s2 : s2 = <<Blank, "S", "t", "r", "e", "e", "t">>
    OBVIOUS
  <2>10. InFull(k) = p2 /\ Replacements[k][2] = s2
    BY <1>1, <2>8, <2>9 DEF InFull, Replacements, Street
  <2>11. p2 \in Seq(S) /\ Len(p2) = 6 /\ s2 \in Seq(S) /\ Len(s2) = 6 + 1
    BY <2>8, <2>9 DEF Lettered
  <2>12. /\ s2[1] = Blank /\ s2[2] = p2[1] /\ s2[3] = p2[2] /\ s2[4] = p2[3]
         /\ s2[5] = p2[4] /\ s2[6] = p2[5] /\ s2[7] = p2[6]
    BY <2>8, <2>9
  <2>13. \A i \in 1 .. 6 : s2[i + 1] = p2[i]
    BY <2>12
  <2>14. s2 = <<Blank>> \o p2
    <3>1. PICK y : y = Len(p2)
      OBVIOUS
    <3>2. Len(s2) = y + 1 /\ \A i \in 1 .. y : s2[i + 1] = p2[i]
      BY <2>11, <2>13, <3>1
    <3>3. PICK b \in S : b = Blank /\ s2[1] = b
      BY <2>12
    <3>4. Precedes(b, p2, s2)
      BY <2>11, <3>1, <3>2, <3>3, OneBefore
    <3> QED BY <3>3, <3>4 DEF Precedes
  <2> QED BY <2>3, <2>7, <2>10, <2>14
<1>2. CASE k = 2
  <2>1. PICK p1 : p1 = <<"S", "t", Comma>>
    OBVIOUS
  <2>2. PICK s1 : s1 = <<Blank, "S", "t", Comma>>
    OBVIOUS
  <2>3. Begins(k) = p1 /\ Replacements[k][1] = s1
    BY <1>2, <2>1, <2>2 DEF Begins, Replacements, Street
  <2>4. p1 \in Seq(S) /\ Len(p1) = 3 /\ s1 \in Seq(S) /\ Len(s1) = 3 + 1
    BY <2>1, <2>2 DEF Lettered
  <2>5. s1[1] = Blank /\ s1[2] = p1[1] /\ s1[3] = p1[2] /\ s1[4] = p1[3]
    BY <2>1, <2>2
  <2>6. \A i \in 1 .. 3 : s1[i + 1] = p1[i]
    BY <2>5
  <2>7. s1 = <<Blank>> \o p1
    <3>1. PICK y : y = Len(p1)
      OBVIOUS
    <3>2. Len(s1) = y + 1 /\ \A i \in 1 .. y : s1[i + 1] = p1[i]
      BY <2>4, <2>6, <3>1
    <3>3. PICK b \in S : b = Blank /\ s1[1] = b
      BY <2>5
    <3>4. Precedes(b, p1, s1)
      BY <2>4, <3>1, <3>2, <3>3, OneBefore
    <3> QED BY <3>3, <3>4 DEF Precedes
  <2>8. PICK p2 : p2 = <<"S", "t", "r", "e", "e", "t", Comma>>
    OBVIOUS
  <2>9. PICK s2 : s2 = <<Blank, "S", "t", "r", "e", "e", "t", Comma>>
    OBVIOUS
  <2>10. InFull(k) = p2 /\ Replacements[k][2] = s2
    <3>1. InFull(k) = p2 /\ Replacements[k][2] = Append(Street, Comma)
      BY <1>2, <2>8 DEF InFull, Replacements
    <3>2. PICK front : front = Street
      OBVIOUS
    <3>3. /\ front \in Seq(S) /\ Len(front) = 7 /\ s2 \in Seq(S)
          /\ Len(s2) = 7 + 1
      BY <2>9, <3>2 DEF Lettered, Street
    <3>4. /\ s2[8] = Comma /\ s2[1] = front[1] /\ s2[2] = front[2]
          /\ s2[3] = front[3] /\ s2[4] = front[4] /\ s2[5] = front[5]
          /\ s2[6] = front[6] /\ s2[7] = front[7]
      BY <2>9, <3>2 DEF Street
    <3>y. PICK y : y = Len(front)
      OBVIOUS
    <3>5. PICK c \in S : c = Comma
      BY DEF Lettered
    <3>6. Len(s2) = y + 1 /\ s2[y + 1] = c /\ \A i \in 1 .. y : s2[i] = front[i]
      BY <3>3, <3>4, <3>y, <3>5
    <3>7. Follows(c, front, s2)
      BY <3>3, <3>y, <3>6, OneAfter
    <3> QED BY <3>1, <3>2, <3>5, <3>7 DEF Follows
  <2>11. p2 \in Seq(S) /\ Len(p2) = 7 /\ s2 \in Seq(S) /\ Len(s2) = 7 + 1
    BY <2>8, <2>9 DEF Lettered
  <2>12. /\ s2[1] = Blank /\ s2[2] = p2[1] /\ s2[3] = p2[2] /\ s2[4] = p2[3]
         /\ s2[5] = p2[4] /\ s2[6] = p2[5] /\ s2[7] = p2[6] /\ s2[8] = p2[7]
    BY <2>8, <2>9
  <2>13. \A i \in 1 .. 7 : s2[i + 1] = p2[i]
    BY <2>12
  <2>14. s2 = <<Blank>> \o p2
    <3>1. PICK y : y = Len(p2)
      OBVIOUS
    <3>2. Len(s2) = y + 1 /\ \A i \in 1 .. y : s2[i + 1] = p2[i]
      BY <2>11, <2>13, <3>1
    <3>3. PICK b \in S : b = Blank /\ s2[1] = b
      BY <2>12
    <3>4. Precedes(b, p2, s2)
      BY <2>11, <3>1, <3>2, <3>3, OneBefore
    <3> QED BY <3>3, <3>4 DEF Precedes
  <2> QED BY <2>3, <2>7, <2>10, <2>14
<1>3. CASE k = 3
  <2>1. PICK p1 : p1 = <<"R", "d", Stop>>
    OBVIOUS
  <2>2. PICK s1 : s1 = <<Blank, "R", "d", Stop>>
    OBVIOUS
  <2>3. Begins(k) = p1 /\ Replacements[k][1] = s1
    BY <1>3, <2>1, <2>2 DEF Begins, Replacements, Road
  <2>4. p1 \in Seq(S) /\ Len(p1) = 3 /\ s1 \in Seq(S) /\ Len(s1) = 3 + 1
    BY <2>1, <2>2 DEF Lettered
  <2>5. s1[1] = Blank /\ s1[2] = p1[1] /\ s1[3] = p1[2] /\ s1[4] = p1[3]
    BY <2>1, <2>2
  <2>6. \A i \in 1 .. 3 : s1[i + 1] = p1[i]
    BY <2>5
  <2>7. s1 = <<Blank>> \o p1
    <3>1. PICK y : y = Len(p1)
      OBVIOUS
    <3>2. Len(s1) = y + 1 /\ \A i \in 1 .. y : s1[i + 1] = p1[i]
      BY <2>4, <2>6, <3>1
    <3>3. PICK b \in S : b = Blank /\ s1[1] = b
      BY <2>5
    <3>4. Precedes(b, p1, s1)
      BY <2>4, <3>1, <3>2, <3>3, OneBefore
    <3> QED BY <3>3, <3>4 DEF Precedes
  <2>8. PICK p2 : p2 = <<"R", "o", "a", "d">>
    OBVIOUS
  <2>9. PICK s2 : s2 = <<Blank, "R", "o", "a", "d">>
    OBVIOUS
  <2>10. InFull(k) = p2 /\ Replacements[k][2] = s2
    BY <1>3, <2>8, <2>9 DEF InFull, Replacements, Road
  <2>11. p2 \in Seq(S) /\ Len(p2) = 4 /\ s2 \in Seq(S) /\ Len(s2) = 4 + 1
    BY <2>8, <2>9 DEF Lettered
  <2>12. /\ s2[1] = Blank /\ s2[2] = p2[1] /\ s2[3] = p2[2] /\ s2[4] = p2[3]
         /\ s2[5] = p2[4]
    BY <2>8, <2>9
  <2>13. \A i \in 1 .. 4 : s2[i + 1] = p2[i]
    BY <2>12
  <2>14. s2 = <<Blank>> \o p2
    <3>1. PICK y : y = Len(p2)
      OBVIOUS
    <3>2. Len(s2) = y + 1 /\ \A i \in 1 .. y : s2[i + 1] = p2[i]
      BY <2>11, <2>13, <3>1
    <3>3. PICK b \in S : b = Blank /\ s2[1] = b
      BY <2>12
    <3>4. Precedes(b, p2, s2)
      BY <2>11, <3>1, <3>2, <3>3, OneBefore
    <3> QED BY <3>3, <3>4 DEF Precedes
  <2> QED BY <2>3, <2>7, <2>10, <2>14
<1>4. CASE k = 4
  <2>1. PICK p1 : p1 = <<"R", "d", Comma>>
    OBVIOUS
  <2>2. PICK s1 : s1 = <<Blank, "R", "d", Comma>>
    OBVIOUS
  <2>3. Begins(k) = p1 /\ Replacements[k][1] = s1
    BY <1>4, <2>1, <2>2 DEF Begins, Replacements, Road
  <2>4. p1 \in Seq(S) /\ Len(p1) = 3 /\ s1 \in Seq(S) /\ Len(s1) = 3 + 1
    BY <2>1, <2>2 DEF Lettered
  <2>5. s1[1] = Blank /\ s1[2] = p1[1] /\ s1[3] = p1[2] /\ s1[4] = p1[3]
    BY <2>1, <2>2
  <2>6. \A i \in 1 .. 3 : s1[i + 1] = p1[i]
    BY <2>5
  <2>7. s1 = <<Blank>> \o p1
    <3>1. PICK y : y = Len(p1)
      OBVIOUS
    <3>2. Len(s1) = y + 1 /\ \A i \in 1 .. y : s1[i + 1] = p1[i]
      BY <2>4, <2>6, <3>1
    <3>3. PICK b \in S : b = Blank /\ s1[1] = b
      BY <2>5
    <3>4. Precedes(b, p1, s1)
      BY <2>4, <3>1, <3>2, <3>3, OneBefore
    <3> QED BY <3>3, <3>4 DEF Precedes
  <2>8. PICK p2 : p2 = <<"R", "o", "a", "d", Comma>>
    OBVIOUS
  <2>9. PICK s2 : s2 = <<Blank, "R", "o", "a", "d", Comma>>
    OBVIOUS
  <2>10. InFull(k) = p2 /\ Replacements[k][2] = s2
    <3>1. InFull(k) = p2 /\ Replacements[k][2] = Append(Road, Comma)
      BY <1>4, <2>8 DEF InFull, Replacements
    <3>2. PICK front : front = Road
      OBVIOUS
    <3>3. /\ front \in Seq(S) /\ Len(front) = 5 /\ s2 \in Seq(S)
          /\ Len(s2) = 5 + 1
      BY <2>9, <3>2 DEF Lettered, Road
    <3>4. /\ s2[6] = Comma /\ s2[1] = front[1] /\ s2[2] = front[2]
          /\ s2[3] = front[3] /\ s2[4] = front[4] /\ s2[5] = front[5]
      BY <2>9, <3>2 DEF Road
    <3>y. PICK y : y = Len(front)
      OBVIOUS
    <3>5. PICK c \in S : c = Comma
      BY DEF Lettered
    <3>6. Len(s2) = y + 1 /\ s2[y + 1] = c /\ \A i \in 1 .. y : s2[i] = front[i]
      BY <3>3, <3>4, <3>y, <3>5
    <3>7. Follows(c, front, s2)
      BY <3>3, <3>y, <3>6, OneAfter
    <3> QED BY <3>1, <3>2, <3>5, <3>7 DEF Follows
  <2>11. p2 \in Seq(S) /\ Len(p2) = 5 /\ s2 \in Seq(S) /\ Len(s2) = 5 + 1
    BY <2>8, <2>9 DEF Lettered
  <2>12. /\ s2[1] = Blank /\ s2[2] = p2[1] /\ s2[3] = p2[2] /\ s2[4] = p2[3]
         /\ s2[5] = p2[4] /\ s2[6] = p2[5]
    BY <2>8, <2>9
  <2>13. \A i \in 1 .. 5 : s2[i + 1] = p2[i]
    BY <2>12
  <2>14. s2 = <<Blank>> \o p2
    <3>1. PICK y : y = Len(p2)
      OBVIOUS
    <3>2. Len(s2) = y + 1 /\ \A i \in 1 .. y : s2[i + 1] = p2[i]
      BY <2>11, <2>13, <3>1
    <3>3. PICK b \in S : b = Blank /\ s2[1] = b
      BY <2>12
    <3>4. Precedes(b, p2, s2)
      BY <2>11, <3>1, <3>2, <3>3, OneBefore
    <3> QED BY <3>3, <3>4 DEF Precedes
  <2> QED BY <2>3, <2>7, <2>10, <2>14
<1>5. CASE k = 5
  <2>1. PICK p1 : p1 = <<"B", "l", "v", "d">>
    OBVIOUS
  <2>2. PICK s1 : s1 = <<Blank, "B", "l", "v", "d">>
    OBVIOUS
  <2>3. Begins(k) = p1 /\ Replacements[k][1] = s1
    BY <1>5, <2>1, <2>2 DEF Begins, Replacements, Boulevard
  <2>4. p1 \in Seq(S) /\ Len(p1) = 4 /\ s1 \in Seq(S) /\ Len(s1) = 4 + 1
    BY <2>1, <2>2 DEF Lettered
  <2>5. /\ s1[1] = Blank /\ s1[2] = p1[1] /\ s1[3] = p1[2] /\ s1[4] = p1[3]
        /\ s1[5] = p1[4]
    BY <2>1, <2>2
  <2>6. \A i \in 1 .. 4 : s1[i + 1] = p1[i]
    BY <2>5
  <2>7. s1 = <<Blank>> \o p1
    <3>1. PICK y : y = Len(p1)
      OBVIOUS
    <3>2. Len(s1) = y + 1 /\ \A i \in 1 .. y : s1[i + 1] = p1[i]
      BY <2>4, <2>6, <3>1
    <3>3. PICK b \in S : b = Blank /\ s1[1] = b
      BY <2>5
    <3>4. Precedes(b, p1, s1)
      BY <2>4, <3>1, <3>2, <3>3, OneBefore
    <3> QED BY <3>3, <3>4 DEF Precedes
  <2>8. PICK p2 : p2 = <<"B", "o", "u", "l", "e", "v", "a", "r", "d">>
    OBVIOUS
  <2>9. PICK s2 : s2 = <<Blank, "B", "o", "u", "l", "e", "v", "a", "r", "d">>
    OBVIOUS
  <2>10. InFull(k) = p2 /\ Replacements[k][2] = s2
    BY <1>5, <2>8, <2>9 DEF InFull, Replacements, Boulevard
  <2>11. p2 \in Seq(S) /\ Len(p2) = 9 /\ s2 \in Seq(S) /\ Len(s2) = 9 + 1
    BY <2>8, <2>9 DEF Lettered
  <2>12. /\ s2[1] = Blank /\ s2[2] = p2[1] /\ s2[3] = p2[2] /\ s2[4] = p2[3]
         /\ s2[5] = p2[4] /\ s2[6] = p2[5] /\ s2[7] = p2[6] /\ s2[8] = p2[7]
         /\ s2[9] = p2[8] /\ s2[10] = p2[9]
    BY <2>8, <2>9
  <2>13. \A i \in 1 .. 9 : s2[i + 1] = p2[i]
    BY <2>12
  <2>14. s2 = <<Blank>> \o p2
    <3>1. PICK y : y = Len(p2)
      OBVIOUS
    <3>2. Len(s2) = y + 1 /\ \A i \in 1 .. y : s2[i + 1] = p2[i]
      BY <2>11, <2>13, <3>1
    <3>3. PICK b \in S : b = Blank /\ s2[1] = b
      BY <2>12
    <3>4. Precedes(b, p2, s2)
      BY <2>11, <3>1, <3>2, <3>3, OneBefore
    <3> QED BY <3>3, <3>4 DEF Precedes
  <2> QED BY <2>3, <2>7, <2>10, <2>14
<1>6. k = 1 \/ k = 2 \/ k = 3 \/ k = 4 \/ k = 5
  OBVIOUS
<1> HIDE DEF S
<1> QED BY Zenon, <1>1, <1>2, <1>3, <1>4, <1>5, <1>6

\* They are texts, and what is replaced is not empty.
LEMMA ReplacementFacts ==
    ASSUME NEW k \in 1 .. 5
    PROVE  /\ Spelt(Replacements[k][1], Begins(k)) /\ Spelt(Replacements[k][2], InFull(k))
           /\ Replacements[k][1] \in Texts /\ Replacements[k][1] # <<>>
           /\ Replacements[k][2] \in Texts
<1>1. PICK blank \in Texts : blank = <<" ">>
  BY TextFacts
<1>2. IsBlank(blank) /\ blank = <<Blank>>
  BY <1>1, BlankIs DEF IsBlank, Blank
<1>3. PICK p \in Word, q \in Word : p = Begins(k) /\ q = InFull(k)
  BY RulesAreWords
<1>4. PICK from, to : from = blank \o p /\ to = blank \o q
  OBVIOUS
<1>5. Replacements[k][1] = from /\ Replacements[k][2] = to
  BY <1>2, <1>3, <1>4, ReplacementsAre
<1>6. Spelt(from, p) /\ Spelt(to, q)
  BY <1>1, <1>4 DEF Spelt
<1>7. to \in Texts
  BY <1>4, WordsAreTexts, ConcatTexts
<1>8. Short(from)
  BY <1>2, <1>4, ShortBlank
<1>9. from \in Texts /\ from # <<>>
  BY <1>8, ShortIs
<1> QED BY <1>3, <1>5, <1>6, <1>7, <1>9

\* The rule of the k-th replacement, on all words but the first.
RuleAt(k) == RuleOf(Begins(k), InFull(k))

\* Each is a function of words.
LEMMA RuleAtIs ==
    ASSUME NEW k \in 1 .. 5
    PROVE  /\ RuleAt(k) \in [Word -> Word]
           /\ \A w \in Word : RuleAt(k)[w] = Rule(w, Begins(k), InFull(k))
  BY RulesAreWords, RuleOfIs DEF RuleAt

\* The k-th call changes words, all but the first.
ReplacesOnce(k, words) ==
    ReplaceAllOf(Spaced(words), Replacements[k][1], Replacements[k][2])
      = Spaced(Mapped(words, RuleAt(k)))

\* It does.
LEMMA ReplaceOnce ==
    ASSUME NEW k \in 1 .. 5, NEW words \in Seq(Word)
    PROVE  ReplacesOnce(k, words)
<1>1. PICK p \in Word, q \in Word : p = Begins(k) /\ q = InFull(k)
  BY RulesAreWords
<1>2. PICK from, to : from = Replacements[k][1] /\ to = Replacements[k][2]
  OBVIOUS
<1>3. Spelt(from, p) /\ Spelt(to, q)
  BY <1>1, <1>2, ReplacementFacts
<1>4. ReplaceAllOf(Spaced(words), from, to) = Spaced(Mapped(words, RuleOf(p, q)))
  BY <1>3, ReplaceSpelt
<1> QED BY <1>1, <1>2, <1>4 DEF RuleAt, ReplacesOnce

\* What it returns is a text.
LEMMA ReplacedIsText ==
    ASSUME NEW k \in 1 .. 5, NEW text \in Texts
    PROVE  ReplaceAllOf(text, Replacements[k][1], Replacements[k][2]) \in Texts
<1>1. PICK from \in Texts, to \in Texts :
        from # <<>> /\ from = Replacements[k][1] /\ to = Replacements[k][2]
  BY ReplacementFacts
<1>2. PICK rest : IsReplacing(rest, text, from, to) /\ ReplaceAllOf(text, from, to) = rest[1]
  BY <1>1, ReplaceSteps
<1>3. 1 \in 1 .. Len(text) + Len(from)
  <2>1. Len(text) \in Nat /\ Len(from) \in Nat /\ Len(from) # 0
    BY <1>1, LenProperties, EmptySeq DEF Texts
  <2> QED BY <2>1
<1>4. rest[1] \in Texts
  BY <1>2, <1>3 DEF IsReplacing
<1> QED BY <1>1, <1>2, <1>4

\* The address after each call.
IsRewriting(st, text) ==
    /\ st[0] = TitleCopy(text)
    /\ \A k \in 1 .. 5 :
         st[k] = ReplaceAllOf(st[k - 1], Replacements[k][1], Replacements[k][2])

\* The fold of normalize_address, seen after each call.
LEMMA AddressSteps ==
    ASSUME NEW text \in Texts
    PROVE  \E st : IsRewriting(st, text) /\ NormalizeAddress(text) = st[5]
<1>1. PICK n \in Nat : n = 5 /\ DOMAIN Replacements = 1 .. n
  BY DEF Replacements
<1>2. PICK base \in Texts : base = TitleCopy(text)
  BY TitleWords, WordsAreTexts, SpacedIsText
<1> DEFINE Change(value, k) == ReplaceAllOf(value, Replacements[k][1], Replacements[k][2])
           turn == [k \in 1 .. n |-> [value \in Texts |-> Change(value, k)]]
           Fold(F) == [s \in SUBSET (DOMAIN Replacements) |->
                         IF s = {} THEN TitleCopy(text)
                         ELSE Change(F[s \ {Max(s)}], Max(s))]
           chosen == CHOOSE F : F = Fold(F)
           st == [k \in 0 .. n |-> chosen[1 .. k]]
<1>3. Steps(turn, n, Texts)
  <2>1. \A k \in 1 .. n : \A value \in Texts : Change(value, k) \in Texts
    BY <1>1, ReplacedIsText
  <2>2. \A k \in 1 .. n : \A value \in Texts : turn[k][value] \in Texts
    <3> HIDE DEF Change
    <3> QED BY <2>1
  <2> QED BY <2>2 DEF Steps
<1>4. \E F : F = Fold(F)
  <2>1. PICK F \in [SUBSET (1 .. n) -> Texts] : IsFold(F, n, base, turn)
    <3> HIDE DEF turn
    <3> QED BY <1>3, FoldExists
  <2> HIDE DEF Change
  <2>2. ASSUME NEW s \in SUBSET (1 .. n)
        PROVE  F[s] = IF s = {} THEN base
                      ELSE Change(F[s \ {Max(s)}], Max(s))
    <3>1. CASE s = {}
      BY <2>1, <3>1 DEF IsFold
    <3>2. CASE s # {}
      <4>1. Max(s) \in 1 .. n /\ s \ {Max(s)} \in SUBSET (1 .. n)
        BY <3>2, LargestOf
      <4>2. F[s] = turn[Max(s)][F[s \ {Max(s)}]]
        <5> HIDE DEF turn
        <5> QED BY <2>1, <3>2 DEF IsFold
      <4>3. F[s \ {Max(s)}] \in Texts
        BY <2>1, <4>1
      <4> QED BY <3>2, <4>1, <4>2, <4>3
    <3> QED BY <3>1, <3>2
  <2>3. F = Fold(F)
    BY <1>1, <1>2, <2>1, <2>2
  <2> QED BY <2>3
<1>5. chosen = Fold(chosen)
  <2> HIDE DEF Fold
  <2> QED BY <1>4
<1>6. NormalizeAddress(text) = chosen[DOMAIN Replacements]
  BY Zenon DEF NormalizeAddress, FoldLeft, MapThenFoldSet
<1> HIDE DEF Change
<1>7. \A s \in SUBSET (1 .. n) :
         chosen[s] = IF s = {} THEN base
                     ELSE Change(chosen[s \ {Max(s)}], Max(s))
  <2> HIDE DEF chosen
  <2> QED BY <1>1, <1>2, <1>5
<1> HIDE DEF chosen
<1>8. Iterates(st, n, Texts, base, turn)
  <2>1. ASSUME NEW s \in SUBSET (1 .. n), s # {}, chosen[s \ {Max(s)}] \in Texts
        PROVE  chosen[s] = turn[Max(s)][chosen[s \ {Max(s)}]]
    <3>1. Max(s) \in 1 .. n
      BY <2>1, LargestOf
    <3> QED BY <1>7, <2>1, <3>1
  <2>2. chosen[{}] = base
    <3>1. {} \in SUBSET (1 .. n)
      OBVIOUS
    <3> QED BY <1>7, <3>1
  <2> HIDE DEF turn
  <2>3. \A s \in SUBSET (1 .. n) : s # {} /\ chosen[s \ {Max(s)}] \in Texts
          => chosen[s] = turn[Max(s)][chosen[s \ {Max(s)}]]
    BY <2>1
  <2>4. n \in Nat /\ base \in Texts
    OBVIOUS
  <2>5. Iterates([k \in 0 .. n |-> chosen[1 .. k]], n, Texts, base, turn)
    BY <1>3, <2>2, <2>3, <2>4, FoldTurns
  <2> QED BY <2>5
<1>9. st[n] = chosen[DOMAIN Replacements]
  BY <1>1
<1> HIDE DEF st
<1>10. ASSUME NEW k \in 1 .. n
       PROVE  st[k] = Change(st[k - 1], k)
  <2>1. st[k] = turn[k][st[k - 1]] /\ st[k - 1] \in Texts
    <3>1. k - 1 \in 0 .. n
      OBVIOUS
    <3> HIDE DEF turn
    <3> QED BY <1>8, <3>1 DEF Iterates
  <2> QED BY <2>1
<1>11. IsRewriting(st, text)
  BY <1>1, <1>2, <1>8, <1>10 DEF IsRewriting, Iterates, Change
<1> QED BY <1>1, <1>6, <1>9, <1>11

\* All five rules in turn.
InTurn == [w \in Word |->
    RuleAt(5)[RuleAt(4)[RuleAt(3)[RuleAt(2)[RuleAt(1)[w]]]]]]

\* Done in turn, they are one function of words.
LEMMA InTurnIs ==
    /\ InTurn \in [Word -> Word]
    /\ \A words \in Seq(Word) :
         Mapped(Mapped(Mapped(Mapped(Mapped(words, RuleAt(1)), RuleAt(2)), RuleAt(3)),
                  RuleAt(4)), RuleAt(5)) = Mapped(words, InTurn)
<1>1. PICK a \in [Word -> Word], b \in [Word -> Word], c \in [Word -> Word],
           d \in [Word -> Word], e \in [Word -> Word] :
        /\ a = RuleAt(1) /\ b = RuleAt(2) /\ c = RuleAt(3) /\ d = RuleAt(4)
        /\ e = RuleAt(5)
  BY RuleAtIs
<1>2. PICK f \in [Word -> Word] : f = [w \in Word |-> b[a[w]]]
  OBVIOUS
<1>3. PICK g \in [Word -> Word] : g = [w \in Word |-> c[f[w]]]
  OBVIOUS
<1>4. PICK h \in [Word -> Word] : h = [w \in Word |-> d[g[w]]]
  OBVIOUS
<1>5. PICK i \in [Word -> Word] : i = [w \in Word |-> e[h[w]]]
  OBVIOUS
<1>6. i = InTurn
  <2>1. \A w \in Word : i[w] = e[d[c[b[a[w]]]]]
    BY <1>2, <1>3, <1>4, <1>5
  <2> QED BY <1>1, <2>1 DEF InTurn
<1>7. ASSUME NEW words \in Seq(Word)
      PROVE  Mapped(Mapped(Mapped(Mapped(Mapped(words, a), b), c), d), e) = Mapped(words, i)
  <2>1. Mapped(Mapped(words, a), b) = Mapped(words, f)
    BY <1>2, MappedTwice
  <2>2. Mapped(Mapped(words, f), c) = Mapped(words, g)
    BY <1>3, MappedTwice
  <2>3. Mapped(Mapped(words, g), d) = Mapped(words, h)
    BY <1>4, MappedTwice
  <2>4. Mapped(Mapped(words, h), e) = Mapped(words, i)
    BY <1>5, MappedTwice
  <2> QED BY <2>1, <2>2, <2>3, <2>4
<1> QED BY <1>1, <1>6, <1>7

\* normalize_address: the words of the address with that applied to all but the first.
LEMMA AddressWords ==
    ASSUME NEW text \in Texts
    PROVE  NormalizeAddress(text) = Spaced(Mapped(Words(text), InTurn))
<1>1. PICK words \in Seq(Word) : words = Words(text) /\ TitleCopy(text) = Spaced(words)
  BY TitleWords
<1>2. PICK st : IsRewriting(st, text) /\ NormalizeAddress(text) = st[5]
  BY AddressSteps
<1>3. /\ st[0] = Spaced(words)
      /\ st[1] = ReplaceAllOf(st[0], Replacements[1][1], Replacements[1][2])
      /\ st[2] = ReplaceAllOf(st[1], Replacements[2][1], Replacements[2][2])
      /\ st[3] = ReplaceAllOf(st[2], Replacements[3][1], Replacements[3][2])
      /\ st[4] = ReplaceAllOf(st[3], Replacements[4][1], Replacements[4][2])
      /\ st[5] = ReplaceAllOf(st[4], Replacements[5][1], Replacements[5][2])
  BY <1>1, <1>2 DEF IsRewriting
<1>4. ASSUME NEW k \in 1 .. 5, NEW ws \in Seq(Word), NEW v, v = Spaced(ws)
      PROVE  /\ ReplaceAllOf(v, Replacements[k][1], Replacements[k][2])
                  = Spaced(Mapped(ws, RuleAt(k)))
             /\ Mapped(ws, RuleAt(k)) \in Seq(Word)
  <2>1. PICK f \in [Word -> Word] : f = RuleAt(k)
    BY RuleAtIs
  <2>2. PICK n : n = Len(ws)
    OBVIOUS
  <2>3. Mapped(ws, f) \in Seq(Word)
    BY <2>2, MappedIs
  <2>4. ReplaceAllOf(Spaced(ws), Replacements[k][1], Replacements[k][2])
                  = Spaced(Mapped(ws, RuleAt(k)))
    <3>1. ReplacesOnce(k, ws)
      BY ReplaceOnce
    <3> QED BY <3>1 DEF ReplacesOnce
  <2> QED BY <1>4, <2>1, <2>3, <2>4
<1>5. PICK a \in Seq(Word) : a = Mapped(words, RuleAt(1)) /\ st[1] = Spaced(a)
  BY <1>3, <1>4
<1>6. PICK b \in Seq(Word) : b = Mapped(a, RuleAt(2)) /\ st[2] = Spaced(b)
  BY <1>3, <1>4, <1>5
<1>7. PICK c \in Seq(Word) : c = Mapped(b, RuleAt(3)) /\ st[3] = Spaced(c)
  BY <1>3, <1>4, <1>6
<1>8. PICK d \in Seq(Word) : d = Mapped(c, RuleAt(4)) /\ st[4] = Spaced(d)
  BY <1>3, <1>4, <1>7
<1>9. PICK e \in Seq(Word) : e = Mapped(d, RuleAt(5)) /\ st[5] = Spaced(e)
  BY <1>3, <1>4, <1>8
<1>10. e = Mapped(words, InTurn)
  BY <1>5, <1>6, <1>7, <1>8, <1>9, InTurnIs
<1> QED BY <1>1, <1>2, <1>9, <1>10

\* No letter is a mark, and the marks differ.
LEMMA MarksAreNone ==
    /\ Stop # Comma
    /\ \A c \in {"S", "R", "B", "t", "r", "e", "o", "a", "d", "u", "l", "v"} :
         c # Stop /\ c # Comma
<1>1. Stop # Comma
  BY Zenon DEF Stop, Comma
<1>2. Stop \notin Letters /\ Comma \notin Letters
  BY MarksAssumption
<1>3. /\ Capital[19] = "S" /\ Capital[18] = "R" /\ Capital[2] = "B"
      /\ Small[20] = "t" /\ Small[18] = "r" /\ Small[5] = "e" /\ Small[15] = "o"
      /\ Small[1] = "a" /\ Small[4] = "d" /\ Small[21] = "u" /\ Small[12] = "l"
      /\ Small[22] = "v"
  BY DEF Small, Capital
<1>4. \A i \in 1 .. 26 : Small[i] \in Letters /\ Capital[i] \in Letters
  BY LetterFacts
<1>5. \A c \in {"S", "R", "B", "t", "r", "e", "o", "a", "d", "u", "l", "v"} :
        \E i \in 1 .. 26 : c = Small[i] \/ c = Capital[i]
  BY <1>3
<1>6. \A c \in {"S", "R", "B", "t", "r", "e", "o", "a", "d", "u", "l", "v"} : c \in Letters
  BY <1>4, <1>5
<1> QED BY <1>1, <1>2, <1>6

\* The beginnings, character by character.
BeginsWith(w, n, k) ==
    CASE k = 1 -> 3 <= n /\ w[1] = "S" /\ w[2] = "t" /\ w[3] = Stop
      [] k = 2 -> 3 <= n /\ w[1] = "S" /\ w[2] = "t" /\ w[3] = Comma
      [] k = 3 -> 3 <= n /\ w[1] = "R" /\ w[2] = "d" /\ w[3] = Stop
      [] k = 4 -> 3 <= n /\ w[1] = "R" /\ w[2] = "d" /\ w[3] = Comma
      [] k = 5 -> 4 <= n /\ w[1] = "B" /\ w[2] = "l" /\ w[3] = "v" /\ w[4] = "d"

\* The characters that tell them apart.
LEMMA BeginLetters ==
    ASSUME NEW w, NEW n, NEW k \in 1 .. 5, BeginsWith(w, n, k)
    PROVE  /\ k \in {1, 2} => w[1] = "S" /\ w[2] = "t"
           /\ k \in {3, 4} => w[1] = "R" /\ w[2] = "d"
           /\ k = 5 => w[1] = "B" /\ w[2] = "l"
           /\ k \in {1, 3} => w[3] = Stop
           /\ k \in {2, 4} => w[3] = Comma
<1>1. CASE k = 1
  BY <1>1 DEF BeginsWith
<1>2. CASE k = 2
  BY <1>2 DEF BeginsWith
<1>3. CASE k = 3
  BY <1>3 DEF BeginsWith
<1>4. CASE k = 4
  BY <1>4 DEF BeginsWith
<1>5. CASE k = 5
  BY <1>5 DEF BeginsWith
<1> QED BY <1>1, <1>2, <1>3, <1>4, <1>5

\* A word begins so if its characters do.
LEMMA BeginsAre ==
    ASSUME NEW w \in Word, NEW n, n = Len(w), NEW k \in 1 .. 5
    PROVE  IsPrefix(Begins(k), w) <=> BeginsWith(w, n, k)
<1>0. w \in Texts /\ Begins(k) \in Texts
  BY RulesAreWords, WordsAreTexts
<1>1. PICK p \in Texts : p = Begins(k)
  BY <1>0
<1>2. PICK y : y = Len(p)
  OBVIOUS
<1>3. IsPrefix(p, w) <=> y <= n /\ \A i \in 1 .. y : p[i] = w[i]
  BY <1>0, <1>2, PrefixIs
<1>e1. CASE k = 1
  <2>1. p = <<"S", "t", Stop>>
    BY <1>1, <1>e1 DEF Begins
  <2>2. y = 3 /\ p[1] = "S" /\ p[2] = "t" /\ p[3] = Stop
    BY <1>2, <2>1
  <2>3. (\A i \in 1 .. 3 : p[i] = w[i]) <=> w[1] = "S" /\ w[2] = "t" /\ w[3] = Stop
    <3>1. \A i \in 1 .. 3 : i = 1 \/ i = 2 \/ i = 3
      OBVIOUS
    <3> QED BY <2>2, <3>1
  <2> QED BY <1>1, <1>3, <1>e1, <2>2, <2>3 DEF BeginsWith
<1>e2. CASE k = 2
  <2>1. p = <<"S", "t", Comma>>
    BY <1>1, <1>e2 DEF Begins
  <2>2. y = 3 /\ p[1] = "S" /\ p[2] = "t" /\ p[3] = Comma
    BY <1>2, <2>1
  <2>3. (\A i \in 1 .. 3 : p[i] = w[i]) <=> w[1] = "S" /\ w[2] = "t" /\ w[3] = Comma
    <3>1. \A i \in 1 .. 3 : i = 1 \/ i = 2 \/ i = 3
      OBVIOUS
    <3> QED BY <2>2, <3>1
  <2> QED BY <1>1, <1>3, <1>e2, <2>2, <2>3 DEF BeginsWith
<1>e3. CASE k = 3
  <2>1. p = <<"R", "d", Stop>>
    BY <1>1, <1>e3 DEF Begins
  <2>2. y = 3 /\ p[1] = "R" /\ p[2] = "d" /\ p[3] = Stop
    BY <1>2, <2>1
  <2>3. (\A i \in 1 .. 3 : p[i] = w[i]) <=> w[1] = "R" /\ w[2] = "d" /\ w[3] = Stop
    <3>1. \A i \in 1 .. 3 : i = 1 \/ i = 2 \/ i = 3
      OBVIOUS
    <3> QED BY <2>2, <3>1
  <2> QED BY <1>1, <1>3, <1>e3, <2>2, <2>3 DEF BeginsWith
<1>e4. CASE k = 4
  <2>1. p = <<"R", "d", Comma>>
    BY <1>1, <1>e4 DEF Begins
  <2>2. y = 3 /\ p[1] = "R" /\ p[2] = "d" /\ p[3] = Comma
    BY <1>2, <2>1
  <2>3. (\A i \in 1 .. 3 : p[i] = w[i]) <=> w[1] = "R" /\ w[2] = "d" /\ w[3] = Comma
    <3>1. \A i \in 1 .. 3 : i = 1 \/ i = 2 \/ i = 3
      OBVIOUS
    <3> QED BY <2>2, <3>1
  <2> QED BY <1>1, <1>3, <1>e4, <2>2, <2>3 DEF BeginsWith
<1>e5. CASE k = 5
  <2>1. p = <<"B", "l", "v", "d">>
    BY <1>1, <1>e5 DEF Begins
  <2>2. y = 4 /\ p[1] = "B" /\ p[2] = "l" /\ p[3] = "v" /\ p[4] = "d"
    BY <1>2, <2>1
  <2>3. (\A i \in 1 .. 4 : p[i] = w[i]) <=> w[1] = "B" /\ w[2] = "l" /\ w[3] = "v" /\ w[4] = "d"
    <3>1. \A i \in 1 .. 4 : i = 1 \/ i = 2 \/ i = 3 \/ i = 4
      OBVIOUS
    <3> QED BY <2>2, <3>1
  <2> QED BY <1>1, <1>3, <1>e5, <2>2, <2>3 DEF BeginsWith
<1> QED BY <1>e1, <1>e2, <1>e3, <1>e4, <1>e5

\* What stands for the beginning starts as no beginning does.
LEMMA InFullAre ==
    ASSUME NEW k \in 1 .. 5, NEW q, q = InFull(k), NEW a, a = Len(q)
    PROVE  /\ a \in Nat /\ a >= 4
           /\ k \in {1, 2} => q[1] = "S" /\ q[2] = "t" /\ q[3] = "r"
           /\ k \in {3, 4} => q[1] = "R" /\ q[2] = "o" /\ q[3] = "a"
           /\ k = 5 => q[1] = "B" /\ q[2] = "o" /\ q[3] = "u"
           /\ ToUpper(q[1]) = q[1]
           /\ \A i \in 2 .. a : ToLower(q[i]) = q[i]
<1> DEFINE low == {"t", "r", "e", "o", "a", "d", "u", "l", "v", Comma}
<1>0. /\ ToUpper("S") = "S" /\ ToUpper("R") = "R" /\ ToUpper("B") = "B"
      /\ \A c \in low : ToLower(c) = c
  BY Lettering
<1>f1. CASE k = 1
  <2>1. q = <<"S", "t", "r", "e", "e", "t">>
    BY <1>f1 DEF InFull
  <2>2. /\ Len(q) = 6 /\ q[1] = "S" /\ q[2] = "t" /\ q[3] = "r" /\ q[4] = "e"
        /\ q[5] = "e" /\ q[6] = "t"
    BY <2>1
  <2>3. \A i \in 2 .. a : ToLower(q[i]) = q[i]
    <3>1. \A i \in 2 .. 6 : i = 2 \/ i = 3 \/ i = 4 \/ i = 5 \/ i = 6
      OBVIOUS
    <3>2. \A i \in 2 .. 6 : q[i] \in low
      BY <2>2, <3>1
    <3> QED BY <1>0, <2>2, <3>2
  <2> QED BY <1>0, <1>f1, <2>2, <2>3
<1>f2. CASE k = 2
  <2>1. q = <<"S", "t", "r", "e", "e", "t", Comma>>
    BY <1>f2 DEF InFull
  <2>2. /\ Len(q) = 7 /\ q[1] = "S" /\ q[2] = "t" /\ q[3] = "r" /\ q[4] = "e"
        /\ q[5] = "e" /\ q[6] = "t" /\ q[7] = Comma
    BY <2>1
  <2>3. \A i \in 2 .. a : ToLower(q[i]) = q[i]
    <3>1. \A i \in 2 .. 7 : i = 2 \/ i = 3 \/ i = 4 \/ i = 5 \/ i = 6 \/ i = 7
      OBVIOUS
    <3>2. \A i \in 2 .. 7 : q[i] \in low
      BY <2>2, <3>1
    <3> QED BY <1>0, <2>2, <3>2
  <2> QED BY <1>0, <1>f2, <2>2, <2>3
<1>f3. CASE k = 3
  <2>1. q = <<"R", "o", "a", "d">>
    BY <1>f3 DEF InFull
  <2>2. Len(q) = 4 /\ q[1] = "R" /\ q[2] = "o" /\ q[3] = "a" /\ q[4] = "d"
    BY <2>1
  <2>3. \A i \in 2 .. a : ToLower(q[i]) = q[i]
    <3>1. \A i \in 2 .. 4 : i = 2 \/ i = 3 \/ i = 4
      OBVIOUS
    <3>2. \A i \in 2 .. 4 : q[i] \in low
      BY <2>2, <3>1
    <3> QED BY <1>0, <2>2, <3>2
  <2> QED BY <1>0, <1>f3, <2>2, <2>3
<1>f4. CASE k = 4
  <2>1. q = <<"R", "o", "a", "d", Comma>>
    BY <1>f4 DEF InFull
  <2>2. /\ Len(q) = 5 /\ q[1] = "R" /\ q[2] = "o" /\ q[3] = "a" /\ q[4] = "d"
        /\ q[5] = Comma
    BY <2>1
  <2>3. \A i \in 2 .. a : ToLower(q[i]) = q[i]
    <3>1. \A i \in 2 .. 5 : i = 2 \/ i = 3 \/ i = 4 \/ i = 5
      OBVIOUS
    <3>2. \A i \in 2 .. 5 : q[i] \in low
      BY <2>2, <3>1
    <3> QED BY <1>0, <2>2, <3>2
  <2> QED BY <1>0, <1>f4, <2>2, <2>3
<1>f5. CASE k = 5
  <2>1. q = <<"B", "o", "u", "l", "e", "v", "a", "r", "d">>
    BY <1>f5 DEF InFull
  <2>2. /\ Len(q) = 9 /\ q[1] = "B" /\ q[2] = "o" /\ q[3] = "u" /\ q[4] = "l"
        /\ q[5] = "e" /\ q[6] = "v" /\ q[7] = "a" /\ q[8] = "r" /\ q[9] = "d"
    BY <2>1
  <2>3. \A i \in 2 .. a : ToLower(q[i]) = q[i]
    <3>1. \A i \in 2 .. 9 : i = 2 \/ i = 3 \/ i = 4 \/ i = 5 \/ i = 6 \/ i = 7 \/ i = 8 \/ i = 9
      OBVIOUS
    <3>2. \A i \in 2 .. 9 : q[i] \in low
      BY <2>2, <3>1
    <3> QED BY <1>0, <2>2, <3>2
  <2> QED BY <1>0, <1>f5, <2>2, <2>3
<1> QED BY <1>f1, <1>f2, <1>f3, <1>f4, <1>f5

\* How long they are.
LEMMA BeginsLong ==
    ASSUME NEW k \in 1 .. 5
    PROVE  Len(Begins(k)) = IF k = 5 THEN 4 ELSE 3
<1>1. CASE k = 1
  BY <1>1 DEF Begins
<1>2. CASE k = 2
  BY <1>2 DEF Begins
<1>3. CASE k = 3
  BY <1>3 DEF Begins
<1>4. CASE k = 4
  BY <1>4 DEF Begins
<1>5. CASE k = 5
  BY <1>5 DEF Begins
<1> QED BY <1>1, <1>2, <1>3, <1>4, <1>5

\* A word whose first y characters are replaced.
Makes(v, q, a, w, n, y) ==
    /\ v \in Word /\ a \in Nat /\ n \in Nat /\ y \in Nat /\ y <= n
    /\ Len(v) = a + (n - y)
    /\ \A i \in 1 .. a : v[i] = q[i]
    /\ \A i \in 1 .. n - y : v[a + i] = w[y + i]

\* What the k-th rule makes of a word that begins so.
LEMMA RuleMakes ==
    ASSUME NEW k \in 1 .. 5, NEW w \in Word, IsPrefix(Begins(k), w),
           NEW v, v = Rule(w, Begins(k), InFull(k)), NEW q, q = InFull(k),
           NEW y, y = Len(Begins(k)), NEW a, a = Len(q), NEW n, n = Len(w)
    PROVE  Makes(v, q, a, w, n, y)
<1>1. PICK p \in Texts : p = Begins(k) /\ p \in Word
  BY RulesAreWords, WordsAreTexts
<1>2. q \in Texts /\ q \in Word /\ w \in Texts
  BY RulesAreWords, WordsAreTexts
<1>3. a \in Nat /\ n \in Nat /\ y \in Nat
  BY <1>1, <1>2, LenProperties DEF Texts
<1>4. y = Len(p) /\ IsPrefix(p, w)
  BY <1>1
<1>5. y <= n
  BY <1>2, <1>4, PrefixIs
<1>6. PICK g \in 1 .. n + 1 : g = y + 1
  BY <1>3, <1>5
<1>7. PICK part : part = SubSeq(w, g, n)
  OBVIOUS
<1>8. part \in Texts /\ Len(part) = n + 1 - g
  BY <1>2, <1>7, FromPlace
<1>9. \A i \in 1 .. n + 1 - g : part[i] = w[g + i - 1]
  BY <1>2, <1>7, FromPlace
<1>10. v = q \o part
  BY <1>1, <1>4, <1>6, <1>7 DEF Rule
<1>11. PICK c : c = Len(part)
  OBVIOUS
<1>12. v \in Texts /\ Len(v) = a + c
  <2>1. PICK both : both = q \o part
    OBVIOUS
  <2>2. both \in Texts /\ Len(both) = a + c
    BY <1>2, <1>8, <1>11, <2>1, ConcatTexts
  <2> QED BY <1>10, <2>1, <2>2
<1>13. \A i \in 1 .. a + c : v[i] = IF i <= a THEN q[i] ELSE part[i - a]
  BY <1>2, <1>8, <1>10, <1>11, ConcatIs
<1>14. c = n - y
  BY <1>3, <1>5, <1>6, <1>8, <1>11
<1>15. \A i \in 1 .. a : v[i] = q[i]
  BY <1>3, <1>5, <1>13, <1>14
<1>16. ASSUME NEW i \in 1 .. n - y
       PROVE  v[a + i] = w[y + i]
  <2>1. a + i \in 1 .. a + c /\ ~(a + i <= a) /\ (a + i) - a = i
    BY <1>3, <1>5, <1>14
  <2>2. part[i] = w[g + i - 1] /\ g + i - 1 = y + i
    BY <1>3, <1>6, <1>9
  <2> QED BY <1>13, <2>1, <2>2
<1>17. v \in Word
  BY <1>1, <1>2, RuleIs
<1> QED BY <1>3, <1>5, <1>6, <1>7, <1>10, <1>12, <1>14, <1>15, <1>16, <1>17 DEF Makes

\* A word has one beginning at most, and none when a rule was applied.
LEMMA OneBeginning ==
    ASSUME NEW k \in 1 .. 5, NEW w \in Word, IsPrefix(Begins(k), w)
    PROVE  /\ \A j \in 1 .. 5 : j # k => ~IsPrefix(Begins(j), w)
           /\ \A j \in 1 .. 5 : ~IsPrefix(Begins(j), Rule(w, Begins(k), InFull(k)))
<1>1. PICK n : n = Len(w)
  OBVIOUS
<1>2. \A j \in 1 .. 5 : IsPrefix(Begins(j), w) <=> BeginsWith(w, n, j)
  BY <1>1, BeginsAre
<1>3. \A j \in 1 .. 5 : j # k => ~BeginsWith(w, n, j)
  <2>1. BeginsWith(w, n, k)
    BY <1>2
  <2>2. k = 1 \/ k = 2 \/ k = 3 \/ k = 4 \/ k = 5
    OBVIOUS
  <2>3. ASSUME NEW j \in 1 .. 5, BeginsWith(w, n, j)
        PROVE  j = k
    <3>1. j = 1 \/ j = 2 \/ j = 3 \/ j = 4 \/ j = 5
      OBVIOUS
    <3>2. Stop # Comma
      BY MarksAreNone
    <3> QED BY <2>1, <2>2, <2>3, <3>1, <3>2, BeginLetters
  <2> QED BY <2>3
<1>4. PICK v, q, a, y : /\ v = Rule(w, Begins(k), InFull(k)) /\ q = InFull(k)
                        /\ a = Len(q) /\ y = Len(Begins(k))
  OBVIOUS
<1>5. v \in Word /\ \A i \in 1 .. a : v[i] = q[i]
  <2>1. Makes(v, q, a, w, n, y)
    BY <1>1, <1>4, RuleMakes
  <2> QED BY <2>1 DEF Makes
<1>6. /\ a \in Nat /\ a >= 4
      /\ k \in {1, 2} => q[1] = "S" /\ q[2] = "t" /\ q[3] = "r"
      /\ k \in {3, 4} => q[1] = "R" /\ q[2] = "o" /\ q[3] = "a"
      /\ k = 5 => q[1] = "B" /\ q[2] = "o" /\ q[3] = "u"
  BY <1>4, InFullAre
<1>7. v[1] = q[1] /\ v[2] = q[2] /\ v[3] = q[3]
  BY <1>5, <1>6
<1>8. PICK m : m = Len(v)
  OBVIOUS
<1>9. \A j \in 1 .. 5 : IsPrefix(Begins(j), v) <=> BeginsWith(v, m, j)
  BY <1>5, <1>8, BeginsAre
<1>10. \A j \in 1 .. 5 : ~BeginsWith(v, m, j)
  <2>1. k \in {1, 2} \/ k \in {3, 4} \/ k = 5
    OBVIOUS
  <2>2. "r" # Stop /\ "r" # Comma
    BY MarksAreNone
  <2>3. ASSUME NEW j \in 1 .. 5, BeginsWith(v, m, j)
        PROVE  FALSE
    <3>1. j \in {1, 2} \/ j \in {3, 4} \/ j = 5
      OBVIOUS
    <3> QED BY <1>6, <1>7, <2>1, <2>2, <2>3, <3>1, BeginLetters
  <2> QED BY <2>3
<1> QED BY <1>2, <1>3, <1>4, <1>9, <1>10

\* A word is changed by the rule of its beginning, if there is one.
LEMMA InTurnOf ==
    ASSUME NEW w \in Word
    PROVE  /\ \A k \in 1 .. 5 : IsPrefix(Begins(k), w) =>
                InTurn[w] = Rule(w, Begins(k), InFull(k))
           /\ (\A k \in 1 .. 5 : ~IsPrefix(Begins(k), w)) => InTurn[w] = w
           /\ \A k \in 1 .. 5 : ~IsPrefix(Begins(k), InTurn[w])
<1>1. ASSUME NEW v \in Word, NEW k \in 1 .. 5, ~IsPrefix(Begins(k), v)
      PROVE  RuleAt(k)[v] = v
  BY <1>1, RuleAtIs DEF Rule
<1>2. InTurn[w] = RuleAt(5)[RuleAt(4)[RuleAt(3)[RuleAt(2)[RuleAt(1)[w]]]]]
  BY DEF InTurn
<1>3. ASSUME \A k \in 1 .. 5 : ~IsPrefix(Begins(k), w)
      PROVE  InTurn[w] = w
  BY <1>1, <1>2, <1>3
<1>4. ASSUME NEW k \in 1 .. 5, IsPrefix(Begins(k), w)
      PROVE  /\ InTurn[w] = Rule(w, Begins(k), InFull(k))
             /\ \A j \in 1 .. 5 : ~IsPrefix(Begins(j), InTurn[w])
  <2>1. PICK v \in Word : v = Rule(w, Begins(k), InFull(k))
    BY RulesAreWords, RuleIs
  <2>2. RuleAt(k)[w] = v
    BY <2>1, RuleAtIs
  <2>3. /\ \A j \in 1 .. 5 : j # k => RuleAt(j)[w] = w
        /\ \A j \in 1 .. 5 : RuleAt(j)[v] = v /\ ~IsPrefix(Begins(j), v)
    BY <1>1, <1>4, <2>1, OneBeginning
  <2>4. k = 1 \/ k = 2 \/ k = 3 \/ k = 4 \/ k = 5
    OBVIOUS
  <2>5. InTurn[w] = v
    BY <1>2, <2>2, <2>3, <2>4
  <2> QED BY <2>1, <2>3, <2>5
<1> QED BY <1>3, <1>4

-----------------------------------------------------------------------------
\* Once the beginnings are written out, nothing is left to write out.
LEMMA InTurnAgain ==
    ASSUME NEW w \in Word
    PROVE  InTurn[w] \in Word /\ InTurn[InTurn[w]] = InTurn[w]
<1>1. PICK v \in Word : v = InTurn[w]
  BY InTurnIs
<1>2. \A k \in 1 .. 5 : ~IsPrefix(Begins(k), v)
  BY <1>1, InTurnOf
<1>3. InTurn[v] = v
  BY <1>2, InTurnOf
<1> QED BY <1>1, <1>3

\* A capitalised word stays one.
LEMMA InTurnCapitalised ==
    ASSUME NEW w \in Word, Capitalised(w) = w
    PROVE  Capitalised(InTurn[w]) = InTurn[w]
<1>1. CASE \A k \in 1 .. 5 : ~IsPrefix(Begins(k), w)
  BY <1>1, InTurnOf
<1>2. ASSUME NEW k \in 1 .. 5, IsPrefix(Begins(k), w)
      PROVE  Capitalised(InTurn[w]) = InTurn[w]
  <2>1. PICK v, q, a, y, n :
          /\ v = Rule(w, Begins(k), InFull(k)) /\ q = InFull(k)
          /\ a = Len(q) /\ y = Len(Begins(k)) /\ n = Len(w)
    OBVIOUS
  <2>2. /\ v \in Word /\ a \in Nat /\ n \in Nat /\ y \in Nat /\ y <= n
        /\ Len(v) = a + (n - y)
        /\ \A i \in 1 .. a : v[i] = q[i]
        /\ \A i \in 1 .. n - y : v[a + i] = w[y + i]
    <3>1. Makes(v, q, a, w, n, y)
      BY <1>2, <2>1, RuleMakes
    <3> QED BY <3>1 DEF Makes
  <2>3. /\ a >= 4 /\ ToUpper(q[1]) = q[1]
        /\ \A i \in 2 .. a : ToLower(q[i]) = q[i]
    BY <2>1, InFullAre
  <2>4. y > 0
    BY <2>1, BeginsLong
  <2>5. \A i \in 2 .. n : ToLower(w[i]) = w[i]
    <3>1. \A i \in 1 .. n :
            Capitalised(w)[i] = IF i = 1 THEN ToUpper(w[i]) ELSE ToLower(w[i])
      BY <2>1, CapitalisedIs
    <3> QED BY <3>1
  <2>6. PICK m : m = Len(v)
    OBVIOUS
  <2>7. PICK u : u = Capitalised(v)
    OBVIOUS
  <2>8. u \in Word /\ Len(u) = m
    BY <2>2, <2>6, <2>7, CapitalisedIs
  <2>9. \A i \in 1 .. m : u[i] = IF i = 1 THEN ToUpper(v[i]) ELSE ToLower(v[i])
    BY <2>2, <2>6, <2>7, CapitalisedIs
  <2>10. ASSUME NEW i \in 1 .. m
         PROVE  u[i] = v[i]
    <3>1. CASE i \in 1 .. a
      <4>1. v[i] = q[i] /\ (i = 1 \/ i \in 2 .. a)
        BY <2>2, <3>1
      <4> QED BY <2>3, <2>9, <4>1
    <3>2. CASE i \notin 1 .. a
      <4>1. PICK j \in 1 .. n - y : i = a + j /\ y + j \in 2 .. n /\ i # 1
        <5>1. /\ i - a \in 1 .. n - y /\ i = a + (i - a)
              /\ y + (i - a) \in 2 .. n /\ i # 1
          BY <2>2, <2>3, <2>4, <2>6, <3>2
        <5> QED BY <5>1
      <4> QED BY <2>2, <2>5, <2>9, <4>1
    <3> QED BY <3>1, <3>2
  <2>11. u = v
    BY <2>2, <2>6, <2>8, <2>10, WordsAreTexts, SeqEqual DEF Texts
  <2>12. InTurn[w] = v
    BY <1>2, <2>1, InTurnOf
  <2> QED BY <2>7, <2>11, <2>12
<1> QED BY <1>1, <1>2

\* A sequence without its first element.
IsTail(t, s) == t = Tail(s)

\* It is longer by one, with the same end.
LEMMA TailIs ==
    ASSUME NEW S, NEW s \in Seq(S), NEW t \in Seq(S), NEW y, y = Len(t),
           Len(s) = y + 1, \A i \in 1 .. y : s[i + 1] = t[i]
    PROVE  IsTail(t, s)
<1>1. y \in Nat /\ s # <<>>
  BY LenProperties, EmptySeq
<1>2. PICK u : u = Tail(s)
  OBVIOUS
<1>3. u \in Seq(S) /\ Len(u) = Len(s) - 1 /\ \A i \in 1 .. Len(u) : u[i] = s[i + 1]
  BY <1>1, <1>2, HeadTailProperties
<1>4. Len(u) = y /\ \A i \in 1 .. y : u[i] = t[i]
  BY <1>1, <1>3
<1>5. u = t
  BY <1>3, <1>4, SeqEqual
<1> QED BY <1>2, <1>5 DEF IsTail

\* The replacements without their space.
LEMMA TailsAre ==
    /\ Tail(Street) = InFull(1) /\ Tail(Road) = InFull(3)
    /\ Tail(Boulevard) = InFull(5)
    /\ InFull(2) = Append(InFull(1), Comma) /\ InFull(4) = Append(InFull(3), Comma)
<1> DEFINE S == Lettered \cup {Blank}
<1>1. Tail(Street) = InFull(1)
  <2>1. PICK s, t : s = Street /\ t = InFull(1)
    OBVIOUS
  <2>2. s \in Seq(S) /\ Len(s) = 6 + 1 /\ t \in Seq(S) /\ Len(t) = 6
    BY <2>1 DEF InFull, Lettered, Street
  <2>3. /\ s[2] = t[1] /\ s[3] = t[2] /\ s[4] = t[3] /\ s[5] = t[4]
        /\ s[6] = t[5] /\ s[7] = t[6]
    BY <2>1 DEF InFull, Street
  <2>4. PICK y : y = Len(t)
    OBVIOUS
  <2>5. Len(s) = y + 1 /\ \A i \in 1 .. y : s[i + 1] = t[i]
    BY <2>2, <2>3, <2>4
  <2>6. IsTail(t, s)
    BY <2>2, <2>4, <2>5, TailIs
  <2> QED BY <2>1, <2>6 DEF IsTail
<1>2. Tail(Road) = InFull(3)
  <2>1. PICK s, t : s = Road /\ t = InFull(3)
    OBVIOUS
  <2>2. s \in Seq(S) /\ Len(s) = 4 + 1 /\ t \in Seq(S) /\ Len(t) = 4
    BY <2>1 DEF InFull, Lettered, Road
  <2>3. s[2] = t[1] /\ s[3] = t[2] /\ s[4] = t[3] /\ s[5] = t[4]
    BY <2>1 DEF InFull, Road
  <2>4. PICK y : y = Len(t)
    OBVIOUS
  <2>5. Len(s) = y + 1 /\ \A i \in 1 .. y : s[i + 1] = t[i]
    BY <2>2, <2>3, <2>4
  <2>6. IsTail(t, s)
    BY <2>2, <2>4, <2>5, TailIs
  <2> QED BY <2>1, <2>6 DEF IsTail
<1>3. Tail(Boulevard) = InFull(5)
  <2>1. PICK s, t : s = Boulevard /\ t = InFull(5)
    OBVIOUS
  <2>2. s \in Seq(S) /\ Len(s) = 9 + 1 /\ t \in Seq(S) /\ Len(t) = 9
    BY <2>1 DEF InFull, Lettered, Boulevard
  <2>3. /\ s[2] = t[1] /\ s[3] = t[2] /\ s[4] = t[3] /\ s[5] = t[4]
        /\ s[6] = t[5] /\ s[7] = t[6] /\ s[8] = t[7] /\ s[9] = t[8]
        /\ s[10] = t[9]
    BY <2>1 DEF InFull, Boulevard
  <2>4. PICK y : y = Len(t)
    OBVIOUS
  <2>5. Len(s) = y + 1 /\ \A i \in 1 .. y : s[i + 1] = t[i]
    BY <2>2, <2>3, <2>4
  <2>6. IsTail(t, s)
    BY <2>2, <2>4, <2>5, TailIs
  <2> QED BY <2>1, <2>6 DEF IsTail
<1>4. InFull(2) = Append(InFull(1), Comma)
  <2>1. PICK s, t : s = InFull(1) /\ t = InFull(2)
    OBVIOUS
  <2>2. s \in Seq(S) /\ Len(s) = 6 /\ t \in Seq(S) /\ Len(t) = 6 + 1
    BY <2>1 DEF InFull, Lettered
  <2>3. /\ t[7] = Comma /\ t[1] = s[1] /\ t[2] = s[2] /\ t[3] = s[3]
        /\ t[4] = s[4] /\ t[5] = s[5] /\ t[6] = s[6]
    BY <2>1 DEF InFull
  <2>4. PICK y : y = Len(s)
    OBVIOUS
  <2>5. PICK c \in S : c = Comma
    BY DEF Lettered
  <2>6. Len(t) = y + 1 /\ t[y + 1] = c /\ \A i \in 1 .. y : t[i] = s[i]
    BY <2>2, <2>3, <2>4, <2>5
  <2>7. Follows(c, s, t)
    BY <2>2, <2>4, <2>6, OneAfter
  <2> QED BY <2>1, <2>5, <2>7 DEF Follows
<1>5. InFull(4) = Append(InFull(3), Comma)
  <2>1. PICK s, t : s = InFull(3) /\ t = InFull(4)
    OBVIOUS
  <2>2. s \in Seq(S) /\ Len(s) = 4 /\ t \in Seq(S) /\ Len(t) = 4 + 1
    BY <2>1 DEF InFull, Lettered
  <2>3. /\ /\ t[5] = Comma /\ t[1] = s[1] /\ t[2] = s[2] /\ t[3] = s[3]
        /\ t[4] = s[4]
    BY <2>1 DEF InFull
  <2>4. PICK y : y = Len(s)
    OBVIOUS
  <2>5. PICK c \in S : c = Comma
    BY DEF Lettered
  <2>6. Len(t) = y + 1 /\ t[y + 1] = c /\ \A i \in 1 .. y : t[i] = s[i]
    BY <2>2, <2>3, <2>4, <2>5
  <2>7. Follows(c, s, t)
    BY <2>2, <2>4, <2>6, OneAfter
  <2> QED BY <2>1, <2>5, <2>7 DEF Follows
<1> QED BY <1>1, <1>2, <1>3, <1>4, <1>5

\* The comma is part of what is replaced, or of what follows.
LEMMA WithComma ==
    ASSUME NEW k \in {2, 4}, NEW w \in Word, IsPrefix(Begins(k), w)
    PROVE  InFull(k - 1) \o SubSeq(w, 3, Len(w))
             = InFull(k) \o SubSeq(w, 4, Len(w))
<1>1. PICK n : n = Len(w)
  OBVIOUS
<1>2. BeginsWith(w, n, k)
  BY <1>1, BeginsAre
<1>3. 3 <= n /\ w[3] = Comma
  <2>1. k = 2 \/ k = 4
    OBVIOUS
  <2>2. CASE k = 2
    BY <1>2, <2>2 DEF BeginsWith
  <2>3. CASE k = 4
    BY <1>2, <2>3 DEF BeginsWith
  <2> QED BY <2>1, <2>2, <2>3
<1>4. w \in Texts /\ n \in Nat
  BY <1>1, WordsAreTexts, LenProperties DEF Texts
<1>5. PICK q \in Texts, r \in Texts : q = InFull(k - 1) /\ r = InFull(k)
  <2>1. k - 1 \in 1 .. 5
    OBVIOUS
  <2> QED BY <2>1, RulesAreWords, WordsAreTexts
<1>6. PICK c \in Characters : c = Comma
  BY Lettering
<1>7. PICK one \in Texts : one = <<c>>
  BY TextFacts
<1>8. r = q \o one
  <2>1. r = Append(q, c)
    <3>1. k = 2 => k - 1 = 1
      OBVIOUS
    <3>2. k = 4 => k - 1 = 3
      OBVIOUS
    <3> QED BY <1>5, <1>6, <3>1, <3>2, TailsAre
  <2> QED BY <1>7, <2>1, TextFacts
<1>9. PICK part \in Texts : part = SubSeq(w, 4, n)
  <2>1. PICK g \in 1 .. n + 1 : g = 4
    BY <1>3, <1>4
  <2> QED BY <1>1, <1>4, <2>1, FromPlace
<1>10. SubSeq(w, 3, n) = one \o part
  <2>1. 3 \in 1 .. Len(w) /\ n \in 3 .. Len(w) /\ w \in Seq(Characters)
    BY <1>1, <1>3, <1>4 DEF Texts
  <2>2. PICK g : g = 3 /\ g + 1 = 4
    OBVIOUS
  <2>3. SubSeq(w, g, n) = <<w[g]>> \o SubSeq(w, g + 1, n)
    BY <2>1, <2>2, SubSeqRecursiveFirst
  <2> QED BY <1>3, <1>6, <1>7, <1>9, <2>2, <2>3
<1>11. (q \o one) \o part = q \o (one \o part)
  BY ConcatAssoc
<1> QED BY <1>1, <1>5, <1>8, <1>9, <1>10, <1>11

\* What the properties say a word is written out as is what the rules in turn make of it.
LEMMA WrittenOutIs ==
    ASSUME NEW w \in Word
    PROVE  WrittenOut(w) = InTurn[w]
<1>1. PICK p1, p2, p3, p4, p5 :
        /\ p1 = <<"S", "t", Stop>> /\ p2 = <<"S", "t", Comma>>
        /\ p3 = <<"R", "d", Stop>> /\ p4 = <<"R", "d", Comma>>
        /\ p5 = <<"B", "l", "v", "d">>
  OBVIOUS
<1>2. /\ p1 = Begins(1) /\ p2 = Begins(2) /\ p3 = Begins(3) /\ p4 = Begins(4)
      /\ p5 = Begins(5)
  BY <1>1 DEF Begins
<1>3. PICK a, b, c : a = Tail(Street) /\ b = Tail(Road) /\ c = Tail(Boulevard)
  OBVIOUS
<1>4. WrittenOut(w)
        = CASE IsPrefix(p1, w) -> a \o SubSeq(w, 4, Len(w))
            [] IsPrefix(p2, w) -> a \o SubSeq(w, 3, Len(w))
            [] IsPrefix(p3, w) -> b \o SubSeq(w, 4, Len(w))
            [] IsPrefix(p4, w) -> b \o SubSeq(w, 3, Len(w))
            [] IsPrefix(p5, w) -> c \o SubSeq(w, 5, Len(w))
            [] OTHER -> w
  BY Zenon, <1>1, <1>3 DEF WrittenOut
<1>5. \A k, j \in 1 .. 5 : j # k /\ IsPrefix(Begins(k), w) => ~IsPrefix(Begins(j), w)
  BY OneBeginning
<1>6. ASSUME NEW k \in 1 .. 5, IsPrefix(Begins(k), w)
      PROVE  InTurn[w] = InFull(k) \o SubSeq(w, IF k = 5 THEN 5 ELSE 4, Len(w))
  <2>1. InTurn[w] = Rule(w, Begins(k), InFull(k))
    BY <1>6, InTurnOf
  <2>2. Len(Begins(k)) + 1 = IF k = 5 THEN 5 ELSE 4
    <3>1. PICK y : y = Len(Begins(k))
      OBVIOUS
    <3>2. y = IF k = 5 THEN 4 ELSE 3
      BY <3>1, BeginsLong
    <3>3. y + 1 = IF k = 5 THEN 5 ELSE 4
      BY <3>2
    <3> QED BY <3>1, <3>3
  <2>3. Rule(w, Begins(k), InFull(k)) = InFull(k) \o SubSeq(w, Len(Begins(k)) + 1, Len(w))
    BY <1>6 DEF Rule
  <2> QED BY <2>1, <2>2, <2>3
<1>c1. CASE IsPrefix(Begins(1), w)
  <2>1. /\ IsPrefix(p1, w) /\ ~IsPrefix(p2, w) /\ ~IsPrefix(p3, w)
        /\ ~IsPrefix(p4, w) /\ ~IsPrefix(p5, w)
    BY <1>2, <1>5, <1>c1
  <2>2. InTurn[w] = InFull(1) \o SubSeq(w, 4, Len(w))
    BY <1>6, <1>c1
  <2> QED BY <1>3, <1>4, <2>1, <2>2, TailsAre
<1>c2. CASE IsPrefix(Begins(2), w)
  <2>1. /\ ~IsPrefix(p1, w) /\ IsPrefix(p2, w) /\ ~IsPrefix(p3, w)
        /\ ~IsPrefix(p4, w) /\ ~IsPrefix(p5, w)
    BY <1>2, <1>5, <1>c2
  <2>2. InTurn[w] = InFull(2) \o SubSeq(w, 4, Len(w))
    BY <1>6, <1>c2
  <2>3. InFull(1) \o SubSeq(w, 3, Len(w)) = InFull(2) \o SubSeq(w, 4, Len(w))
    BY <1>c2, WithComma
  <2> QED BY <1>3, <1>4, <2>1, <2>2, <2>3, TailsAre
<1>c3. CASE IsPrefix(Begins(3), w)
  <2>1. /\ ~IsPrefix(p1, w) /\ ~IsPrefix(p2, w) /\ IsPrefix(p3, w)
        /\ ~IsPrefix(p4, w) /\ ~IsPrefix(p5, w)
    BY <1>2, <1>5, <1>c3
  <2>2. InTurn[w] = InFull(3) \o SubSeq(w, 4, Len(w))
    BY <1>6, <1>c3
  <2> QED BY <1>3, <1>4, <2>1, <2>2, TailsAre
<1>c4. CASE IsPrefix(Begins(4), w)
  <2>1. /\ ~IsPrefix(p1, w) /\ ~IsPrefix(p2, w) /\ ~IsPrefix(p3, w)
        /\ IsPrefix(p4, w) /\ ~IsPrefix(p5, w)
    BY <1>2, <1>5, <1>c4
  <2>2. InTurn[w] = InFull(4) \o SubSeq(w, 4, Len(w))
    BY <1>6, <1>c4
  <2>3. InFull(3) \o SubSeq(w, 3, Len(w)) = InFull(4) \o SubSeq(w, 4, Len(w))
    BY <1>c4, WithComma
  <2> QED BY <1>3, <1>4, <2>1, <2>2, <2>3, TailsAre
<1>c5. CASE IsPrefix(Begins(5), w)
  <2>1. /\ ~IsPrefix(p1, w) /\ ~IsPrefix(p2, w) /\ ~IsPrefix(p3, w)
        /\ ~IsPrefix(p4, w) /\ IsPrefix(p5, w)
    BY <1>2, <1>5, <1>c5
  <2>2. InTurn[w] = InFull(5) \o SubSeq(w, 5, Len(w))
    BY <1>6, <1>c5
  <2> QED BY <1>3, <1>4, <2>1, <2>2, TailsAre
<1>c6. CASE \A k \in 1 .. 5 : ~IsPrefix(Begins(k), w)
  <2>1. InTurn[w] = w
    BY <1>c6, InTurnOf
  <2>2. /\ ~IsPrefix(p1, w) /\ ~IsPrefix(p2, w) /\ ~IsPrefix(p3, w)
        /\ ~IsPrefix(p4, w) /\ ~IsPrefix(p5, w)
    BY <1>2, <1>c6
  <2> QED BY <1>4, <2>1, <2>2
<1>7. \A k \in 1 .. 5 : k = 1 \/ k = 2 \/ k = 3 \/ k = 4 \/ k = 5
  OBVIOUS
<1> QED BY <1>c1, <1>c2, <1>c3, <1>c4, <1>c5, <1>c6, <1>7

-----------------------------------------------------------------------------
\* normalize_address: the words of the address, capitalised, the beginnings of
\* all but the first written out.
LEMMA AddressIs ==
    ASSUME NEW text \in Texts
    PROVE  LET address == Words(text)
           IN  NormalizeAddress(text)
                 = Spaced([k \in DOMAIN address |->
                             IF k = 1 THEN address[k] ELSE WrittenOut(address[k])])
<1>1. PICK words \in Seq(Word) : words = Words(text)
  BY TitleWords
<1>2. PICK n \in Nat : n = Len(words) /\ DOMAIN words = 1 .. n
  BY LenProperties
<1>3. \A k \in 1 .. n : WrittenOut(words[k]) = InTurn[words[k]]
  BY <1>2, ElementOfSeq, WrittenOutIs
<1>4. Mapped(words, InTurn)
        = [k \in DOMAIN words |-> IF k = 1 THEN words[k] ELSE WrittenOut(words[k])]
  BY <1>2, <1>3 DEF Mapped
<1> QED BY <1>1, <1>4, AddressWords

\* A second pass changes nothing: no beginning is left.
LEMMA AddressAgain ==
    ASSUME NEW text \in Texts
    PROVE  NormalizeAddress(NormalizeAddress(text)) = NormalizeAddress(text)
<1>1. PICK words \in Seq(Word) :
        /\ words = Words(text)
        /\ \A k \in 1 .. Len(words) : Capitalised(words[k]) = words[k]
  BY TitleWords
<1>2. PICK f \in [Word -> Word] : f = InTurn
  BY InTurnIs
<1>3. PICK n : n = Len(words)
  OBVIOUS
<1>4. PICK full : full = Mapped(words, f)
  OBVIOUS
<1>5. full \in Seq(Word) /\ Len(full) = n
  BY <1>3, <1>4, MappedIs
<1>6. \A k \in 1 .. n : full[k] = IF k = 1 THEN words[k] ELSE f[words[k]]
  BY <1>3, <1>4, MappedIs
<1>7. ASSUME NEW k \in 1 .. n
      PROVE  Capitalised(full[k]) = full[k]
  <2>1. words[k] \in Word /\ Capitalised(words[k]) = words[k]
    BY <1>1, <1>3, ElementOfSeq
  <2> QED BY <1>2, <1>6, <2>1, InTurnCapitalised
<1>8. PICK done \in Texts : done = Spaced(full)
  BY <1>5, WordsAreTexts, SpacedIsText
<1>9. NormalizeAddress(text) = done
  BY <1>1, <1>2, <1>4, <1>8, AddressWords
<1>10. Words(done) = full
  BY <1>5, <1>7, <1>8, TitleAgain
<1>11. NormalizeAddress(done) = Spaced(Mapped(full, f))
  BY <1>2, <1>10, AddressWords
<1>12. Mapped(full, f) = full
  <2>1. PICK g : g = [w \in Word |-> f[f[w]]]
    OBVIOUS
  <2>2. g = f
    BY <1>2, <2>1, InTurnAgain
  <2>3. Mapped(Mapped(words, f), f) = Mapped(words, g)
    BY <2>1, MappedTwice
  <2> QED BY <1>4, <2>2, <2>3
<1> QED BY <1>8, <1>9, <1>11, <1>12

-----------------------------------------------------------------------------
(* The postal code.                                                        *)

\* A turn of normalize_postal.
Kept(code, c) == IF IsAlnum(c) THEN Append(code, ToUpper(c)) ELSE code

\* The postal code after each character.
IsKeeping(st, text) ==
    /\ st \in [0 .. Len(text) -> Texts]
    /\ st[0] = <<>>
    /\ \A k \in 1 .. Len(text) : st[k] = Kept(st[k - 1], text[k])

\* The fold of normalize_postal, seen after each character.
LEMMA PostalSteps ==
    ASSUME NEW text \in Texts
    PROVE  \E st : IsKeeping(st, text) /\ NormalizePostal(text) = st[Len(text)]
<1>1. PICK n \in Nat : n = Len(text) /\ DOMAIN text = 1 .. n
  BY LenProperties DEF Texts
<1>2. PICK base \in Texts : base = <<>>
  BY TextFacts
<1> DEFINE turn == [k \in 1 .. n |-> [code \in Texts |-> Kept(code, text[k])]]
           Fold(F) == [s \in SUBSET (DOMAIN text) |->
                         IF s = {} THEN <<>>
                         ELSE Kept(F[s \ {Max(s)}], text[Max(s)])]
           chosen == CHOOSE F : F = Fold(F)
           st == [k \in 0 .. n |-> chosen[1 .. k]]
<1>3. Steps(turn, n, Texts)
  <2>1. ASSUME NEW k \in 1 .. n, NEW code \in Texts
        PROVE  Kept(code, text[k]) \in Texts
    <3>1. text[k] \in Characters
      BY <1>1, ElementOfSeq DEF Texts
    <3>2. ToUpper(text[k]) \in Characters
      BY <3>1, CaseFacts
    <3> QED BY <3>2, AppendProperties DEF Kept, Texts
  <2>2. \A k \in 1 .. n : \A code \in Texts : turn[k][code] \in Texts
    BY <2>1
  <2> QED BY <2>2 DEF Steps
<1>4. \E F : F = Fold(F)
  <2>1. PICK F \in [SUBSET (1 .. n) -> Texts] : IsFold(F, n, base, turn)
    <3> HIDE DEF turn
    <3> QED BY <1>3, FoldExists
  <2>2. ASSUME NEW s \in SUBSET (1 .. n)
        PROVE  F[s] = IF s = {} THEN base
                      ELSE Kept(F[s \ {Max(s)}], text[Max(s)])
    <3>1. CASE s = {}
      BY <2>1, <3>1 DEF IsFold
    <3>2. CASE s # {}
      <4>1. Max(s) \in 1 .. n /\ s \ {Max(s)} \in SUBSET (1 .. n)
        BY <3>2, LargestOf
      <4>2. F[s] = turn[Max(s)][F[s \ {Max(s)}]]
        <5> HIDE DEF turn
        <5> QED BY <2>1, <3>2 DEF IsFold
      <4>3. F[s \ {Max(s)}] \in Texts
        BY <2>1, <4>1
      <4> QED BY <3>2, <4>1, <4>2, <4>3
    <3> QED BY <3>1, <3>2
  <2>3. F = Fold(F)
    BY <1>1, <1>2, <2>1, <2>2
  <2> QED BY <2>3
<1>5. chosen = Fold(chosen)
  <2> HIDE DEF Fold
  <2> QED BY <1>4
<1>6. NormalizePostal(text) = chosen[DOMAIN text]
  BY Zenon DEF NormalizePostal, FoldLeft, MapThenFoldSet, Kept
<1>7. \A s \in SUBSET (1 .. n) :
         chosen[s] = IF s = {} THEN base
                     ELSE Kept(chosen[s \ {Max(s)}], text[Max(s)])
  <2> HIDE DEF chosen
  <2> QED BY <1>1, <1>2, <1>5
<1> HIDE DEF chosen
<1>8. Iterates(st, n, Texts, base, turn)
  <2>1. ASSUME NEW s \in SUBSET (1 .. n), s # {}, chosen[s \ {Max(s)}] \in Texts
        PROVE  chosen[s] = turn[Max(s)][chosen[s \ {Max(s)}]]
    <3>1. Max(s) \in 1 .. n
      BY <2>1, LargestOf
    <3> QED BY <1>7, <2>1, <3>1
  <2>2. chosen[{}] = base
    <3>1. {} \in SUBSET (1 .. n)
      OBVIOUS
    <3> QED BY <1>7, <3>1
  <2> HIDE DEF turn
  <2>3. \A s \in SUBSET (1 .. n) : s # {} /\ chosen[s \ {Max(s)}] \in Texts
          => chosen[s] = turn[Max(s)][chosen[s \ {Max(s)}]]
    BY <2>1
  <2>4. n \in Nat /\ base \in Texts
    OBVIOUS
  <2>5. Iterates([k \in 0 .. n |-> chosen[1 .. k]], n, Texts, base, turn)
    BY <1>3, <2>2, <2>3, <2>4, FoldTurns
  <2> QED BY <2>5
<1>9. st[n] = chosen[DOMAIN text]
  BY <1>1
<1> HIDE DEF st
<1>10. ASSUME NEW k \in 1 .. n
       PROVE  st[k] = Kept(st[k - 1], text[k])
  <2>1. st[k] = turn[k][st[k - 1]] /\ st[k - 1] \in Texts
    <3>1. k - 1 \in 0 .. n
      OBVIOUS
    <3> HIDE DEF turn
    <3> QED BY <1>8, <3>1 DEF Iterates
  <2> QED BY <2>1
<1>11. IsKeeping(st, text)
  BY <1>1, <1>2, <1>8, <1>10 DEF IsKeeping, Iterates
<1> QED BY <1>1, <1>6, <1>9, <1>11

\* The letters and digits among the first k characters.
Alnums(text, k) == {i \in 1 .. k : IsAlnum(text[i])}

\* They can be counted.
LEMMA AlnumsFinite ==
    ASSUME NEW text, NEW k \in Nat
    PROVE  /\ IsFiniteSet(Alnums(text, k))
           /\ Cardinality(Alnums(text, k)) \in Nat
<1>1. IsFiniteSet(1 .. k)
  BY FS_Interval
<1>2. IsFiniteSet(Alnums(text, k))
  BY <1>1, FS_Subset DEF Alnums
<1> QED BY <1>2, FS_CardinalityType

\* The next character is one more, or none.
LEMMA AlnumsNext ==
    ASSUME NEW text, NEW k \in Nat, k # 0
    PROVE  Cardinality(Alnums(text, k))
             = IF IsAlnum(text[k]) THEN Cardinality(Alnums(text, k - 1)) + 1
               ELSE Cardinality(Alnums(text, k - 1))
<1>1. k - 1 \in Nat /\ 1 .. k = (1 .. k - 1) \cup {k} /\ k \notin 1 .. k - 1
  OBVIOUS
<1>2. IsFiniteSet(Alnums(text, k - 1)) /\ k \notin Alnums(text, k - 1)
  BY <1>1, AlnumsFinite DEF Alnums
<1>3. CASE IsAlnum(text[k])
  <2>1. Alnums(text, k) = Alnums(text, k - 1) \cup {k}
    BY <1>1, <1>3 DEF Alnums
  <2> QED BY <1>2, <1>3, <2>1, FS_AddElement
<1>4. CASE ~IsAlnum(text[k])
  <2>1. Alnums(text, k) = Alnums(text, k - 1)
    BY <1>1, <1>4 DEF Alnums
  <2> QED BY <1>4, <2>1
<1> QED BY <1>3, <1>4

\* The code that is kept of the first k characters of a text.
IsCode(code, text, k) ==
    /\ code \in Texts
    /\ Len(code) = Cardinality(Alnums(text, k))
    /\ \A j \in 1 .. Len(code) : IsAlnum(code[j]) /\ ToUpper(code[j]) = code[j]
    /\ \A i \in Alnums(text, k) :
         /\ Cardinality(Alnums(text, i)) \in 1 .. Len(code)
         /\ code[Cardinality(Alnums(text, i))] = ToUpper(text[i])

\* normalize_postal returns that code.
LEMMA PostalIs ==
    ASSUME NEW text \in Texts
    PROVE  IsCode(NormalizePostal(text), text, Len(text))
<1>1. PICK n \in Nat : n = Len(text) /\ DOMAIN text = 1 .. n
  BY LenProperties DEF Texts
<1>2. PICK st : IsKeeping(st, text) /\ NormalizePostal(text) = st[Len(text)]
  BY PostalSteps
<1> DEFINE T == {k \in 0 .. n : IsCode(st[k], text, k)}
<1>3. 0 \in T
  <2>1. Alnums(text, 0) = {} /\ Cardinality(Alnums(text, 0)) = 0
    BY FS_EmptySet DEF Alnums
  <2>2. st[0] = <<>> /\ st[0] \in Texts /\ Len(st[0]) = 0
    BY <1>2, TextFacts DEF IsKeeping
  <2> QED BY <2>1, <2>2 DEF IsCode
<1>4. ASSUME NEW k \in 0 .. n - 1, k \in T
      PROVE  k + 1 \in T
  <2>1. PICK code \in Texts : code = st[k] /\ IsCode(code, text, k)
    BY <1>4 DEF IsCode
  <2>2. PICK c \in Characters : c = text[k + 1]
    <3>1. k + 1 \in 1 .. Len(text) /\ text \in Seq(Characters)
      BY <1>1 DEF Texts
    <3> QED BY <3>1, ElementOfSeq
  <2>3. st[k + 1] = Kept(code, c)
    <3>1. k + 1 \in 1 .. Len(text) /\ (k + 1) - 1 = k
      BY <1>1
    <3> QED BY <1>2, <2>1, <2>2, <3>1 DEF IsKeeping
  <2>4. PICK y : y = Len(code)
    OBVIOUS
  <2>5. k + 1 \in Nat /\ k + 1 # 0 /\ (k + 1) - 1 = k
    OBVIOUS
  <2>6. y = Cardinality(Alnums(text, k)) /\ y \in Nat
    BY <2>1, <2>4, LenProperties DEF IsCode, Texts
  <2>7. Alnums(text, k + 1) = Alnums(text, k) \cup (IF IsAlnum(c) THEN {k + 1} ELSE {})
    <3>1. 1 .. k + 1 = (1 .. k) \cup {k + 1}
      OBVIOUS
    <3> QED BY <2>2, <3>1 DEF Alnums
  <2>8. Cardinality(Alnums(text, k + 1)) = IF IsAlnum(c) THEN y + 1 ELSE y
    BY <2>2, <2>5, <2>6, AlnumsNext
  <2>9. /\ \A j \in 1 .. y : IsAlnum(code[j]) /\ ToUpper(code[j]) = code[j]
        /\ \A i \in Alnums(text, k) :
             /\ Cardinality(Alnums(text, i)) \in 1 .. y
             /\ code[Cardinality(Alnums(text, i))] = ToUpper(text[i])
    BY <2>1, <2>4 DEF IsCode
  <2>10. CASE IsAlnum(c)
    <3>1. PICK u \in Characters : u = ToUpper(c)
      BY CaseFacts
    <3>2. IsAlnum(u) /\ ToUpper(u) = u
      BY <2>10, <3>1, CaseFacts
    <3>3. PICK more : more = Append(code, u)
      OBVIOUS
    <3>4. /\ more \in Texts /\ Len(more) = y + 1 /\ more[y + 1] = u
          /\ \A j \in 1 .. y : more[j] = code[j]
      BY <2>4, <3>3, OneMore DEF Texts
    <3>5. \A j \in 1 .. y + 1 : IsAlnum(more[j]) /\ ToUpper(more[j]) = more[j]
      <4>1. \A j \in 1 .. y + 1 : j \in 1 .. y \/ j = y + 1
        BY <2>6
      <4> QED BY <2>9, <3>2, <3>4, <4>1
    <3>6. ASSUME NEW i \in Alnums(text, k + 1)
          PROVE  /\ Cardinality(Alnums(text, i)) \in 1 .. y + 1
                 /\ more[Cardinality(Alnums(text, i))] = ToUpper(text[i])
      <4>1. CASE i \in Alnums(text, k)
        <5>1. PICK j \in 1 .. y : j = Cardinality(Alnums(text, i)) /\ code[j] = ToUpper(text[i])
          BY <2>9, <4>1
        <5> QED BY <2>6, <3>4, <5>1
      <4>2. CASE i = k + 1
        <5>1. Cardinality(Alnums(text, i)) = y + 1
          BY <2>8, <2>10, <4>2
        <5> QED BY <2>2, <2>6, <3>1, <3>4, <4>2, <5>1
      <4> QED BY <2>7, <2>10, <4>1, <4>2
    <3>7. st[k + 1] = more
      BY <2>3, <2>10, <3>1, <3>3 DEF Kept
    <3>8. IsCode(more, text, k + 1)
      BY <2>8, <2>10, <3>4, <3>5, <3>6 DEF IsCode
    <3> QED BY <3>7, <3>8
  <2>11. CASE ~IsAlnum(c)
    <3>1. st[k + 1] = code
      BY <2>3, <2>11 DEF Kept
    <3>2. Alnums(text, k + 1) = Alnums(text, k)
      BY <2>7, <2>11
    <3>3. IsCode(code, text, k + 1)
      BY <2>1, <3>2 DEF IsCode
    <3> QED BY <3>1, <3>3
  <2> QED BY <2>10, <2>11
<1> HIDE DEF T
<1>5. \A k \in 0 .. n : k \in T
  BY <1>3, <1>4, UpTo
<1>6. IsCode(st[n], text, n)
  <2>1. n \in T
    BY <1>5
  <2> QED BY <2>1 DEF T
<1> QED BY <1>1, <1>2, <1>6

\* A second pass changes nothing: only capitals and digits are left.
LEMMA PostalAgain ==
    ASSUME NEW text \in Texts
    PROVE  NormalizePostal(NormalizePostal(text)) = NormalizePostal(text)
<1>1. PICK code \in Texts : code = NormalizePostal(text)
  BY PostalIs DEF IsCode
<1>2. PICK again \in Texts : again = NormalizePostal(code)
  BY PostalIs DEF IsCode
<1>3. PICK n \in Nat : n = Len(code) /\ code \in Seq(Characters)
  BY LenProperties DEF Texts
<1>4. \A j \in 1 .. n : IsAlnum(code[j]) /\ ToUpper(code[j]) = code[j]
  BY <1>1, <1>3, PostalIs DEF IsCode
<1>5. \A i \in 0 .. n : Alnums(code, i) = 1 .. i
  BY <1>4 DEF Alnums
<1>6. \A i \in 0 .. n : Cardinality(Alnums(code, i)) = i
  BY <1>5, FS_Interval
<1>7. IsCode(again, code, n)
  BY <1>2, <1>3, PostalIs
<1>8. Len(again) = n
  BY <1>6, <1>7 DEF IsCode
<1>9. \A i \in 1 .. n : again[i] = code[i]
  <2>1. ASSUME NEW i \in 1 .. n
        PROVE  again[i] = code[i]
    <3>1. i \in Alnums(code, n) /\ Cardinality(Alnums(code, i)) = i
      BY <1>5, <1>6
    <3>2. again[Cardinality(Alnums(code, i))] = ToUpper(code[i])
      BY <1>7, <3>1 DEF IsCode
    <3> QED BY <1>4, <3>1, <3>2
  <2> QED BY <2>1
<1>10. again = code
  <2>1. again \in Seq(Characters)
    BY DEF Texts
  <2> QED BY <1>3, <1>8, <1>9, <2>1, SeqEqual
<1> QED BY <1>1, <1>2, <1>10

-----------------------------------------------------------------------------
(* The codes.                                                              *)

\* What upper_copy makes of a text.
LEMMA UpperIs ==
    ASSUME NEW text \in Texts, NEW n, n = Len(text)
    PROVE  /\ n \in Nat /\ UpperCopy(text) \in Texts /\ Len(UpperCopy(text)) = n
           /\ \A i \in 1 .. n : UpperCopy(text)[i] = ToUpper(text[i])
           /\ UpperCopy(UpperCopy(text)) = UpperCopy(text)
           /\ text \in Word => UpperCopy(text) \in Word
<1>1. n \in Nat /\ DOMAIN text = 1 .. n
  BY LenProperties DEF Texts
<1>2. \A i \in 1 .. n : text[i] \in Characters
  BY ElementOfSeq DEF Texts
<1>3. PICK upper : upper = UpperCopy(text)
  OBVIOUS
<1>4. upper = [i \in 1 .. n |-> ToUpper(text[i])]
  BY <1>1, <1>3 DEF UpperCopy
<1>5. \A i \in 1 .. n :
        /\ upper[i] = ToUpper(text[i]) /\ upper[i] \in Characters
        /\ ToUpper(upper[i]) = upper[i]
        /\ IsSpace(upper[i]) <=> IsSpace(text[i])
  BY <1>2, <1>4, CaseFacts
<1>6. upper \in [1 .. n -> Characters]
  BY <1>4, <1>5
<1>7. upper \in Seq(Characters) /\ Len(upper) = n
  BY <1>1, <1>4, <1>6, SeqDef
<1>8. UpperCopy(upper) = upper
  <2>1. UpperCopy(upper) = [i \in 1 .. n |-> ToUpper(upper[i])]
    <3>1. DOMAIN upper = 1 .. n
      BY <1>4
    <3> QED BY <3>1 DEF UpperCopy
  <2>2. upper = [i \in 1 .. n |-> upper[i]]
    BY <1>4
  <2> QED BY <1>5, <2>1, <2>2
<1>9. ASSUME text \in Word
      PROVE  upper \in Word
  <2>1. n # 0 /\ \A i \in 1 .. n : ~IsSpace(text[i])
    BY <1>9, EmptySeq DEF Word, Texts
  <2>2. upper # <<>>
    BY <1>7, <2>1, TextFacts
  <2> QED BY <1>5, <1>7, <2>1, <2>2 DEF Word, Texts
<1> QED BY <1>1, <1>3, <1>5, <1>7, <1>8, <1>9 DEF Texts

\* It works on each part by itself, and leaves what is empty or blank.
LEMMA UpperConcat ==
    /\ UpperCopy(<<>>) = <<>>
    /\ UpperCopy(<<" ">>) = <<" ">>
    /\ \A s, t \in Texts : UpperCopy(s \o t) = UpperCopy(s) \o UpperCopy(t)
<1>1. UpperCopy(<<>>) = <<>>
  <2>1. DOMAIN <<>> = {}
    OBVIOUS
  <2> QED BY <2>1 DEF UpperCopy
<1>2. UpperCopy(<<" ">>) = <<" ">>
  <2>1. PICK blank \in Texts :
          /\ blank = <<" ">> /\ Len(blank) = 1 /\ blank[1] \in Characters
          /\ IsSpace(blank[1])
    <3>1. PICK blank : blank = <<" ">>
      OBVIOUS
    <3> QED BY <3>1, BlankIs, CharacterFacts
  <2>2. PICK upper : upper = UpperCopy(blank)
    OBVIOUS
  <2>3. /\ upper \in Texts /\ Len(upper) = 1
        /\ \A i \in 1 .. 1 : upper[i] = ToUpper(blank[i])
    <3>1. PICK n : n = Len(blank)
      OBVIOUS
    <3>2. upper \in Texts /\ Len(upper) = n
      BY <2>2, <3>1, UpperIs
    <3>3. \A i \in 1 .. n : upper[i] = ToUpper(blank[i])
      BY <2>2, <3>1, UpperIs
    <3> QED BY <2>1, <3>1, <3>2, <3>3
  <2>5. \A i \in 1 .. 1 : upper[i] = blank[i]
    <3>1. PICK c \in Characters : c = blank[1] /\ IsSpace(c)
      BY <2>1
    <3>2. ToUpper(c) = c
      BY <3>1, CaseFacts
    <3> QED BY <2>3, <3>1, <3>2
  <2>4. upper = blank
    BY <2>1, <2>3, <2>5, SeqEqual DEF Texts
  <2> QED BY <2>1, <2>2, <2>4
<1>3. ASSUME NEW s \in Texts, NEW t \in Texts
      PROVE  UpperCopy(s \o t) = UpperCopy(s) \o UpperCopy(t)
  <2>1. PICK both, a, b : both = s \o t /\ a = Len(s) /\ b = Len(t)
    OBVIOUS
  <2>2. /\ a \in Nat /\ b \in Nat /\ both \in Texts /\ Len(both) = a + b
        /\ \A i \in 1 .. a + b : both[i] = IF i <= a THEN s[i] ELSE t[i - a]
    <3>1. both \in Texts /\ Len(both) = a + b
      BY <2>1, ConcatTexts
    <3>2. \A i \in 1 .. a + b : both[i] = IF i <= a THEN s[i] ELSE t[i - a]
      BY <2>1, ConcatIs
    <3> QED BY <2>1, <3>1, <3>2, LenProperties DEF Texts
  <2>3. PICK p \in Texts, q \in Texts :
          /\ p = UpperCopy(s) /\ Len(p) = a /\ \A i \in 1 .. a : p[i] = ToUpper(s[i])
          /\ q = UpperCopy(t) /\ Len(q) = b /\ \A i \in 1 .. b : q[i] = ToUpper(t[i])
    BY <2>1, UpperIs
  <2>4. PICK all \in Texts :
          /\ all = UpperCopy(both) /\ Len(all) = a + b
          /\ \A i \in 1 .. a + b : all[i] = ToUpper(both[i])
    BY <2>2, UpperIs
  <2>5. PICK join : join = p \o q
    OBVIOUS
  <2>6. /\ join \in Texts /\ Len(join) = a + b
        /\ \A i \in 1 .. a + b : join[i] = IF i <= a THEN p[i] ELSE q[i - a]
    <3>1. join \in Texts /\ Len(join) = a + b
      BY <2>3, <2>5, ConcatTexts
    <3>2. a = Len(p) /\ b = Len(q)
      BY <2>3
    <3>3. \A i \in 1 .. a + b : join[i] = IF i <= a THEN p[i] ELSE q[i - a]
      BY <2>5, <3>2, ConcatIs
    <3> QED BY <3>1, <3>3
  <2>7. \A i \in 1 .. a + b : all[i] = join[i]
    <3>1. \A i \in 1 .. a + b : i \in 1 .. a \/ (~(i <= a) /\ i - a \in 1 .. b)
      BY <2>2
    <3>2. \A i \in 1 .. a : i <= a
      BY <2>2
    <3> QED BY <2>2, <2>3, <2>4, <2>6, <3>1, <3>2
  <2>8. all = join
    BY <2>4, <2>6, <2>7, SeqEqual DEF Texts
  <2> QED BY <2>1, <2>3, <2>4, <2>5, <2>8
<1> QED BY <1>1, <1>2, <1>3

\* Each word in upper case.
AllUpper(words) == [k \in DOMAIN words |-> UpperCopy(words[k])]

\* They are as many, and words.
LEMMA AllUpperIs ==
    ASSUME NEW words \in Seq(Word)
    PROVE  /\ AllUpper(words) \in Seq(Word)
           /\ Len(AllUpper(words)) = Len(words)
           /\ \A k \in 1 .. Len(words) : AllUpper(words)[k] = UpperCopy(words[k])
<1>1. PICK n \in Nat : n = Len(words) /\ DOMAIN words = 1 .. n
  BY LenProperties
<1>2. AllUpper(words) = [k \in 1 .. n |-> UpperCopy(words[k])]
  BY <1>1 DEF AllUpper
<1>3. \A k \in 1 .. n : UpperCopy(words[k]) \in Word
  BY <1>1, ElementOfSeq, UpperIs, WordsAreTexts
<1>4. AllUpper(words) \in [1 .. n -> Word]
  BY <1>2, <1>3
<1>5. AllUpper(words) \in Seq(Word)
  BY <1>4, SeqDef
<1>6. Len(AllUpper(words)) = n
  BY <1>2
<1> QED BY <1>1, <1>2, <1>5, <1>6

\* The last is the last, in upper case.
LEMMA AllUpperNext ==
    ASSUME NEW words \in Seq(Word), NEW w \in Word
    PROVE  AllUpper(Append(words, w)) = Append(AllUpper(words), UpperCopy(w))
<1>1. PICK n \in Nat : n = Len(words)
  BY LenProperties
<1>2. PICK more : more = Append(words, w)
  OBVIOUS
<1>3. /\ more \in Seq(Word) /\ Len(more) = n + 1 /\ more[n + 1] = w
      /\ \A k \in 1 .. n : more[k] = words[k]
  BY <1>1, <1>2, OneMore
<1>4. PICK big : big = AllUpper(more)
  OBVIOUS
<1>5. /\ big \in Seq(Word) /\ Len(big) = n + 1
      /\ \A k \in 1 .. n + 1 : big[k] = UpperCopy(more[k])
  BY <1>3, <1>4, AllUpperIs
<1>6. PICK left \in Seq(Word), v \in Word :
        /\ left = AllUpper(words) /\ n = Len(left)
        /\ \A k \in 1 .. n : left[k] = UpperCopy(words[k])
        /\ v = UpperCopy(w)
  BY <1>1, AllUpperIs, UpperIs, WordsAreTexts
<1>7. PICK join : join = Append(left, v)
  OBVIOUS
<1>8. /\ join \in Seq(Word) /\ Len(join) = n + 1 /\ join[n + 1] = v
      /\ \A k \in 1 .. n : join[k] = left[k]
  BY <1>6, <1>7, OneMore
<1>9. \A k \in 1 .. n + 1 : big[k] = join[k]
  <2>1. \A k \in 1 .. n + 1 : k = n + 1 \/ k \in 1 .. n
    OBVIOUS
  <2> QED BY <1>3, <1>5, <1>6, <1>8, <2>1
<1>10. big = join
  BY <1>5, <1>8, <1>9, SeqEqual
<1> QED BY <1>2, <1>4, <1>6, <1>7, <1>10

\* Spaced words are put in upper case word by word.
LEMMA UpperSpaced ==
    ASSUME NEW words \in Seq(Word)
    PROVE  UpperCopy(Spaced(words)) = Spaced(AllUpper(words))
<1> DEFINE T == {ws \in Seq(Word) : UpperCopy(Spaced(ws)) = Spaced(AllUpper(ws))}
<1>1. <<>> \in T
  <2>1. DOMAIN <<>> = {} /\ <<>> \in Seq(Word)
    BY EmptySeq
  <2>2. AllUpper(<<>>) = <<>>
    BY <2>1 DEF AllUpper
  <2> QED BY <2>1, <2>2, SpacedNone, UpperConcat
<1>2. ASSUME NEW ws \in Seq(Word), NEW w \in Word, ws \in T
      PROVE  Append(ws, w) \in T
  <2>1. Append(ws, w) \in Seq(Word) /\ ws \in Seq(Texts) /\ w \in Texts
    BY AppendProperties, WordsAreTexts
  <2>2. PICK caps \in Seq(Texts), cap \in Texts :
          caps = AllUpper(ws) /\ cap = UpperCopy(w) /\ (caps = <<>> <=> ws = <<>>)
    <3>1. AllUpper(ws) \in Seq(Texts) /\ UpperCopy(w) \in Texts
      BY <2>1, AllUpperIs, UpperIs, WordsAreTexts
    <3>2. AllUpper(ws) = <<>> <=> ws = <<>>
      BY <2>1, <3>1, AllUpperIs, EmptySeq
    <3> QED BY <3>1, <3>2
  <2>3. AllUpper(Append(ws, w)) = Append(caps, cap)
    BY <2>2, AllUpperNext
  <2>4. PICK old \in Texts, new \in Texts : old = Spaced(ws) /\ new = Spaced(caps)
    BY <2>1, SpacedIsText
  <2>5. UpperCopy(old) = new
    BY <1>2, <2>2, <2>4
  <2>6. PICK blank \in Texts : blank = <<" ">> /\ UpperCopy(blank) = blank
    BY TextFacts, UpperConcat
  <2>7. PICK tail \in Texts : tail = blank \o w /\ UpperCopy(tail) = blank \o cap
    <3>1. blank \o w \in Texts
      BY <2>1, ConcatTexts
    <3>2. UpperCopy(blank \o w) = UpperCopy(blank) \o UpperCopy(w)
      BY <2>1, UpperConcat
    <3> QED BY <2>2, <2>6, <3>1, <3>2
  <2>8. /\ UpperCopy(old \o w) = new \o cap
        /\ UpperCopy(old \o tail) = new \o (blank \o cap)
    BY <2>1, <2>2, <2>5, <2>7, UpperConcat
  <2>9. /\ Spaced(Append(ws, w)) = IF ws = <<>> THEN old \o w ELSE old \o tail
        /\ Spaced(Append(caps, cap))
             = IF caps = <<>> THEN new \o cap ELSE new \o (blank \o cap)
    BY <2>1, <2>4, <2>6, <2>7, SpacedNext
  <2> QED BY <2>1, <2>2, <2>3, <2>8, <2>9
<1>3. words \in T
  <2> HIDE DEF T
  <2> QED BY <1>1, <1>2, SequenceInduction
<1> QED BY <1>3

\* A code: the words of the text in upper case, joined by single spaces.
LEMMA CodeIs ==
    ASSUME NEW text \in Texts
    PROVE  /\ UpperCode(text) = InCapitals(text) /\ UpperCode(text) \in Texts
           /\ UpperCode(UpperCode(text)) = UpperCode(text)
<1>1. PICK split \in Seq(Word) : split = SplitAtSpaces(text)
  BY SplitEmpty
<1>2. PICK caps \in Seq(Word) : caps = AllUpper(split)
  BY AllUpperIs
<1>3. PICK code \in Texts : code = UpperCode(text) /\ code = Spaced(caps)
  <2>1. UpperCode(text) = UpperCopy(Spaced(split))
    BY <1>1, CollapseIs DEF UpperCode
  <2>2. UpperCode(text) = Spaced(caps)
    BY <1>2, <2>1, UpperSpaced
  <2> QED BY <2>2, SpacedIsText, WordsAreTexts
<1>4. InCapitals(text) = Spaced(caps)
  BY <1>1, <1>2 DEF InCapitals, AllUpper, UpperCopy
<1>5. UpperCode(code) = code
  <2>1. CollapseWs(code) = Spaced(caps)
    BY <1>3, CollapseIs, SplitSpaced
  <2>2. code = UpperCopy(Spaced(split))
    BY <1>2, <1>3, UpperSpaced
  <2>3. UpperCopy(code) = code
    BY <2>2, SpacedIsText, UpperIs, WordsAreTexts
  <2> QED BY <1>3, <2>1, <2>3 DEF UpperCode
<1> QED BY <1>3, <1>4, <1>5

\* A word in capitals is a code as it stands.
LEMMA CodeOfWord ==
    ASSUME NEW w \in Word, \A n \in 1 .. Len(w) : ToUpper(w[n]) = w[n]
    PROVE  InCapitals(w) = w
<1>1. w \in Texts /\ <<>> \in Seq(Word)
  BY WordsAreTexts, EmptySeq
<1>2. Append(<<>>, w) \in Seq(Word) /\ Spaced(Append(<<>>, w)) = w
  <2>1. <<>> \in Seq(Texts) /\ <<>> \in Texts
    BY EmptySeq, TextFacts
  <2>2. Spaced(Append(<<>>, w)) = <<>> \o w
    BY <1>1, <2>1, SpacedNext, SpacedNone
  <2> QED BY <1>1, <2>2, AppendProperties, ConcatTexts
<1>3. CollapseWs(w) = w
  BY <1>1, <1>2, CollapseIs, SplitSpaced
<1>4. UpperCopy(w) = w
  <2>1. PICK n : n = Len(w)
    OBVIOUS
  <2>2. PICK upper \in Texts :
          /\ upper = UpperCopy(w) /\ Len(upper) = n
          /\ \A i \in 1 .. n : upper[i] = ToUpper(w[i])
    BY <1>1, <2>1, UpperIs
  <2>3. \A i \in 1 .. n : upper[i] = w[i]
    BY <2>1, <2>2
  <2>4. upper = w
    BY <1>1, <2>1, <2>2, <2>3, SeqEqual DEF Texts
  <2> QED BY <2>2, <2>4
<1> QED BY <1>1, <1>3, <1>4, CodeIs DEF UpperCode

\* The characters of the codes are in upper case and not white.
LEMMA CapitalCharacters ==
    /\ \A c \in {"U", "S", "B", "R", "D", "E", "J", "P", "I", "N", "Z", "A", "L", "Y",
                "T", "C", "H", "M", "F", "G"} :
         c \in Characters /\ ~IsSpace(c) /\ ToUpper(c) = c /\ c # Query
    /\ Query \in Characters /\ ~IsSpace(Query) /\ ToUpper(Query) = Query
<1>1. /\ Capital[1] = "A" /\ Capital[2] = "B" /\ Capital[3] = "C" /\ Capital[4] = "D"
      /\ Capital[5] = "E" /\ Capital[6] = "F" /\ Capital[7] = "G" /\ Capital[8] = "H"
      /\ Capital[9] = "I" /\ Capital[10] = "J" /\ Capital[12] = "L"
      /\ Capital[13] = "M" /\ Capital[14] = "N" /\ Capital[16] = "P"
      /\ Capital[18] = "R" /\ Capital[19] = "S" /\ Capital[20] = "T"
      /\ Capital[21] = "U" /\ Capital[25] = "Y" /\ Capital[26] = "Z"
  BY DEF Capital
<1>2. ASSUME NEW i \in 1 .. 26
      PROVE  /\ Capital[i] \in Characters /\ ~IsSpace(Capital[i])
             /\ ToUpper(Capital[i]) = Capital[i] /\ Capital[i] # Query
  <2>1. Capital[i] \in Letters /\ Letters \cap Spaces = {}
    BY LetterFacts
  <2>3. Query \notin Letters
    BY GeneratorAssumption, MarksAssumption
  <2>2. ~Contains(Small, Capital[i])
    BY LetterFacts DEF Contains
  <2> QED BY <2>1, <2>2, <2>3 DEF Characters, IsSpace, ToUpper
<1>3. Query \in Characters /\ ~IsSpace(Query) /\ ToUpper(Query) = Query
  <2>1. Query \in Marks /\ Query \notin Spaces /\ Query \notin Letters
    BY GeneratorAssumption, MarksAssumption
  <2>2. ~Contains(Small, Query)
    BY <2>1, LetterFacts DEF Contains
  <2> QED BY <2>1, <2>2 DEF Characters, IsSpace, ToUpper
<1> DEFINE letters == {"U", "S", "B", "R", "D", "E", "J", "P", "I", "N", "Z", "A",
                       "L", "Y", "T", "C", "H", "M", "F", "G"}
<1>4. \A c \in letters : \E i \in 1 .. 26 : c = Capital[i]
  BY <1>1
<1>5. \A c \in letters :
        c \in Characters /\ ~IsSpace(c) /\ ToUpper(c) = c /\ c # Query
  <2> HIDE DEF letters
  <2> QED BY <1>2, <1>4
<1> QED BY <1>3, <1>5

\* The codes of the tables are codes as they stand, and so is the one that the
\* generator damages a record with, which is in no table.
LEMMA ListedCodes ==
    /\ \A code \in Countries \cup Currencies \cup Industries : InCapitals(code) = code
    /\ InCapitals(Unlisted) = Unlisted /\ Unlisted \notin Countries
<1>1. PICK query \in Characters :
        query = Query /\ ~IsSpace(query) /\ ToUpper(query) = query
  BY CapitalCharacters
<1> DEFINE letters == {"U", "S", "B", "R", "D", "E", "J", "P", "I", "N", "Z", "A",
                       "L", "Y", "T", "C", "H", "M", "F", "G"}
           capital == letters \cup {query}
<1>2. ASSUME NEW code \in Seq(capital), code # <<>>
      PROVE  InCapitals(code) = code
  <2>1. \A c \in capital : c \in Characters /\ ~IsSpace(c) /\ ToUpper(c) = c
    BY <1>1, CapitalCharacters
  <2> HIDE DEF capital
  <2>2. code \in Texts
    <3>1. capital \subseteq Characters
      BY <2>1
    <3> QED BY <3>1, SeqMonotonic DEF Texts
  <2>3. \A n \in 1 .. Len(code) : ~IsSpace(code[n]) /\ ToUpper(code[n]) = code[n]
    BY <2>1, ElementOfSeq
  <2> QED BY <1>2, <2>2, <2>3, CodeOfWord DEF Word
<1>3. Countries \subseteq Seq(letters) /\ <<>> \notin Countries
  BY DEF Countries
<1>4. Currencies \subseteq Seq(letters) /\ <<>> \notin Currencies
  BY DEF Currencies
<1>5. Industries \subseteq Seq(letters) /\ <<>> \notin Industries
  BY DEF Industries
<1>6. PICK unlisted : unlisted = <<query, query>> /\ unlisted = Unlisted
  BY <1>1 DEF Unlisted
<1>7. unlisted \in Seq(capital) /\ unlisted # <<>>
  <2> HIDE DEF letters
  <2> QED BY <1>6
<1>8. unlisted \notin Countries
  <2>1. query \notin letters
    BY <1>1, CapitalCharacters
  <2>2. \A code \in Countries : code[1] \in letters
    BY DEF Countries
  <2> HIDE DEF letters
  <2>3. unlisted[1] = query
    BY <1>6
  <2> QED BY <2>1, <2>2, <2>3
<1> HIDE DEF letters
<1>9. \A code \in Seq(letters) : code \in Seq(capital)
  <2>1. letters \subseteq capital
    OBVIOUS
  <2> HIDE DEF capital
  <2> QED BY <2>1, SeqMonotonic
<1> HIDE DEF capital
<1> QED BY <1>2, <1>3, <1>4, <1>5, <1>6, <1>7, <1>8, <1>9

-----------------------------------------------------------------------------
(* What the oracle has after each of its functions.                        *)

\* In turn: normalize, enrich.
Normalized == Normalize(Decode(encoded))
Enriched == Enrich(Normalized)

\* The values the ratios are computed from, and the ratios and their flags.
ValuesOf(money) == [m \in MoneyFields |-> ValueOrZero(money[m])]
RatioOf(r) == LET term == Terms(ValuesOf(Enriched.money))[r]
              IN  Bp(term[1], term[2])
FlagsOf(r) == LET term == Terms(ValuesOf(Enriched.money))[r]
              IN  BpFlags(term[1], term[2])

\* The ratios in front of the k-th.
Before(k) == {RatioOrder[j] : j \in 1 .. k - 1}

\* Exactly the ratios from the k-th on are still to compute.
RatiosDone(k) ==
    /\ pending \in Seq(RatioFields)
    /\ Len(pending) = 8 - k
    /\ \A j \in 1 .. Len(pending) : pending[j] = RatioOrder[k + j - 1]
    /\ flags = Enriched.flags \cup MoneyFlags(Enriched.money)
               \cup UNION {FlagsOf(r) : r \in Before(k)}
    /\ ratios = [r \in RatioFields |-> ratios[r]]
    /\ \A r \in Before(k) : ratios[r] = RatioOf(r)

\* Where the worker is, and what it has.
RecordInv ==
    /\ step # "decode" => decoded = Decode(encoded)
    /\ step = "lookup" => record = Normalized
    /\ step \in {"money", "negative", "ratios"} => record = Enriched
    /\ step = "money" => flags = Enriched.flags
    /\ step = "negative" =>
         flags = Enriched.flags \cup (MoneyFlags(Enriched.money) \cap {"invalid_number"})
    /\ step \in {"decode", "normalize", "lookup", "money", "negative"} =>
         pending = RatioOrder /\ ratios = [r \in RatioFields |-> 0]
    /\ step = "ratios" => \E k \in 1 .. 8 : RatiosDone(k)
    /\ AgreesWithOracle

-----------------------------------------------------------------------------
\* normalize of solution 02 fills in what that of the oracle does.
LEMMA NormalizeAgrees ==
    ASSUME RecordInv, NormalizeRecord
    PROVE  record' = Normalized
<1> DEFINE raw == decoded.raw
           name == TitleCopy(raw.legal_name)
           unnamed == raw.company_id = "" \/ name = <<>> \/ raw.reporting_period = ""
           With(flagged) ==
               [company_id    |-> raw.company_id,
                legal_name    |-> name,
                address       |-> NormalizeAddress(raw.address),
                postal_code   |-> NormalizePostal(raw.postal_code),
                country_code  |-> UpperCode(raw.country_code),
                currency_code |-> UpperCode(raw.currency_code),
                industry_code |-> UpperCode(raw.industry_code),
                money         |-> raw.money,
                flags         |-> flagged]
<1>1. decoded = Decode(encoded) /\ step = "normalize"
  BY DEF RecordInv, NormalizeRecord, Goto
<1>2. CASE decoded.malformed
  BY <1>1, <1>2 DEF NormalizeRecord, Normalized, Normalize
<1>3. CASE ~decoded.malformed
  <2>1. With({}).company_id = raw.company_id /\ With({}).legal_name = name
    OBVIOUS
  <2>2. [With({}) EXCEPT !.flags = {"missing_required_text"}]
          = With({"missing_required_text"})
    OBVIOUS
  <2>3. record' = IF unnamed
                    THEN [With({}) EXCEPT !.flags = {"missing_required_text"}]
                    ELSE With({})
    BY <1>3, <2>1 DEF NormalizeRecord
  <2>4. Normalized = With({f \in {"missing_required_text"} : unnamed})
    BY <1>1, <1>3 DEF Normalized, Normalize
  <2>5. CASE unnamed
    <3>1. {f \in {"missing_required_text"} : unnamed} = {"missing_required_text"}
      BY <2>5
    <3> QED BY <2>2, <2>3, <2>4, <2>5, <3>1
  <2>6. CASE ~unnamed
    <3>1. {f \in {"missing_required_text"} : unnamed} = {}
      BY <2>6
    <3> QED BY <2>3, <2>4, <2>6, <3>1
  <2> QED BY <2>5, <2>6
<1> QED BY <1>2, <1>3

\* Each ratio is computed once.
LEMMA OrderFacts ==
    /\ RatioOrder \in Seq(RatioFields)
    /\ Len(RatioOrder) = 7
    /\ Before(1) = {}
    /\ Before(8) = RatioFields
    /\ \A k \in 1 .. 7 : /\ RatioOrder[k] \in RatioFields
                         /\ RatioOrder[k] \notin Before(k)
                         /\ Before(k + 1) = Before(k) \cup {RatioOrder[k]}
<1>1. RatioOrder \in Seq(RatioFields) /\ Len(RatioOrder) = 7
  BY DEF RatioOrder, RatioFields
<1>2. Before(1) = {}
  BY DEF Before
<1>3. Before(8) = RatioFields
  BY DEF Before, RatioOrder, RatioFields
<1>4. ASSUME NEW k \in 1 .. 7
      PROVE  /\ RatioOrder[k] \in RatioFields
             /\ Before(k + 1) = Before(k) \cup {RatioOrder[k]}
  <2>1. RatioOrder[k] \in RatioFields
    BY <1>1, ElementOfSeq
  <2>2. 1 .. (k + 1) - 1 = (1 .. k - 1) \cup {k}
    OBVIOUS
  <2> QED BY <2>1, <2>2 DEF Before
<1>5. ASSUME NEW k \in 1 .. 7
      PROVE  RatioOrder[k] \notin Before(k)
  BY DEF Before, RatioOrder
<1> QED BY <1>1, <1>2, <1>3, <1>4, <1>5

\* A call of bp takes one ratio off what is still to do.
LEMMA RatioAgrees ==
    ASSUME RecordInv, NextRatio
    PROVE  \E k \in 1 .. 8 : RatiosDone(k)'
<1>1. step = "ratios" /\ record = Enriched /\ pending # <<>>
  BY DEF RecordInv, NextRatio, Goto
<1>2. PICK k \in 1 .. 8 : RatiosDone(k)
  BY <1>1 DEF RecordInv
<1> DEFINE name == RatioOrder[k]
           term == Terms(ValuesOf(Enriched.money))[name]
<1>3. k \in 1 .. 7 /\ Head(pending) = name
  BY <1>1, <1>2, EmptySeq DEF RatiosDone
<1>4. /\ pending' = Tail(pending)
      /\ ratios' = [ratios EXCEPT ![name] = Bp(term[1], term[2])]
      /\ flags' = flags \cup BpFlags(term[1], term[2])
      /\ UNCHANGED <<encoded, decoded, record>>
  <2>1. PICK n, d : n = term[1] /\ d = term[2]
    OBVIOUS
  <2>2. /\ \/ /\ ~(IsFinite(n) /\ IsFinite(d))
              /\ flags' = flags \cup {"invalid_number"}
              /\ ratios' = [ratios EXCEPT ![name] = 0]
           \/ /\ IsFinite(n) /\ IsFinite(d) /\ d = 0
              /\ flags' = flags \cup {"zero_denominator"}
              /\ ratios' = [ratios EXCEPT ![name] = 0]
           \/ /\ IsFinite(n) /\ IsFinite(d) /\ d # 0
              /\ ratios' = [ratios EXCEPT ![name] = InBasisPoints(n, d)]
              /\ flags' = flags
        /\ pending' = Tail(pending)
        /\ UNCHANGED <<encoded, decoded, record>>
    BY <1>1, <1>3, <2>1 DEF NextRatio, ValuesOf
  <2>3. /\ ratios' = [ratios EXCEPT ![name] = Bp(n, d)]
        /\ flags' = flags \cup BpFlags(n, d)
    BY <2>2 DEF Bp, BpFlags
  <2> QED BY <2>1, <2>2, <2>3
<1>5. UNCHANGED Enriched
  BY <1>4 DEF Enriched, Normalized
<1>6. /\ Bp(term[1], term[2]) = RatioOf(name)
      /\ BpFlags(term[1], term[2]) = FlagsOf(name)
  BY DEF RatioOf, FlagsOf
<1> HIDE DEF name, term
<1>7. /\ name \in RatioFields /\ name \notin Before(k)
      /\ Before(k + 1) = Before(k) \cup {name}
  BY <1>3, OrderFacts DEF name
<1>8. /\ pending' \in Seq(RatioFields)
      /\ Len(pending') = 8 - (k + 1)
      /\ \A j \in 1 .. Len(pending') : pending'[j] = RatioOrder[(k + 1) + j - 1]
  <2>1. pending \in Seq(RatioFields) /\ Len(pending) = 8 - k
    BY <1>2 DEF RatiosDone
  <2>2. /\ pending' \in Seq(RatioFields)
        /\ Len(pending') = Len(pending) - 1
        /\ \A j \in 1 .. Len(pending') : pending'[j] = pending[j + 1]
    BY <1>1, <1>4, <2>1, HeadTailProperties
  <2>3. \A j \in 1 .. Len(pending') : pending'[j] = RatioOrder[(k + 1) + j - 1]
    BY <1>2, <1>3, <2>1, <2>2 DEF RatiosDone
  <2> QED BY <1>3, <2>1, <2>2, <2>3
<1>9. flags' = Enriched'.flags \cup MoneyFlags(Enriched'.money)
               \cup UNION {FlagsOf(r)' : r \in Before(k + 1)}
  <2>1. UNION {FlagsOf(r) : r \in Before(k) \cup {name}}
          = FlagsOf(name) \cup UNION {FlagsOf(r) : r \in Before(k)}
    OBVIOUS
  <2>2. \A r : FlagsOf(r)' = FlagsOf(r)
    BY <1>5 DEF FlagsOf
  <2> QED BY <1>2, <1>4, <1>5, <1>6, <1>7, <2>1, <2>2 DEF RatiosDone
<1>10. /\ ratios' = [r \in RatioFields |-> ratios'[r]]
       /\ \A r \in Before(k + 1) : ratios'[r] = RatioOf(r)'
  <2>1. \A r : RatioOf(r)' = RatioOf(r)
    BY <1>5 DEF RatioOf
  <2>2. ratios = [r \in RatioFields |-> ratios[r]]
    BY <1>2 DEF RatiosDone
  <2>3. Before(k) \subseteq RatioFields
    BY <1>3, OrderFacts, ElementOfSeq DEF Before
  <2> QED BY <1>2, <1>4, <1>6, <1>7, <2>1, <2>2, <2>3 DEF RatiosDone
<1>11. RatiosDone(k + 1)'
  BY <1>8, <1>9, <1>10 DEF RatiosDone, Before
<1> QED BY <1>3, <1>11

\* The record that is written is the oracle's.
LEMMA EmitAgrees ==
    ASSUME RecordInv, Emit
    PROVE  canonical' = ProcessOne(encoded)
<1>1. step = "ratios" /\ record = Enriched /\ pending = <<>>
  BY DEF RecordInv, Emit, Goto
<1>2. PICK k \in 1 .. 8 : RatiosDone(k)
  BY <1>1 DEF RecordInv
<1>3. k = 8
  BY <1>1, <1>2, EmptySeq DEF RatiosDone
<1>4. ratios = [r \in RatioFields |-> RatioOf(r)]
  BY <1>2, <1>3, OrderFacts DEF RatiosDone
<1>5. flags = Enriched.flags \cup MoneyFlags(Enriched.money)
              \cup UNION {FlagsOf(r) : r \in RatioFields}
  BY <1>2, <1>3, OrderFacts DEF RatiosDone
<1>6. ProcessOne(encoded) = Calculate(Enriched)
  BY DEF ProcessOne, Enriched, Normalized
<1> QED
  BY <1>1, <1>4, <1>5, <1>6 DEF Emit, Calculate, RatioOf, FlagsOf, ValuesOf

-----------------------------------------------------------------------------
\* RecordInv is inductive.
LEMMA RecordInvInit == Init => RecordInv
  BY DEF Init, RecordInv, AgreesWithOracle

\* Each step keeps it.
LEMMA RecordInvNext == RecordInv /\ [Next]_vars => RecordInv'
<1> SUFFICES ASSUME RecordInv, [Next]_vars PROVE RecordInv'
  OBVIOUS
<1>0. UNCHANGED encoded
  BY DEF Next, vars, DecodeRecord, NormalizeRecord, LookUp, CheckMoney,
     CheckNegative, NextRatio, Emit, Done
<1>e. Normalized' = Normalized /\ Enriched' = Enriched
  BY <1>0 DEF Normalized, Enriched
<1>1. CASE DecodeRecord
  BY <1>1 DEF DecodeRecord, Goto, RecordInv, AgreesWithOracle
<1>2. CASE NormalizeRecord
  <2>1. record' = Normalized'
    BY <1>2, <1>e, NormalizeAgrees
  <2> QED
    BY <1>2, <2>1 DEF NormalizeRecord, Goto, RecordInv, AgreesWithOracle
<1>3. CASE LookUp
  <2>1. record = Normalized
    BY <1>3 DEF LookUp, Goto, RecordInv
  <2>2. record' = Enriched /\ flags' = record'.flags
    BY <1>3, <2>1 DEF LookUp, Enriched, Enrich
  <2>3. record' = Enriched' /\ flags' = Enriched'.flags
    BY <1>e, <2>2
  <2> QED BY <1>3, <2>3 DEF LookUp, Goto, RecordInv, AgreesWithOracle
<1>4. CASE CheckMoney
  <2>1. /\ step = "money" /\ step' = "negative"
        /\ flags' = IF \E m \in MoneyFields : InvalidMoney(record.money[m])
                      THEN flags \cup {"invalid_number"} ELSE flags
        /\ UNCHANGED <<decoded, record, ratios, pending>>
    BY <1>4 DEF CheckMoney, Goto
  <2>2. record = Enriched /\ flags = Enriched.flags
    BY <2>1 DEF RecordInv
  <2>3. MoneyFlags(record.money) \cap {"invalid_number"}
          = {f \in {"invalid_number"} : \E m \in MoneyFields : InvalidMoney(record.money[m])}
    BY DEF MoneyFlags
  <2>4. flags' = Enriched.flags \cup (MoneyFlags(Enriched.money) \cap {"invalid_number"})
    BY <2>1, <2>2, <2>3
  <2> QED BY <1>0, <1>e, <2>1, <2>4 DEF RecordInv, AgreesWithOracle
<1>8. CASE CheckNegative
  <2> DEFINE money == record.money
             six == {"revenue", "current_assets", "current_liabilities",
                     "total_assets", "total_debt", "shareholder_equity"}
             marks == IF \E m \in six : Negative(money[m])
                        THEN {"invalid_accounting"} ELSE {}
  <2>1. /\ step = "negative" /\ step' = "ratios"
        /\ UNCHANGED <<decoded, record, ratios, pending>>
    BY <1>8 DEF CheckNegative, Goto
  <2>2. flags' = flags \cup marks
    <3>1. (\E m \in six : Negative(money[m]))
            <=> \/ Negative(money["revenue"]) \/ Negative(money["current_assets"])
                \/ Negative(money["current_liabilities"])
                \/ Negative(money["total_assets"]) \/ Negative(money["total_debt"])
                \/ Negative(money["shareholder_equity"])
      OBVIOUS
    <3> QED BY <1>8, <3>1 DEF CheckNegative
  <2>3. record = Enriched
        /\ flags = Enriched.flags \cup (MoneyFlags(Enriched.money) \cap {"invalid_number"})
    BY <2>1 DEF RecordInv
  <2>4. MoneyFlags(money) = (MoneyFlags(money) \cap {"invalid_number"}) \cup marks
    BY DEF MoneyFlags
  <2>5. flags' = Enriched.flags \cup MoneyFlags(Enriched.money)
    <3> HIDE DEF marks
    <3> QED BY <2>2, <2>3, <2>4
  <2>6. pending' = RatioOrder /\ ratios' = [r \in RatioFields |-> 0]
    BY <2>1 DEF RecordInv
  <2>7. RatiosDone(1)'
    BY <1>e, <2>5, <2>6, OrderFacts DEF RatiosDone
  <2> QED BY <1>0, <1>e, <2>1, <2>7 DEF RecordInv, AgreesWithOracle
<1>5. CASE NextRatio
  <2>1. \E k \in 1 .. 8 : RatiosDone(k)'
    BY <1>5, RatioAgrees
  <2> QED
    BY <1>0, <1>e, <1>5, <2>1 DEF NextRatio, Goto, RecordInv, AgreesWithOracle
<1>6. CASE Emit
  <2>1. canonical' = ProcessOne(encoded')
    BY <1>0, <1>6, EmitAgrees
  <2> QED
    BY <1>0, <1>e, <1>6, <2>1 DEF Emit, Goto, RecordInv, AgreesWithOracle
<1>7. CASE UNCHANGED vars
  <2>1. ASSUME NEW k \in 1 .. 8, RatiosDone(k)
        PROVE  RatiosDone(k)'
    <3>1. \A r : RatioOf(r)' = RatioOf(r) /\ FlagsOf(r)' = FlagsOf(r)
      BY <1>e DEF RatioOf, FlagsOf
    <3>2. UNCHANGED <<pending, flags, ratios>>
      BY <1>7 DEF vars
    <3>3. /\ UNION {FlagsOf(r)' : r \in Before(k)}
               = UNION {FlagsOf(r) : r \in Before(k)}
          /\ \A r \in Before(k) : ratios'[r] = RatioOf(r)'
      BY <2>1, <3>1, <3>2 DEF RatiosDone
    <3> QED BY <1>e, <2>1, <3>2, <3>3 DEF RatiosDone, Before
  <2> QED BY <1>e, <1>7, <2>1 DEF vars, RecordInv, AgreesWithOracle
<1> QED BY <1>1, <1>2, <1>3, <1>4, <1>5, <1>6, <1>7, <1>8 DEF Next, Done

\* A record that went through solution 02 is the oracle's: the same texts,
\* ratios, flags and class, for every encoded record.
THEOREM RecordAgrees == Spec => []AgreesWithOracle
<1>1. RecordInv => AgreesWithOracle
  BY DEF RecordInv
<1> QED BY <1>1, RecordInvInit, RecordInvNext, PTL DEF Spec

-----------------------------------------------------------------------------
(* The texts of a result.                                                  *)

\* What is decoded has texts and amounts, also from a malformed payload.
IsRaw(raw) ==
    /\ raw.legal_name \in Texts /\ raw.address \in Texts /\ raw.postal_code \in Texts
    /\ raw.country_code \in Texts /\ raw.currency_code \in Texts
    /\ raw.industry_code \in Texts
    /\ raw.money \in [MoneyFields -> Amounts]

\* It does.
LEMMA RawIs ==
    ASSUME encoded \in Inputs
    PROVE  /\ encoded.malformed \in BOOLEAN
           /\ IsRaw(Decode(encoded).raw)
           /\ Decode(encoded).malformed = encoded.malformed
           /\ encoded.malformed => Decode(encoded).raw = DefaultRaw
           /\ ~encoded.malformed => Decode(encoded).raw = encoded.raw
<1>1. encoded.malformed \in BOOLEAN /\ encoded.raw \in RawRecords
  BY InputsAssumption
<1>2. IsRaw(encoded.raw)
  BY <1>1 DEF RawRecords, IsRaw
<1>3. IsRaw(DefaultRaw)
  <2>1. DefaultRaw.money \in [MoneyFields -> Amounts]
    BY DEF DefaultRaw, Amounts
  <2>2. <<>> \in Texts
    BY TextFacts
  <2> HIDE DEF MoneyFields, Amounts
  <2> QED BY <2>1, <2>2 DEF DefaultRaw, IsRaw
<1> QED BY <1>1, <1>2, <1>3 DEF Decode

\* What enrich and calculate make of a normalized record.
LEMMA ResultOf ==
    ASSUME NEW i, NEW n, NEW a, NEW p, NEW c, NEW u, NEW d, NEW money, NEW raised,
           NEW N, N = [company_id |-> i, legal_name |-> n, address |-> a,
                       postal_code |-> p, country_code |-> c, currency_code |-> u,
                       industry_code |-> d, money |-> money, flags |-> raised],
           NEW result, result = Calculate(Enrich(N))
    PROVE  /\ result.legal_name = n /\ result.address = a /\ result.postal_code = p
           /\ result.country_code = c /\ result.currency_code = u
           /\ result.industry_code = d
           /\ result.flags = raised \cup UnknownFlags(c, u, d) \cup MoneyFlags(money)
                \cup UNION {BpFlags(Terms(ValuesOf(money))[r][1],
                                    Terms(ValuesOf(money))[r][2]) : r \in RatioFields}
           /\ \E terms : result.risk_class = Classify(terms, result.flags)
<1>1. PICK marked : marked = raised \cup UnknownFlags(c, u, d)
  OBVIOUS
<1>2. Enrich(N)
        = [company_id |-> i, legal_name |-> n, address |-> a, postal_code |-> p,
           country_code |-> c, currency_code |-> u, industry_code |-> d,
           money |-> money, flags |-> marked]
  BY <1>1 DEF Enrich
<1>3. PICK E : E = Enrich(N)
  OBVIOUS
<1>4. /\ E.legal_name = n /\ E.address = a /\ E.postal_code = p
      /\ E.country_code = c /\ E.currency_code = u /\ E.industry_code = d
      /\ E.money = money /\ E.flags = marked
  BY <1>2, <1>3
<1>5. PICK all : all = E.flags \cup MoneyFlags(E.money)
                \cup UNION {BpFlags(Terms(ValuesOf(E.money))[r][1],
                                    Terms(ValuesOf(E.money))[r][2]) : r \in RatioFields}
  OBVIOUS
<1>6. PICK ratio : ratio = [r \in RatioFields |-> Bp(Terms(ValuesOf(E.money))[r][1],
                                                  Terms(ValuesOf(E.money))[r][2])]
  OBVIOUS
<1>7. PICK terms : terms = ScoreTerms(E.country_code, E.industry_code, ratio)
  OBVIOUS
<1>8. /\ result.legal_name = E.legal_name /\ result.address = E.address
      /\ result.postal_code = E.postal_code /\ result.country_code = E.country_code
      /\ result.currency_code = E.currency_code
      /\ result.industry_code = E.industry_code /\ result.flags = all
      /\ result.risk_class = Classify(terms, all)
  BY <1>3, <1>5, <1>6, <1>7 DEF Calculate, ValuesOf
<1>9. result.flags = raised \cup UnknownFlags(c, u, d) \cup MoneyFlags(money)
                \cup UNION {BpFlags(Terms(ValuesOf(money))[r][1],
                                    Terms(ValuesOf(money))[r][2]) : r \in RatioFields}
  BY <1>1, <1>4, <1>5, <1>8
<1>10. result.risk_class = Classify(terms, result.flags)
  BY <1>8
<1> QED BY <1>4, <1>8, <1>9, <1>10

\* The result of a record that is not malformed has its texts normalized.
LEMMA TextsOf ==
    ASSUME encoded \in Inputs, ~encoded.malformed
    PROVE  LET raw == Decode(encoded).raw
               result == ProcessOne(encoded)
           IN  /\ result.legal_name = TitleCopy(raw.legal_name)
               /\ result.address = NormalizeAddress(raw.address)
               /\ result.postal_code = NormalizePostal(raw.postal_code)
               /\ result.country_code = UpperCode(raw.country_code)
               /\ result.currency_code = UpperCode(raw.currency_code)
               /\ result.industry_code = UpperCode(raw.industry_code)
<1>1. PICK raw : raw = Decode(encoded).raw
  OBVIOUS
<1>2. ~Decode(encoded).malformed
  BY RawIs
<1>3. PICK raised : Normalize(Decode(encoded)) =
         [company_id |-> raw.company_id, legal_name |-> TitleCopy(raw.legal_name),
                address |-> NormalizeAddress(raw.address),
                postal_code |-> NormalizePostal(raw.postal_code),
                country_code |-> UpperCode(raw.country_code),
                currency_code |-> UpperCode(raw.currency_code),
                industry_code |-> UpperCode(raw.industry_code),
                money |-> raw.money,
                flags |-> raised]
  BY <1>1, <1>2 DEF Normalize
<1> QED BY <1>1, <1>3, ResultOf DEF ProcessOne

\* The texts of the result are those the properties ask for.
LEMMA TextsFollow ==
    ASSUME RecordInv, encoded \in Inputs
    PROVE  TextsAreNormal
<1> SUFFICES ASSUME step = "done", ~encoded.malformed PROVE TextsAreNormal
  BY DEF TextsAreNormal
<1>1. decoded = Decode(encoded) /\ canonical = ProcessOne(encoded)
  BY DEF RecordInv, AgreesWithOracle
<1>2. PICK raw : raw = decoded.raw
  OBVIOUS
<1>3. /\ raw.legal_name \in Texts /\ raw.address \in Texts
      /\ raw.postal_code \in Texts
      /\ raw.country_code \in Texts /\ raw.currency_code \in Texts
      /\ raw.industry_code \in Texts
  BY <1>1, <1>2, RawIs DEF IsRaw
<1>4. /\ canonical.legal_name = TitleCopy(raw.legal_name)
      /\ canonical.address = NormalizeAddress(raw.address)
      /\ canonical.postal_code = NormalizePostal(raw.postal_code)
      /\ canonical.country_code = UpperCode(raw.country_code)
      /\ canonical.currency_code = UpperCode(raw.currency_code)
      /\ canonical.industry_code = UpperCode(raw.industry_code)
  BY <1>1, <1>2, TextsOf
<1>5. /\ canonical.legal_name = Spaced(Words(raw.legal_name))
      /\ TitleCopy(canonical.legal_name) = canonical.legal_name
  BY <1>3, <1>4, TitleWords, TitleAgain
<1>6. LET address == Words(raw.address)
      IN  canonical.address
            = Spaced([k \in DOMAIN address |->
                        IF k = 1 THEN address[k] ELSE WrittenOut(address[k])])
  BY <1>3, <1>4, AddressIs
<1>7. NormalizeAddress(canonical.address) = canonical.address
  BY <1>3, <1>4, AddressAgain
<1>8. NormalizePostal(canonical.postal_code) = canonical.postal_code
  BY <1>3, <1>4, PostalAgain
<1> DEFINE written == raw.postal_code
           alnums == {i \in DOMAIN written : IsAlnum(written[i])}
           code == canonical.postal_code
<1>9. /\ Len(code) = Cardinality(alnums)
      /\ \A i \in alnums :
            code[Cardinality({j \in alnums : j <= i})] = ToUpper(written[i])
  <2>1. PICK n \in Nat : n = Len(written) /\ DOMAIN written = 1 .. n
    BY <1>3, LenProperties DEF Texts
  <2>2. IsCode(code, written, n)
    BY <1>3, <1>4, <2>1, PostalIs
  <2>3. alnums = Alnums(written, n)
    BY <2>1 DEF Alnums
  <2>4. ASSUME NEW i \in alnums
        PROVE  {j \in alnums : j <= i} = Alnums(written, i)
    BY <2>1 DEF Alnums
  <2> HIDE DEF alnums, code, written
  <2> QED BY <2>2, <2>3, <2>4 DEF IsCode
<1> HIDE DEF code
<1> DEFINE capital(given, made) == made = InCapitals(given) /\ UpperCode(made) = made
<1>10. /\ capital(raw.country_code, canonical.country_code)
       /\ capital(raw.currency_code, canonical.currency_code)
       /\ capital(raw.industry_code, canonical.industry_code)
  BY <1>3, <1>4, CodeIs
<1> USE DEF code
<1> QED BY <1>2, <1>5, <1>6, <1>7, <1>8, <1>9, <1>10 DEF TextsAreNormal

-----------------------------------------------------------------------------
(* The flags of a result.                                                  *)

\* What may be raised by a ratio.
Odd(n, d) == ~IsFinite(n) \/ ~IsFinite(d)
Zero(n, d) == IsFinite(n) /\ IsFinite(d) /\ d = 0

\* The flags that each check raises.
LEMMA RaisedBy ==
    ASSUME NEW x, NEW c, NEW u, NEW d, NEW money, NEW n, NEW m
    PROVE  /\ x \in UnknownFlags(c, u, d) <=>
                \/ x = "unknown_country" /\ c \notin DOMAIN CountryRisk
                \/ x = "unknown_currency" /\ u \notin Currencies
                \/ x = "unknown_industry" /\ d \notin DOMAIN IndustryRisk
           /\ x \in MoneyFlags(money) <=>
                \/ x = "invalid_number" /\ \E f \in MoneyFields : InvalidMoney(money[f])
                \/ /\ x = "invalid_accounting"
                   /\ \E f \in {"revenue", "current_assets", "current_liabilities",
                                "total_assets", "total_debt", "shareholder_equity"} :
                        Negative(money[f])
           /\ x \in BpFlags(n, m) <=>
                \/ x = "invalid_number" /\ Odd(n, m)
                \/ x = "zero_denominator" /\ Zero(n, m)
<1>1. x \in UnknownFlags(c, u, d) <=>
                \/ x = "unknown_country" /\ c \notin DOMAIN CountryRisk
                \/ x = "unknown_currency" /\ u \notin Currencies
                \/ x = "unknown_industry" /\ d \notin DOMAIN IndustryRisk
  BY DEF UnknownFlags
<1>2. x \in MoneyFlags(money) <=>
                \/ x = "invalid_number" /\ \E f \in MoneyFields : InvalidMoney(money[f])
                \/ /\ x = "invalid_accounting"
                   /\ \E f \in {"revenue", "current_assets", "current_liabilities",
                                "total_assets", "total_debt", "shareholder_equity"} :
                        Negative(money[f])
  BY DEF MoneyFlags
<1>3. x \in BpFlags(n, m) <=>
                \/ x = "invalid_number" /\ Odd(n, m)
                \/ x = "zero_denominator" /\ Zero(n, m)
  BY DEF BpFlags, Odd, Zero
<1> QED BY <1>1, <1>2, <1>3

\* The numerators and denominators by name.
LEMMA RatioTerms ==
    ASSUME NEW v
    PROVE  /\ Terms(v)["operating_margin"] = <<v.operating_profit, v.revenue>>
           /\ Terms(v)["net_margin"] = <<v.net_income, v.revenue>>
           /\ Terms(v)["current_ratio"] = <<v.current_assets, v.current_liabilities>>
           /\ Terms(v)["debt_to_equity"] = <<v.total_debt, v.shareholder_equity>>
           /\ Terms(v)["return_on_assets"] = <<v.net_income, v.total_assets>>
           /\ Terms(v)["revenue_growth"]
                = <<Minus(v.revenue, v.previous_revenue), v.previous_revenue>>
           /\ Terms(v)["profit_growth"]
                = <<Minus(v.operating_profit, v.previous_profit), v.previous_profit>>
  BY DEF Terms

\* Some ratio of the amounts v is odd, or has no denominator.
SomeOdd(v) ==
    \/ Odd(v.operating_profit, v.revenue) \/ Odd(v.net_income, v.revenue)
    \/ Odd(v.current_assets, v.current_liabilities)
    \/ Odd(v.total_debt, v.shareholder_equity) \/ Odd(v.net_income, v.total_assets)
    \/ Odd(Minus(v.revenue, v.previous_revenue), v.previous_revenue)
    \/ Odd(Minus(v.operating_profit, v.previous_profit), v.previous_profit)
SomeZero(v) ==
    \/ Zero(v.operating_profit, v.revenue) \/ Zero(v.net_income, v.revenue)
    \/ Zero(v.current_assets, v.current_liabilities)
    \/ Zero(v.total_debt, v.shareholder_equity) \/ Zero(v.net_income, v.total_assets)
    \/ Zero(Minus(v.revenue, v.previous_revenue), v.previous_revenue)
    \/ Zero(Minus(v.operating_profit, v.previous_profit), v.previous_profit)

\* The seven ratios one by one.
LEMMA SomeRatio ==
    ASSUME NEW v
    PROVE  /\ SomeOdd(v) <=> \E r \in RatioFields : Odd(Terms(v)[r][1], Terms(v)[r][2])
           /\ SomeZero(v) <=> \E r \in RatioFields : Zero(Terms(v)[r][1], Terms(v)[r][2])
<1>1. PICK t : t = Terms(v)
  OBVIOUS
<1>2. \A r : r \in RatioFields <=>
         \/ r = "operating_margin" \/ r = "net_margin" \/ r = "current_ratio"
         \/ r = "debt_to_equity" \/ r = "return_on_assets" \/ r = "revenue_growth"
         \/ r = "profit_growth"
  BY DEF RatioFields
<1>3. PICK gap, change : /\ gap = Minus(v.revenue, v.previous_revenue)
                         /\ change = Minus(v.operating_profit, v.previous_profit)
  OBVIOUS
<1>4. /\ t["operating_margin"] = <<v.operating_profit, v.revenue>>
      /\ t["net_margin"] = <<v.net_income, v.revenue>>
      /\ t["current_ratio"] = <<v.current_assets, v.current_liabilities>>
      /\ t["debt_to_equity"] = <<v.total_debt, v.shareholder_equity>>
      /\ t["return_on_assets"] = <<v.net_income, v.total_assets>>
      /\ t["revenue_growth"] = <<gap, v.previous_revenue>>
      /\ t["profit_growth"] = <<change, v.previous_profit>>
  BY <1>1, <1>3, RatioTerms
<1>5. SomeOdd(v) <=> \E r \in RatioFields : Odd(t[r][1], t[r][2])
  BY <1>2, <1>3, <1>4 DEF SomeOdd
<1>6. SomeZero(v) <=> \E r \in RatioFields : Zero(t[r][1], t[r][2])
  BY <1>2, <1>3, <1>4 DEF SomeZero
<1> QED BY <1>1, <1>5, <1>6

\* The name, the identity or the period is missing.
Unnamed(raw) ==
    \/ raw.company_id = "" \/ TitleCopy(raw.legal_name) = <<>>
    \/ raw.reporting_period = ""

\* When each flag is in a result.
RaisedIn(x, raw, unnamed) ==
    \/ x = "missing_required_text" /\ unnamed
    \/ x = "unknown_country" /\ UpperCode(raw.country_code) \notin DOMAIN CountryRisk
    \/ x = "unknown_currency" /\ UpperCode(raw.currency_code) \notin Currencies
    \/ x = "unknown_industry" /\ UpperCode(raw.industry_code) \notin DOMAIN IndustryRisk
    \/ x = "invalid_number" /\ \/ \E f \in MoneyFields : InvalidMoney(raw.money[f])
                               \/ SomeOdd(ValuesOf(raw.money))
    \/ x = "zero_denominator" /\ SomeZero(ValuesOf(raw.money))
    \/ /\ x = "invalid_accounting"
       /\ \E f \in {"revenue", "current_assets", "current_liabilities",
                    "total_assets", "total_debt", "shareholder_equity"} :
                        Negative(raw.money[f])

\* The flags of a result are these and no others.
LEMMA FlagsOfResult ==
    ASSUME encoded \in Inputs, NEW raw, raw = Decode(encoded).raw
    PROVE  /\ \A x : x \in ProcessOne(encoded).flags
                       <=> RaisedIn(x, raw, encoded.malformed \/ Unnamed(raw))
           /\ \E terms : ProcessOne(encoded).risk_class
                           = Classify(terms, ProcessOne(encoded).flags)
<1>1. PICK unnamed \in BOOLEAN : unnamed <=> encoded.malformed \/ Unnamed(raw)
  BY Zenon
<1>2. PICK i, n, a, p, raised, N :
         /\ N = Normalize(Decode(encoded))
         /\ N = [company_id |-> i, legal_name |-> n, address |-> a, postal_code |-> p,
                 country_code |-> UpperCode(raw.country_code),
                 currency_code |-> UpperCode(raw.currency_code),
                 industry_code |-> UpperCode(raw.industry_code),
                 money |-> raw.money, flags |-> raised]
         /\ \A x : x \in raised <=> x = "missing_required_text" /\ unnamed
  <2>1. CASE encoded.malformed
    <3>1. Decode(encoded).malformed /\ raw = DefaultRaw
      BY <2>1, RawIs
    <3>2. /\ /\ UpperCode(raw.country_code) = <<>>
          /\ UpperCode(raw.currency_code) = <<>>
          /\ UpperCode(raw.industry_code) = <<>>
      <4>1. PICK code : code = <<>>
        OBVIOUS
      <4>2. UpperCode(code) = code
        <5>1. CollapseWs(code) = code
          BY <4>1, TextFacts, CollapseIs, SplitNone, SpacedNone
        <5> QED BY <4>1, <5>1, UpperConcat DEF UpperCode
      <4>3. /\ raw.country_code = code /\ raw.currency_code = code
            /\ raw.industry_code = code
        <5>1. PICK money, none : money = [f \in MoneyFields |-> Missing] /\ none = ""
          OBVIOUS
        <5>2. DefaultRaw =
                [company_id |-> none, legal_name |-> code, address |-> code,
                 postal_code |-> code, reporting_period |-> none,
                 country_code |-> code, currency_code |-> code, industry_code |-> code,
                 money |-> money]
          BY <4>1, <5>1, Zenon DEF DefaultRaw
        <5>3. /\ /\ DefaultRaw.country_code = code
              /\ DefaultRaw.currency_code = code
              /\ DefaultRaw.industry_code = code
          BY <5>2
        <5> QED BY <3>1, <5>3
      <4> QED BY <4>1, <4>2, <4>3
    <3>3. unnamed
      BY <1>1, <2>1
    <3>4. \A x : x \in {"missing_required_text"} <=> x = "missing_required_text" /\ unnamed
      BY <3>3
    <3> QED BY <3>1, <3>2, <3>4 DEF Normalize
  <2>2. CASE ~encoded.malformed
    <3>1. ~Decode(encoded).malformed
      BY <2>2, RawIs
    <3>2. unnamed <=> Unnamed(raw)
      BY <1>1, <2>2
    <3>3. PICK raised : raised = {f \in {"missing_required_text"} : Unnamed(raw)}
      OBVIOUS
    <3>4. \A x : x \in raised <=> x = "missing_required_text" /\ unnamed
      BY <3>2, <3>3
    <3>5. Normalize(Decode(encoded)) =
         [company_id |-> raw.company_id, legal_name |-> TitleCopy(raw.legal_name),
                address |-> NormalizeAddress(raw.address),
                postal_code |-> NormalizePostal(raw.postal_code),
                country_code |-> UpperCode(raw.country_code),
                currency_code |-> UpperCode(raw.currency_code),
                industry_code |-> UpperCode(raw.industry_code),
                money |-> raw.money,
                flags |-> raised]
      BY <3>1, <3>3 DEF Normalize, Unnamed
    <3> QED BY <3>4, <3>5
  <2> QED BY <2>1, <2>2, RawIs
<1>3. PICK c, u, d, money, v : /\ c = UpperCode(raw.country_code)
                         /\ u = UpperCode(raw.currency_code)
                         /\ d = UpperCode(raw.industry_code)
                         /\ money = raw.money /\ v = ValuesOf(money)
  OBVIOUS
<1>4. PICK result : result = Calculate(Enrich(N)) /\ result = ProcessOne(encoded)
  BY <1>2 DEF ProcessOne
<1>5. /\ result.flags = raised \cup UnknownFlags(c, u, d) \cup MoneyFlags(money)
            \cup UNION {BpFlags(Terms(v)[r][1], Terms(v)[r][2]) : r \in RatioFields}
      /\ \E terms : result.risk_class = Classify(terms, result.flags)
  <2>1. result = Calculate(Enrich(N))
        /\ N = [company_id |-> i, legal_name |-> n, address |-> a, postal_code |-> p,
                 country_code |-> c, currency_code |-> u, industry_code |-> d,
                 money |-> money, flags |-> raised]
    BY <1>2, <1>3, <1>4
  <2>2. result.flags = raised \cup UnknownFlags(c, u, d) \cup MoneyFlags(money)
            \cup UNION {BpFlags(Terms(ValuesOf(money))[r][1],
                                Terms(ValuesOf(money))[r][2]) : r \in RatioFields}
    BY <2>1, ResultOf
  <2>3. \E terms : result.risk_class = Classify(terms, result.flags)
    BY <2>1, ResultOf
  <2> QED BY <1>3, <2>2, <2>3
<1>6. ASSUME NEW x
      PROVE  x \in result.flags <=>
                  \/ x \in raised \/ x \in UnknownFlags(c, u, d) \/ x \in MoneyFlags(money)
                  \/ \E r \in RatioFields : x \in BpFlags(Terms(v)[r][1], Terms(v)[r][2])
  BY <1>5
<1>7. ASSUME NEW x
      PROVE  (\E r \in RatioFields : x \in BpFlags(Terms(v)[r][1], Terms(v)[r][2]))
               <=> \/ x = "invalid_number" /\ SomeOdd(v)
                   \/ x = "zero_denominator" /\ SomeZero(v)
  <2>1. \A r \in RatioFields : x \in BpFlags(Terms(v)[r][1], Terms(v)[r][2])
          <=> \/ x = "invalid_number" /\ Odd(Terms(v)[r][1], Terms(v)[r][2])
              \/ x = "zero_denominator" /\ Zero(Terms(v)[r][1], Terms(v)[r][2])
    BY RaisedBy
  <2> QED BY <2>1, SomeRatio
<1>8. ASSUME NEW x
      PROVE  x \in result.flags <=> RaisedIn(x, raw, unnamed)
  BY <1>2, <1>3, <1>6, <1>7, RaisedBy DEF RaisedIn
<1>9. \A x : x \in result.flags <=> RaisedIn(x, raw, encoded.malformed \/ Unnamed(raw))
  BY <1>1, <1>8 DEF RaisedIn
<1> QED BY <1>4, <1>5, <1>9

\* The amounts that are none are no numbers, and differ.
LEMMA NoAmounts ==
    /\ Missing \notin NonFinite
    /\ \A x \in {Missing} \cup NonFinite : x \notin -2 * MaxFinite .. 2 * MaxFinite
<1>1. ASSUME Missing \in NonFinite
      PROVE  FALSE
  <2>1. {Missing} \cup NonFinite = {NaN, PlusInfinity} \cup {MinusInfinity}
    BY <1>1 DEF NonFinite
  <2>2. IsFiniteSet({NaN}) /\ Cardinality({NaN}) = 1
    BY FS_Singleton
  <2>3. /\ IsFiniteSet({NaN, PlusInfinity})
        /\ Cardinality({NaN, PlusInfinity}) <= 2
    <3>1. {NaN, PlusInfinity} = {NaN} \cup {PlusInfinity}
      OBVIOUS
    <3> QED BY <2>2, <3>1, FS_AddElement
  <2>4. Cardinality({NaN, PlusInfinity}) \in Nat
    BY <2>3, FS_CardinalityType
  <2>5. Cardinality({NaN, PlusInfinity} \cup {MinusInfinity}) <= 3
    BY <2>3, <2>4, FS_AddElement
  <2> QED BY <2>1, <2>5, RulesAssumption
<1> QED BY <1>1, RulesAssumption

\* What an amount is worth in a ratio.
LEMMA AmountFacts ==
    ASSUME NEW x \in Amounts, NEW v, v = ValueOrZero(x)
    PROVE  /\ IsFinite(v) <=> x \notin NonFinite
           /\ IsFinite(v) => v \in -MaxFinite .. MaxFinite
           /\ ~IsFinite(v) => v \notin -MaxFinite .. MaxFinite
           /\ IsFinite(v) /\ v = 0 <=> x \in {Missing, 0}
           /\ InvalidMoney(x) <=> x \in NonFinite
<1>1. 0 \notin {Missing} \cup NonFinite /\ MaxFinite \in Nat
      /\ -MaxFinite .. MaxFinite \subseteq -2 * MaxFinite .. 2 * MaxFinite
  BY NoAmounts, RulesAssumption
<1>2. CASE x = Missing
  BY <1>1, <1>2, NoAmounts DEF ValueOrZero, IsFinite, InvalidMoney
<1>3. CASE x \in NonFinite
  BY <1>1, <1>3, NoAmounts DEF ValueOrZero, IsFinite, InvalidMoney
<1>4. CASE x \in -MaxFinite .. MaxFinite
  BY <1>1, <1>4, NoAmounts DEF ValueOrZero, IsFinite, InvalidMoney
<1> QED BY <1>2, <1>3, <1>4 DEF Amounts

\* When a difference is finite.
LEMMA MinusFacts ==
    ASSUME NEW x, NEW y, IsFinite(x) => x \in -MaxFinite .. MaxFinite,
           IsFinite(y) => y \in -MaxFinite .. MaxFinite
    PROVE  /\ IsFinite(Minus(x, y)) <=>
                IsFinite(x) /\ IsFinite(y) /\ x - y \in -MaxFinite .. MaxFinite
           /\ IsFinite(x) /\ IsFinite(y) /\ y = 0 => IsFinite(Minus(x, y))
<1>0. MaxFinite \in Nat
  BY RulesAssumption
<1>1. CASE IsFinite(x) /\ IsFinite(y)
  <2>1. x \in Int /\ y \in Int /\ x - y \in -2 * MaxFinite .. 2 * MaxFinite
    BY <1>0, <1>1
  <2>2. x - y \notin NonFinite
    BY <2>1, NoAmounts
  <2>3. ~IsFinite(PlusInfinity) /\ ~IsFinite(MinusInfinity)
    BY DEF IsFinite, NonFinite
  <2>4. y = 0 => x - y = x
    BY <2>1
  <2> QED BY <1>0, <1>1, <2>1, <2>2, <2>3, <2>4 DEF Minus, IsFinite
<1>2. CASE ~(IsFinite(x) /\ IsFinite(y))
  <2>1. ~IsFinite(NaN)
    BY DEF IsFinite, NonFinite
  <2> QED BY <1>2, <2>1 DEF Minus
<1> QED BY <1>1, <1>2

\* When a ratio is odd or has no denominator, in terms of the amounts.
LEMMA RatiosRaise ==
    ASSUME NEW money \in [MoneyFields -> Amounts]
    PROVE  LET nothing(m) == money[m] \in {Missing, 0}
               finite(m) == money[m] \notin NonFinite
               beyond(x, y) == /\ finite(x) /\ finite(y)
                            /\ LET gap == ValueOrZero(money[x]) - ValueOrZero(money[y])
                               IN  gap \notin -MaxFinite .. MaxFinite
           IN  /\ \/ \E f \in MoneyFields : InvalidMoney(money[f])
                  \/ SomeOdd(ValuesOf(money))
                  <=> \/ \E m \in MoneyFields : ~finite(m)
                      \/ beyond("revenue", "previous_revenue")
                      \/ beyond("operating_profit", "previous_profit")
               /\ SomeZero(ValuesOf(money)) <=>
                 \/ nothing("revenue") /\ (finite("operating_profit")
                                           \/ finite("net_income"))
                 \/ nothing("current_liabilities") /\ finite("current_assets")
                 \/ nothing("shareholder_equity") /\ finite("total_debt")
                 \/ nothing("total_assets") /\ finite("net_income")
                 \/ nothing("previous_revenue") /\ finite("revenue")
                 \/ nothing("previous_profit") /\ finite("operating_profit")
<1> DEFINE nothing(m) == money[m] \in {Missing, 0}
           finite(m) == money[m] \notin NonFinite
<1>1. PICK v : v = ValuesOf(money)
  OBVIOUS
<1>2. \A m \in MoneyFields : /\ v[m] = ValueOrZero(money[m])
                             /\ IsFinite(v[m]) <=> finite(m)
                             /\ IsFinite(v[m]) => v[m] \in -MaxFinite .. MaxFinite
                             /\ IsFinite(v[m]) /\ v[m] = 0 <=> nothing(m)
                             /\ InvalidMoney(money[m]) <=> ~finite(m)
  <2> SUFFICES ASSUME NEW m \in MoneyFields
               PROVE  /\ v[m] = ValueOrZero(money[m])
                      /\ IsFinite(v[m]) <=> finite(m)
                      /\ IsFinite(v[m]) => v[m] \in -MaxFinite .. MaxFinite
                      /\ IsFinite(v[m]) /\ v[m] = 0 <=> nothing(m)
                      /\ InvalidMoney(money[m]) <=> ~finite(m)
    BY Zenon
  <2>1. PICK x, w : x \in Amounts /\ x = money[m] /\ w = v[m]
    OBVIOUS
  <2>2. w = ValueOrZero(x)
    BY <1>1, <2>1 DEF ValuesOf
  <2>3. /\ IsFinite(w) <=> x \notin NonFinite
        /\ IsFinite(w) => w \in -MaxFinite .. MaxFinite
        /\ IsFinite(w) /\ w = 0 <=> x \in {Missing, 0}
        /\ InvalidMoney(x) <=> x \in NonFinite
    BY <2>1, <2>2, AmountFacts
  <2> QED BY <2>1, <2>2, <2>3
<1> HIDE DEF nothing, finite
<1>3. /\ "revenue" \in MoneyFields /\ "operating_profit" \in MoneyFields
      /\ "net_income" \in MoneyFields /\ "current_assets" \in MoneyFields
      /\ "current_liabilities" \in MoneyFields /\ "total_assets" \in MoneyFields
      /\ "total_debt" \in MoneyFields /\ "shareholder_equity" \in MoneyFields
      /\ "previous_revenue" \in MoneyFields /\ "previous_profit" \in MoneyFields
  BY DEF MoneyFields
<1> DEFINE within(x, y) == v[x] - v[y] \in -MaxFinite .. MaxFinite
<1>4. ASSUME NEW x \in MoneyFields, NEW y \in MoneyFields
      PROVE  /\ Odd(Minus(v[x], v[y]), v[y])
                  <=> ~finite(x) \/ ~finite(y) \/ ~within(x, y)
             /\ Zero(Minus(v[x], v[y]), v[y]) <=> finite(x) /\ nothing(y)
             /\ Odd(v[x], v[y]) <=> ~finite(x) \/ ~finite(y)
             /\ Zero(v[x], v[y]) <=> finite(x) /\ nothing(y)
  <2>1. /\ IsFinite(Minus(v[x], v[y])) <=> IsFinite(v[x]) /\ IsFinite(v[y]) /\ within(x, y)
        /\ IsFinite(v[x]) /\ IsFinite(v[y]) /\ v[y] = 0 => IsFinite(Minus(v[x], v[y]))
    BY <1>2, MinusFacts
  <2> HIDE DEF within
  <2> QED BY <1>2, <2>1 DEF Odd, Zero
<1> HIDE DEF within
<1>5. SomeZero(v) <=>
                 \/ nothing("revenue") /\ (finite("operating_profit")
                                           \/ finite("net_income"))
                 \/ nothing("current_liabilities") /\ finite("current_assets")
                 \/ nothing("shareholder_equity") /\ finite("total_debt")
                 \/ nothing("total_assets") /\ finite("net_income")
                 \/ nothing("previous_revenue") /\ finite("revenue")
                 \/ nothing("previous_profit") /\ finite("operating_profit")
  BY <1>3, <1>4 DEF SomeZero
<1>6. \/ \E f \in MoneyFields : InvalidMoney(money[f])
      \/ SomeOdd(v)
      <=> \/ \E m \in MoneyFields : ~finite(m)
          \/ ~within("revenue", "previous_revenue")
             /\ finite("revenue") /\ finite("previous_revenue")
          \/ ~within("operating_profit", "previous_profit")
             /\ finite("operating_profit") /\ finite("previous_profit")
  <2>1. CASE \E m \in MoneyFields : ~finite(m)
    BY <1>2, <2>1
  <2>2. CASE ~\E m \in MoneyFields : ~finite(m)
    <3>1. ~\E f \in MoneyFields : InvalidMoney(money[f])
      BY <1>2, <2>2
    <3>2. SomeOdd(v) <=> \/ ~within("revenue", "previous_revenue")
                         \/ ~within("operating_profit", "previous_profit")
      BY <1>3, <1>4, <2>2 DEF SomeOdd
    <3> QED BY <1>3, <2>2, <3>1, <3>2
  <2> QED BY <2>1, <2>2
<1>7. /\ within("revenue", "previous_revenue") <=>
           ValueOrZero(money["revenue"]) - ValueOrZero(money["previous_revenue"])
             \in -MaxFinite .. MaxFinite
      /\ within("operating_profit", "previous_profit") <=>
           ValueOrZero(money["operating_profit"]) - ValueOrZero(money["previous_profit"])
             \in -MaxFinite .. MaxFinite
  BY <1>2, <1>3 DEF within
<1> QED BY <1>1, <1>5, <1>6, <1>7 DEF finite, nothing

\* The flags of the result are those the properties ask for.
LEMMA FlagsFollow ==
    ASSUME RecordInv, encoded \in Inputs
    PROVE  FlagsAreExact
<1> SUFFICES ASSUME step = "done" PROVE FlagsAreExact
  BY DEF FlagsAreExact
<1>1. PICK raw : raw = decoded.raw
  OBVIOUS
<1>2. /\ canonical = ProcessOne(encoded)
      /\ raw = Decode(encoded).raw /\ IsRaw(raw)
  BY <1>1, RawIs DEF RecordInv, AgreesWithOracle
<1>3. \A x : x \in canonical.flags
               <=> RaisedIn(x, raw, encoded.malformed \/ Unnamed(raw))
  BY <1>2, FlagsOfResult
<1>4. PICK money : money = raw.money
  OBVIOUS
<1>5. "missing_required_text" \in canonical.flags <=>
                 \/ encoded.malformed
                 \/ raw.company_id = "" \/ raw.reporting_period = ""
                 \/ \A i \in DOMAIN raw.legal_name : IsSpace(raw.legal_name[i])
  <2>1. "missing_required_text" \in canonical.flags
          <=> encoded.malformed \/ Unnamed(raw)
    BY <1>3 DEF RaisedIn
  <2>2. TitleCopy(raw.legal_name) = <<>>
          <=> \A i \in DOMAIN raw.legal_name : IsSpace(raw.legal_name[i])
    BY <1>2, TitleEmpty DEF IsRaw
  <2> QED BY <2>1, <2>2 DEF Unnamed
<1>6. DOMAIN CountryRisk = Countries /\ DOMAIN IndustryRisk = Industries
  BY DEF CountryRisk, IndustryRisk
<1>7. /\ "unknown_country" \in canonical.flags <=>
           InCapitals(raw.country_code) \notin Countries
      /\ "unknown_currency" \in canonical.flags <=>
           InCapitals(raw.currency_code) \notin Currencies
      /\ "unknown_industry" \in canonical.flags <=>
           InCapitals(raw.industry_code) \notin Industries
  <2>1. /\ "unknown_country" \in canonical.flags <=>
           UpperCode(raw.country_code) \notin DOMAIN CountryRisk
        /\ "unknown_currency" \in canonical.flags <=>
           UpperCode(raw.currency_code) \notin Currencies
        /\ "unknown_industry" \in canonical.flags <=>
           UpperCode(raw.industry_code) \notin DOMAIN IndustryRisk
    BY <1>3 DEF RaisedIn
  <2>2. /\ UpperCode(raw.country_code) = InCapitals(raw.country_code)
        /\ UpperCode(raw.currency_code) = InCapitals(raw.currency_code)
        /\ UpperCode(raw.industry_code) = InCapitals(raw.industry_code)
    BY <1>2, CodeIs DEF IsRaw
  <2> QED BY <1>6, <2>1, <2>2
<1>8. /\ "invalid_number" \in canonical.flags <=>
           \/ \E f \in MoneyFields : InvalidMoney(money[f])
           \/ SomeOdd(ValuesOf(money))
      /\ "zero_denominator" \in canonical.flags <=> SomeZero(ValuesOf(money))
      /\ "invalid_accounting" \in canonical.flags <=>
           \E f \in {"revenue", "current_assets", "current_liabilities",
                     "total_assets", "total_debt", "shareholder_equity"} :
              Negative(money[f])
  BY <1>3, <1>4 DEF RaisedIn
<1>9. money \in [MoneyFields -> Amounts]
  BY <1>2, <1>4 DEF IsRaw
<1>10. "invalid_accounting" \in canonical.flags <=>
                 \E m \in MoneyFields \ {"operating_profit", "net_income",
                                         "previous_revenue", "previous_profit"} :
                    money[m] = MinusInfinity \/ (money[m] # Missing /\ money[m] \notin NonFinite
                                                 /\ money[m] < 0)
  <2>1. MoneyFields \ {"operating_profit", "net_income",
                       "previous_revenue", "previous_profit"}
          = {"revenue", "current_assets", "current_liabilities",
             "total_assets", "total_debt", "shareholder_equity"}
    BY DEF MoneyFields
  <2> QED BY <1>8, <2>1 DEF Negative
<1> DEFINE nothing(m) == money[m] \in {Missing, 0}
           finite(m) == money[m] \notin NonFinite
           beyond(x, y) == /\ finite(x) /\ finite(y)
                            /\ LET gap == ValueOrZero(money[x]) - ValueOrZero(money[y])
                               IN  gap \notin -MaxFinite .. MaxFinite
<1>11. "invalid_number" \in canonical.flags <=>
                 \/ \E m \in MoneyFields : ~finite(m)
                 \/ beyond("revenue", "previous_revenue")
                 \/ beyond("operating_profit", "previous_profit")
  BY <1>8, <1>9, RatiosRaise
<1>12. "zero_denominator" \in canonical.flags <=>
                 \/ nothing("revenue") /\ (finite("operating_profit")
                                           \/ finite("net_income"))
                 \/ nothing("current_liabilities") /\ finite("current_assets")
                 \/ nothing("shareholder_equity") /\ finite("total_debt")
                 \/ nothing("total_assets") /\ finite("net_income")
                 \/ nothing("previous_revenue") /\ finite("revenue")
                 \/ nothing("previous_profit") /\ finite("operating_profit")
  BY <1>8, <1>9, RatiosRaise
<1> QED BY <1>1, <1>4, <1>5, <1>7, <1>10, <1>11, <1>12, Zenon DEF FlagsAreExact

-----------------------------------------------------------------------------
(* The amounts the generator draws.                                        *)

\* A larger share is no less.
LEMMA AtLeast ==
    ASSUME NEW x \in Nat, NEW p \in Int, NEW q \in Int, p <= q
    PROVE  x * p <= x * q
<1>1. PICK k \in Nat : q = p + k
  <2>1. q - p \in Nat /\ q = p + (q - p)
    OBVIOUS
  <2> QED BY <2>1
<1>2. x * q = x * p + x * k /\ x * k \in Nat /\ x * p \in Int
  BY <1>1
<1> QED BY <1>2

\* A hundredth of a product, rounded down.
IsHundredth(q, w) == q \in Int /\ 100 * q <= w /\ w <= 100 * q + 99

\* PerCent gives one.
LEMMA PerCentIs ==
    ASSUME NEW x \in Int, NEW p \in Int
    PROVE  IsHundredth(PerCent(x, p), x * p)
<1>1. PICK w \in Int : w = x * p
  OBVIOUS
<1>2. IsHundredth(w \div 100, w)
  BY DEF IsHundredth
<1> QED BY <1>1, <1>2 DEF PerCent

\* Between a per cent and b per cent of an amount.
IsShare(q, x, a, b) == q \in Int /\ x * a <= 100 * q + 99 /\ 100 * q <= x * b

\* A share between two others.
LEMMA Share ==
    ASSUME NEW x \in Nat, NEW p \in Int, NEW a \in Int, NEW b \in Int, a <= p, p <= b
    PROVE  IsShare(PerCent(x, p), x, a, b)
<1>1. PICK y \in Int, w \in Int, z \in Int : y = x * a /\ w = x * p /\ z = x * b
  OBVIOUS
<1>q. PICK q : q = PerCent(x, p)
  OBVIOUS
<1>2. y <= w /\ w <= z
  BY <1>1, AtLeast
<1>3. IsHundredth(q, w)
  BY <1>1, <1>q, PerCentIs
<1>4. q \in Int /\ y <= 100 * q + 99 /\ 100 * q <= z
  BY <1>2, <1>3 DEF IsHundredth
<1> QED BY <1>1, <1>q, <1>4 DEF IsShare

\* The same of a loss.
LEMMA ShareOfLoss ==
    ASSUME NEW x \in Int, x <= 0, NEW p \in Int, NEW a \in Int, NEW b \in Int,
           a <= p, p <= b
    PROVE  IsShare(PerCent(x, p), x, b, a)
<1>1. PICK y \in Int, w \in Int, z \in Int : y = x * a /\ w = x * p /\ z = x * b
  OBVIOUS
<1>q. PICK q : q = PerCent(x, p)
  OBVIOUS
<1>2. w <= y /\ z <= w
  <2>1. PICK m \in Nat : m = -x
    OBVIOUS
  <2>2. m * a <= m * p /\ m * p <= m * b
    BY AtLeast
  <2>3. m * a = -y /\ m * p = -w /\ m * b = -z
    BY <1>1, <2>1
  <2> QED BY <2>2, <2>3
<1>3. IsHundredth(q, w)
  BY <1>1, <1>q, PerCentIs
<1>4. q \in Int /\ z <= 100 * q + 99 /\ 100 * q <= y
  BY <1>2, <1>3 DEF IsHundredth
<1> QED BY <1>1, <1>q, <1>4 DEF IsShare

\* The generated amounts: none is 0 where a ratio divides by it, none negative
\* that must not be, all finite.
LEMMA AmountsDrawn ==
    ASSUME NEW r \in Revenues, NEW f \in Factors, NEW A, A = AmountsAround(r, f)
    PROVE  /\ A.revenue \in 1 .. MaxFinite /\ A.current_assets \in 0 .. MaxFinite
           /\ A.current_liabilities \in 1 .. MaxFinite
           /\ A.total_assets \in 1 .. MaxFinite /\ A.total_debt \in 0 .. MaxFinite
           /\ A.shareholder_equity \in 1 .. MaxFinite
           /\ A.previous_revenue \in 1 .. MaxFinite
           /\ A.operating_profit \in -MaxFinite .. MaxFinite
           /\ A.net_income \in -MaxFinite .. MaxFinite
           /\ A.previous_profit \in -MaxFinite .. MaxFinite /\ A.previous_profit # 0
           /\ A.operating_profit - A.previous_profit \in -MaxFinite .. MaxFinite
<1>1. PICK m : m = MaxFinite
  OBVIOUS
<1>2. m \in Nat /\ r \in Nat /\ 200 <= r /\ 3 * r <= m
  BY <1>1, RulesAssumption, GeneratorAssumption
<1>3. f \in FactorRanges
  BY GeneratorAssumption
<1>4. PICK o, n, ca, cl, ta, d, l, pr, pp :
         /\ o = f.operating /\ n = f.net /\ ca = f.current_assets
         /\ cl = f.current_liabilities /\ ta = f.total_assets /\ d = f.debt
         /\ l = f.loss /\ pr = f.previous_revenue /\ pp = f.previous_profit
  OBVIOUS
<1>5. /\ /\ o \in -5 .. 28 /\ o # 0 /\ n \in 45 .. 92 /\ ca \in 10 .. 45
      /\ cl \in 8 .. 38
      /\ ta \in 50 .. 250 /\ d \in 5 .. 85 /\ l \in 0 .. 5 /\ pr \in 75 .. 125
      /\ pp \in 70 .. 130
  BY <1>3, <1>4 DEF FactorRanges
<1>6. PICK operating, assets, debt, loss, net, current, owed, before, earlier :
         /\ operating = PerCent(r, o) /\ assets = PerCent(r, ta)
         /\ debt = PerCent(assets, d) /\ loss = PerCent(assets, l)
         /\ net = PerCent(operating, n) /\ current = PerCent(r, ca)
         /\ owed = PerCent(r, cl) /\ before = PerCent(r, pr)
         /\ earlier = PerCent(operating, pp)
  OBVIOUS
<1>7. A = [revenue |-> r, operating_profit |-> operating, net_income |-> net,
           current_assets |-> current, current_liabilities |-> owed,
           total_assets |-> assets, total_debt |-> debt,
           shareholder_equity |-> assets - debt - loss,
           previous_revenue |-> before, previous_profit |-> earlier]
  BY <1>4, <1>6 DEF AmountsAround
<1>8. assets \in 100 .. m
  <2>1. IsShare(assets, r, 50, 250)
    <3>1. PICK low \in Int, high \in Int : low = 50 /\ high = 250
      OBVIOUS
    <3>2. ta \in Int /\ low <= ta /\ ta <= high
      BY <1>5, <3>1
    <3>3. IsShare(PerCent(r, ta), r, low, high)
      BY <1>2, <3>2, Share
    <3> QED BY <1>6, <3>1, <3>3
  <2> QED BY <1>2, <2>1 DEF IsShare
<1>9. current \in 0 .. m /\ owed \in 1 .. m /\ before \in 1 .. m
  <2>1. IsShare(current, r, 10, 45)
    <3>1. PICK low \in Int, high \in Int : low = 10 /\ high = 45
      OBVIOUS
    <3>2. ca \in Int /\ low <= ca /\ ca <= high
      BY <1>5, <3>1
    <3>3. IsShare(PerCent(r, ca), r, low, high)
      BY <1>2, <3>2, Share
    <3> QED BY <1>6, <3>1, <3>3
  <2>2. IsShare(owed, r, 8, 38)
    <3>1. PICK low \in Int, high \in Int : low = 8 /\ high = 38
      OBVIOUS
    <3>2. cl \in Int /\ low <= cl /\ cl <= high
      BY <1>5, <3>1
    <3>3. IsShare(PerCent(r, cl), r, low, high)
      BY <1>2, <3>2, Share
    <3> QED BY <1>6, <3>1, <3>3
  <2>3. IsShare(before, r, 75, 125)
    <3>1. PICK low \in Int, high \in Int : low = 75 /\ high = 125
      OBVIOUS
    <3>2. pr \in Int /\ low <= pr /\ pr <= high
      BY <1>5, <3>1
    <3>3. IsShare(PerCent(r, pr), r, low, high)
      BY <1>2, <3>2, Share
    <3> QED BY <1>6, <3>1, <3>3
  <2> QED BY <1>2, <2>1, <2>2, <2>3 DEF IsShare
<1>10. debt \in 0 .. m /\ assets - debt - loss \in 1 .. m
  <2>1. IsShare(debt, assets, 5, 85)
    <3>1. PICK low \in Int, high \in Int : low = 5 /\ high = 85
      OBVIOUS
    <3>2. d \in Int /\ low <= d /\ d <= high
      BY <1>5, <3>1
    <3>3. IsShare(PerCent(assets, d), assets, low, high)
      BY <1>8, <3>2, Share
    <3> QED BY <1>6, <3>1, <3>3
  <2>2. IsShare(loss, assets, 0, 5)
    <3>1. PICK low \in Int, high \in Int : low = 0 /\ high = 5
      OBVIOUS
    <3>2. l \in Int /\ low <= l /\ l <= high
      BY <1>5, <3>1
    <3>3. IsShare(PerCent(assets, l), assets, low, high)
      BY <1>8, <3>2, Share
    <3> QED BY <1>6, <3>1, <3>3
  <2> QED BY <1>2, <1>8, <2>1, <2>2 DEF IsShare
<1>11. /\ operating \in -m .. m /\ net \in -m .. m /\ earlier \in -m .. m
       /\ earlier # 0 /\ operating - earlier \in -m .. m
  <2>1. CASE o >= 1
    <3>1. IsShare(operating, r, 1, 28)
      <4>1. PICK low \in Int, high \in Int : low = 1 /\ high = 28
        OBVIOUS
      <4>2. o \in Int /\ low <= o /\ o <= high
        BY <1>5, <4>1, <2>1
      <4>3. IsShare(PerCent(r, o), r, low, high)
        BY <1>2, <2>1, <4>2, Share
      <4> QED BY <1>6, <4>1, <4>3
    <3>2. operating \in Nat /\ operating >= 2 /\ operating <= r
      BY <1>2, <3>1 DEF IsShare
    <3>3. IsShare(net, operating, 45, 92)
      <4>1. PICK low \in Int, high \in Int : low = 45 /\ high = 92
        OBVIOUS
      <4>2. n \in Int /\ low <= n /\ n <= high
        BY <1>5, <4>1
      <4>3. IsShare(PerCent(operating, n), operating, low, high)
        BY <3>2, <4>2, Share
      <4> QED BY <1>6, <4>1, <4>3
    <3>4. IsShare(earlier, operating, 70, 130)
      <4>1. PICK low \in Int, high \in Int : low = 70 /\ high = 130
        OBVIOUS
      <4>2. pp \in Int /\ low <= pp /\ pp <= high
        BY <1>5, <4>1
      <4>3. IsShare(PerCent(operating, pp), operating, low, high)
        BY <3>2, <4>2, Share
      <4> QED BY <1>6, <4>1, <4>3
    <3> QED BY <1>2, <3>2, <3>3, <3>4 DEF IsShare
  <2>2. CASE o <= -1
    <3>1. IsShare(operating, r, -5, -1)
      <4>1. PICK low \in Int, high \in Int : low = -5 /\ high = -1
        OBVIOUS
      <4>2. o \in Int /\ low <= o /\ o <= high
        BY <1>5, <4>1, <2>2
      <4>3. IsShare(PerCent(r, o), r, low, high)
        BY <1>2, <2>2, <4>2, Share
      <4> QED BY <1>6, <4>1, <4>3
    <3>2. /\ operating \in Int /\ operating <= 0
          /\ operating <= -2 /\ -r <= operating
      BY <1>2, <3>1 DEF IsShare
    <3>3. IsShare(net, operating, 92, 45)
      <4>1. PICK low \in Int, high \in Int : low = 45 /\ high = 92
        OBVIOUS
      <4>2. n \in Int /\ low <= n /\ n <= high
        BY <1>5, <4>1
      <4>3. IsShare(PerCent(operating, n), operating, high, low)
        BY <3>2, <4>2, ShareOfLoss
      <4> QED BY <1>6, <4>1, <4>3
    <3>4. IsShare(earlier, operating, 130, 70)
      <4>1. PICK low \in Int, high \in Int : low = 70 /\ high = 130
        OBVIOUS
      <4>2. pp \in Int /\ low <= pp /\ pp <= high
        BY <1>5, <4>1
      <4>3. IsShare(PerCent(operating, pp), operating, high, low)
        BY <3>2, <4>2, ShareOfLoss
      <4> QED BY <1>6, <4>1, <4>3
    <3> QED BY <1>2, <3>2, <3>3, <3>4 DEF IsShare
  <2> QED BY <1>5, <2>1, <2>2
<1> QED BY <1>1, <1>2, <1>7, <1>8, <1>9, <1>10, <1>11

\* The amount of a field in a generated record, malformed or not.
Drawn(m, A, missing, bad) ==
    IF bad /\ m = "shareholder_equity" THEN -1
    ELSE IF m \in missing THEN Missing ELSE A[m]

\* All of them.
AreDrawn(money, r, f, missing, bad) ==
    \A m \in MoneyFields : money[m] = Drawn(m, AmountsAround(r, f), missing, bad)

\* A generated record.
IsDrawn(raw, r, f, missing, pick, bad) ==
    /\ raw.company_id = "text" /\ raw.reporting_period = "text"
    /\ raw.legal_name = pick.name
    /\ raw.country_code \in IF bad THEN {Unlisted} ELSE Countries
    /\ raw.currency_code \in Currencies /\ raw.industry_code \in Industries
    /\ AreDrawn(raw.money, r, f, missing, bad)

\* The workload consists of generated records.
LEMMA WorkloadIs ==
    ASSUME NEW raw \in GenerateWorkload
    PROVE  \E r \in Revenues, f \in Factors, pick \in Picks, bad \in BOOLEAN,
              missing \in SUBSET {"revenue", "operating_profit", "net_income"} :
                 IsDrawn(raw, r, f, missing, pick, bad)
<1>1. ASSUME NEW r \in Revenues, NEW f \in Factors, NEW pick \in Picks,
             NEW missing \in SUBSET {"revenue", "operating_profit", "net_income"}
      PROVE  /\ IsDrawn(Generated(r, f, missing, pick), r, f, missing, pick, FALSE)
             /\ IsDrawn(Malformed(Generated(r, f, missing, pick)), r, f, missing, pick, TRUE)
  <2>1. PICK c \in Countries, u \in Currencies, d \in Industries :
          /\ c = IF pick.skew THEN <<"U", "S">> ELSE pick.country
          /\ u = IF pick.skew THEN <<"U", "S", "D">> ELSE pick.currency
          /\ d = pick.industry
    <3>1. pick \in PickRanges
      BY GeneratorAssumption
    <3>2. /\ pick.country \in Countries /\ pick.currency \in Currencies
          /\ pick.industry \in Industries
      BY <3>1 DEF PickRanges
    <3>3. <<"U", "S">> \in Countries /\ <<"U", "S", "D">> \in Currencies
      BY DEF Countries, Currencies
    <3> QED BY <3>2, <3>3
  <2>2. PICK money : money = [m \in MoneyFields |->
                  IF m \in missing THEN Missing ELSE AmountsAround(r, f)[m]]
    OBVIOUS
  <2>3. PICK raw1, text, address :
          /\ raw1 = Generated(r, f, missing, pick) /\ text = "text"
          /\ raw1 = [company_id |-> text, legal_name |-> pick.name,
                    address |-> address, postal_code |-> pick.postal,
                    country_code |-> c, currency_code |-> u,
                    industry_code |-> d, reporting_period |-> text,
                    money |-> money]
    BY <2>1, <2>2, Zenon DEF Generated
  <2>4. AreDrawn(raw1.money, r, f, missing, FALSE)
    BY <2>2, <2>3 DEF AreDrawn, Drawn
  <2>5. IsDrawn(raw1, r, f, missing, pick, FALSE)
    <3>1. /\ raw1.company_id = text /\ raw1.legal_name = pick.name
          /\ raw1.reporting_period = text
          /\ raw1.country_code = c /\ raw1.currency_code = u
          /\ raw1.industry_code = d
      BY <2>3
    <3> QED BY <2>3, <2>4, <3>1 DEF IsDrawn
  <2>6. PICK raw2 : raw2 = Malformed(raw1)
    OBVIOUS
  <2>7. /\ raw2.company_id = text /\ raw2.legal_name = pick.name
        /\ raw2.reporting_period = text
        /\ raw2.country_code = Unlisted /\ raw2.currency_code = u
        /\ raw2.industry_code = d
        /\ raw2.money = [money EXCEPT !["shareholder_equity"] = -1]
    BY <2>3, <2>6 DEF Malformed
  <2>8. AreDrawn(raw2.money, r, f, missing, TRUE)
    BY <2>2, <2>7 DEF AreDrawn, Drawn
  <2>9. IsDrawn(raw2, r, f, missing, pick, TRUE)
    BY <2>3, <2>7, <2>8 DEF IsDrawn
  <2> QED BY <2>3, <2>5, <2>6, <2>9
<1>2. PICK r \in Revenues, f \in Factors, pick \in Picks,
           missing \in SUBSET {"revenue", "operating_profit", "net_income"} :
        \/ raw = Generated(r, f, missing, pick)
        \/ raw = Malformed(Generated(r, f, missing, pick))
  BY DEF GenerateWorkload
<1> QED BY <1>1, <1>2

\* What the checks find in the amounts of a generated record.
LEMMA DrawnAmounts ==
    ASSUME NEW r \in Revenues, NEW f \in Factors, NEW bad \in BOOLEAN,
           NEW missing \in SUBSET {"revenue", "operating_profit", "net_income"},
           NEW money, AreDrawn(money, r, f, missing, bad)
    PROVE  /\ money["revenue"] = Missing <=> "revenue" \in missing
           /\ \A m \in MoneyFields : money[m] \notin NonFinite
           /\ \A m \in {"operating_profit", "net_income"} : money[m] \notin NonFinite
           /\ \A m \in {"current_liabilities", "shareholder_equity", "total_assets",
                        "previous_revenue", "previous_profit"} :
                 money[m] \notin {Missing, 0}
           /\ "revenue" \in missing \/ money["revenue"] \notin {Missing, 0}
           /\ ValueOrZero(money["revenue"]) - ValueOrZero(money["previous_revenue"])
                \in -MaxFinite .. MaxFinite
           /\ ValueOrZero(money["operating_profit"]) - ValueOrZero(money["previous_profit"])
                \in -MaxFinite .. MaxFinite
           /\ \A m \in {"revenue", "current_assets", "current_liabilities",
                        "total_assets", "total_debt"} :
                 money[m] = Missing \/ money[m] \in Nat
           /\ bad => money["shareholder_equity"] = -1
           /\ ~bad => money["shareholder_equity"] \in Nat
<1>1. PICK A : A = AmountsAround(r, f)
  OBVIOUS
<1>2. /\ A.revenue \in 1 .. MaxFinite /\ A.current_assets \in 0 .. MaxFinite
      /\ A.current_liabilities \in 1 .. MaxFinite
      /\ A.total_assets \in 1 .. MaxFinite /\ A.total_debt \in 0 .. MaxFinite
      /\ A.shareholder_equity \in 1 .. MaxFinite
      /\ A.previous_revenue \in 1 .. MaxFinite
      /\ A.operating_profit \in -MaxFinite .. MaxFinite
      /\ A.net_income \in -MaxFinite .. MaxFinite
      /\ A.previous_profit \in -MaxFinite .. MaxFinite /\ A.previous_profit # 0
      /\ A.operating_profit - A.previous_profit \in -MaxFinite .. MaxFinite
  BY <1>1, AmountsDrawn
<1>3. MaxFinite \in Nat /\ MaxFinite >= 1
  BY <1>2, RulesAssumption
<1>4. \A x : x \in -MaxFinite .. MaxFinite => x \notin NonFinite /\ x # Missing /\ x \in Int
  <2>1. -MaxFinite .. MaxFinite \subseteq -2 * MaxFinite .. 2 * MaxFinite
    BY <1>3
  <2> QED BY <2>1, NoAmounts
<1>5. /\ money["revenue"] = IF "revenue" \in missing THEN Missing ELSE A.revenue
      /\ money["operating_profit"]
           = IF "operating_profit" \in missing THEN Missing ELSE A.operating_profit
      /\ money["net_income"] = IF "net_income" \in missing THEN Missing ELSE A.net_income
      /\ money["current_assets"] = A.current_assets
      /\ money["current_liabilities"] = A.current_liabilities
      /\ money["total_assets"] = A.total_assets
      /\ money["total_debt"] = A.total_debt
      /\ money["shareholder_equity"] = IF bad THEN -1 ELSE A.shareholder_equity
      /\ money["previous_revenue"] = A.previous_revenue
      /\ money["previous_profit"] = A.previous_profit
  BY <1>1 DEF AreDrawn, Drawn, MoneyFields
<1>6. -1 \in -MaxFinite .. MaxFinite
  BY <1>3
<1>7. \A m \in MoneyFields : money[m] \notin NonFinite
  <2>1. \A m : m \in MoneyFields <=>
          \/ m = "revenue" \/ m = "operating_profit" \/ m = "net_income"
          \/ m = "current_assets" \/ m = "current_liabilities" \/ m = "total_assets"
          \/ m = "total_debt" \/ m = "shareholder_equity" \/ m = "previous_revenue"
          \/ m = "previous_profit"
    BY DEF MoneyFields
  <2> QED BY <1>2, <1>3, <1>4, <1>5, <1>6, <2>1, NoAmounts
<1>8. ValueOrZero(money["revenue"]) - ValueOrZero(money["previous_revenue"])
                \in -MaxFinite .. MaxFinite
  BY <1>2, <1>3, <1>4, <1>5 DEF ValueOrZero
<1>9. ValueOrZero(money["operating_profit"]) - ValueOrZero(money["previous_profit"])
                \in -MaxFinite .. MaxFinite
  BY <1>2, <1>3, <1>4, <1>5 DEF ValueOrZero
<1>10. \A m \in {"current_liabilities", "shareholder_equity", "total_assets",
                        "previous_revenue", "previous_profit"} :
                 money[m] \notin {Missing, 0}
  <2>1. \A x : x \in -MaxFinite .. MaxFinite /\ x # 0 => x \notin {Missing, 0}
    BY <1>4
  <2>2. money["shareholder_equity"] \notin {Missing, 0}
    BY <1>2, <1>3, <1>5, <1>6, <2>1
  <2>3. /\ money["current_liabilities"] \notin {Missing, 0}
        /\ money["total_assets"] \notin {Missing, 0}
        /\ money["previous_revenue"] \notin {Missing, 0}
        /\ money["previous_profit"] \notin {Missing, 0}
    BY <1>2, <1>3, <1>5, <2>1
  <2> QED BY <2>2, <2>3
<1>11. \A m \in {"revenue", "current_assets", "current_liabilities",
                        "total_assets", "total_debt"} :
                 money[m] = Missing \/ money[m] \in Nat
  BY <1>2, <1>5
<1>12. /\ money["revenue"] = Missing <=> "revenue" \in missing
       /\ "revenue" \in missing \/ money["revenue"] \notin {Missing, 0}
  BY <1>2, <1>3, <1>4, <1>5
<1>13. /\ bad => money["shareholder_equity"] = -1
       /\ ~bad => money["shareholder_equity"] \in Nat
  BY <1>2, <1>5
<1>14. \A m \in {"operating_profit", "net_income"} : money[m] \notin NonFinite
  BY <1>7 DEF MoneyFields
<1> QED BY <1>7, <1>8, <1>9, <1>10, <1>11, <1>12, <1>13, <1>14

\* The workload is flagged as it was asked for.
LEMMA WorkloadFollows ==
    ASSUME RecordInv, encoded \in Inputs
    PROVE  WorkloadIsAsAsked
<1> SUFFICES ASSUME step = "done", ~encoded.malformed, encoded.raw \in GenerateWorkload
             PROVE  WorkloadIsAsAsked
  BY DEF WorkloadIsAsAsked
<1>1. PICK raw : raw = encoded.raw /\ raw = decoded.raw
  BY RawIs DEF RecordInv
<1>2. /\ canonical = ProcessOne(encoded)
      /\ raw = Decode(encoded).raw /\ IsRaw(raw)
  BY <1>1, RawIs DEF RecordInv, AgreesWithOracle
<1>3. PICK r \in Revenues, f \in Factors, pick \in Picks, bad \in BOOLEAN,
           missing \in SUBSET {"revenue", "operating_profit", "net_income"} :
              IsDrawn(raw, r, f, missing, pick, bad)
  BY <1>1, WorkloadIs
<1>4. PICK money : money = raw.money
  OBVIOUS
<1>5. AreDrawn(money, r, f, missing, bad)
  BY <1>3, <1>4 DEF IsDrawn
<1>6. FlagsAreExact
  BY FlagsFollow
<1>7. "missing_required_text" \notin canonical.flags
  <2>1. raw.company_id # "" /\ raw.reporting_period # ""
    BY <1>3 DEF IsDrawn
  <2>2. \E i \in DOMAIN raw.legal_name : ~IsSpace(raw.legal_name[i])
    <3>1. pick.name \in Names
      BY GeneratorAssumption DEF PickRanges
    <3> QED BY <1>3, <3>1, GeneratorAssumption DEF IsDrawn
  <2>3. "missing_required_text" \in canonical.flags <=>
                 \/ encoded.malformed
                 \/ raw.company_id = "" \/ raw.reporting_period = ""
                 \/ \A i \in DOMAIN raw.legal_name : IsSpace(raw.legal_name[i])
    BY <1>1, <1>6, Zenon DEF FlagsAreExact
  <2> QED BY <2>1, <2>2, <2>3
<1>8. /\ raw.country_code \in IF bad THEN {Unlisted} ELSE Countries
      /\ raw.currency_code \in Currencies /\ raw.industry_code \in Industries
  BY <1>3 DEF IsDrawn
<1>9. /\ InCapitals(raw.country_code) = raw.country_code
      /\ InCapitals(raw.currency_code) = raw.currency_code
      /\ InCapitals(raw.industry_code) = raw.industry_code
      /\ raw.country_code \notin Countries <=> bad
  BY <1>8, ListedCodes
<1>10. /\ "unknown_country" \in canonical.flags <=> bad
       /\ "unknown_currency" \notin canonical.flags
       /\ "unknown_industry" \notin canonical.flags
  <2>1. /\ "unknown_country" \in canonical.flags <=>
           InCapitals(raw.country_code) \notin Countries
        /\ "unknown_currency" \in canonical.flags <=>
           InCapitals(raw.currency_code) \notin Currencies
        /\ "unknown_industry" \in canonical.flags <=>
           InCapitals(raw.industry_code) \notin Industries
    BY <1>1, <1>6, Zenon DEF FlagsAreExact
  <2> QED BY <1>8, <1>9, <2>1
<1>11. raw.country_code = Unlisted <=> bad
  BY <1>8, ListedCodes
<1>12. "invalid_number" \notin canonical.flags
  <2>1. "invalid_number" \in canonical.flags =>
           \/ \E m \in MoneyFields : money[m] \in NonFinite
           \/ ValueOrZero(money["revenue"]) - ValueOrZero(money["previous_revenue"])
                \notin -MaxFinite .. MaxFinite
           \/ ValueOrZero(money["operating_profit"]) - ValueOrZero(money["previous_profit"])
                \notin -MaxFinite .. MaxFinite
    BY <1>1, <1>4, <1>6, Zenon DEF FlagsAreExact
  <2> QED BY <1>5, <2>1, DrawnAmounts
<1>13. "zero_denominator" \in canonical.flags <=> money["revenue"] = Missing
  <2> DEFINE nothing(m) == money[m] \in {Missing, 0}
             finite(m) == money[m] \notin NonFinite
  <2>1. "zero_denominator" \in canonical.flags <=>
                 \/ nothing("revenue") /\ (finite("operating_profit")
                                           \/ finite("net_income"))
                 \/ nothing("current_liabilities") /\ finite("current_assets")
                 \/ nothing("shareholder_equity") /\ finite("total_debt")
                 \/ nothing("total_assets") /\ finite("net_income")
                 \/ nothing("previous_revenue") /\ finite("revenue")
                 \/ nothing("previous_profit") /\ finite("operating_profit")
    BY <1>1, <1>4, <1>6, Zenon DEF FlagsAreExact
  <2>2. /\ finite("operating_profit")
        /\ ~nothing("current_liabilities") /\ ~nothing("shareholder_equity")
        /\ ~nothing("total_assets") /\ ~nothing("previous_revenue")
        /\ ~nothing("previous_profit")
    BY <1>5, DrawnAmounts
  <2>3. nothing("revenue") <=> money["revenue"] = Missing
    <3>1. /\ money["revenue"] = Missing <=> "revenue" \in missing
          /\ "revenue" \in missing \/ money["revenue"] \notin {Missing, 0}
      BY <1>5, DrawnAmounts, Zenon
    <3> QED BY <3>1
  <2> HIDE DEF nothing, finite
  <2> QED BY <2>1, <2>2, <2>3
<1>14. "invalid_accounting" \in canonical.flags <=> bad
  <2>1. "invalid_accounting" \in canonical.flags <=>
                 \E m \in MoneyFields \ {"operating_profit", "net_income",
                                         "previous_revenue", "previous_profit"} :
                    money[m] = MinusInfinity \/ (money[m] # Missing /\ money[m] \notin NonFinite
                                                 /\ money[m] < 0)
    BY <1>1, <1>4, <1>6, Zenon DEF FlagsAreExact
  <2>2. /\ \A m \in MoneyFields : money[m] \notin NonFinite
        /\ bad => money["shareholder_equity"] = -1
        /\ ~bad => money["shareholder_equity"] \in Nat
        /\ money["shareholder_equity"] # Missing
        /\ \A m \in {"revenue", "current_assets", "current_liabilities",
                     "total_assets", "total_debt"} : money[m] = Missing \/ money[m] \in Nat
    <3>1. money["shareholder_equity"] \notin {Missing, 0}
      BY <1>5, DrawnAmounts, Zenon
    <3>2. \A m \in {"revenue", "current_assets", "current_liabilities",
                    "total_assets", "total_debt"} : money[m] = Missing \/ money[m] \in Nat
      BY <1>5, DrawnAmounts, Zenon
    <3>3. \A m \in MoneyFields : money[m] \notin NonFinite
      BY <1>5, DrawnAmounts, Zenon
    <3>4. bad => money["shareholder_equity"] = -1
      BY <1>5 DEF AreDrawn, Drawn, MoneyFields
    <3>5. ~bad => money["shareholder_equity"] \in Nat
      BY <1>5, DrawnAmounts
    <3> QED BY <3>1, <3>2, <3>3, <3>4, <3>5
  <2>3. \A m : m \in MoneyFields \ {"operating_profit", "net_income",
                                    "previous_revenue", "previous_profit"} <=>
           \/ m = "shareholder_equity"
           \/ m \in {"revenue", "current_assets", "current_liabilities",
                     "total_assets", "total_debt"}
    BY DEF MoneyFields
  <2>4. MinusInfinity \in NonFinite /\ "shareholder_equity" \in MoneyFields
    BY DEF NonFinite, MoneyFields
  <2> QED BY <2>1, <2>2, <2>3, <2>4
<1>15. \A x \in canonical.flags : x \in {"missing_required_text", "unknown_country",
          "unknown_currency", "unknown_industry", "invalid_number", "zero_denominator",
          "invalid_accounting"}
  BY <1>2, FlagsOfResult DEF RaisedIn
<1>16. \A x : x \in canonical.flags <=>
          \/ bad /\ (x = "unknown_country" \/ x = "invalid_accounting")
          \/ x = "zero_denominator" /\ money["revenue"] = Missing
  BY <1>7, <1>10, <1>12, <1>13, <1>14, <1>15
<1>17. canonical.flags =
                 (IF bad THEN {"unknown_country", "invalid_accounting"} ELSE {})
                 \cup {x \in {"zero_denominator"} : money["revenue"] = Missing}
  BY <1>16
<1>18. canonical.risk_class = "review" <=> bad
  <2>1. PICK terms : canonical.risk_class = Classify(terms, canonical.flags)
    BY <1>2, FlagsOfResult
  <2>2. canonical.flags \cap {"invalid_accounting", "invalid_number"} # {} <=> bad
    BY <1>12, <1>14
  <2> QED BY <2>1, <2>2 DEF Classify
<1> QED BY <1>1, <1>4, <1>11, <1>17, <1>18 DEF WorkloadIsAsAsked

-----------------------------------------------------------------------------
\* The input never changes.
LEMMA InputStays ==
    ASSUME encoded \in Inputs, [Next]_vars
    PROVE  encoded' \in Inputs
  BY DEF Next, vars, DecodeRecord, NormalizeRecord, LookUp, CheckMoney,
     CheckNegative, NextRatio, Emit, Done

\* So all of this holds of every behaviour.
LEMMA RecordReached == Spec => [](RecordInv /\ encoded \in Inputs)
<1>1. Init => encoded \in Inputs
  BY DEF Init
<1>2. encoded \in Inputs /\ [Next]_vars => (encoded \in Inputs)'
  BY InputStays
<1> QED BY <1>1, <1>2, RecordInvInit, RecordInvNext, PTL DEF Spec

\* Every record that is not malformed has its texts normalized as the words
\* say, whatever the input is (normalize, collapse_ws, title_copy, replace_all):
\* and normalizing them again would change nothing.
THEOREM TextsNormal == Spec => []TextsAreNormal
  BY RecordReached, TextsFollow, PTL

\* Each flag of a record is raised by what it names and by nothing else,
\* whatever the amounts, codes and texts are (normalize, enrich, calculate, bp).
THEOREM FlagsExact == Spec => []FlagsAreExact
  BY RecordReached, FlagsFollow, PTL

\* Of any workload the generator may draw, the malformed records and no others
\* go to review, and a missing revenue is what marks a zero denominator.
THEOREM WorkloadAsAsked == Spec => []WorkloadIsAsAsked
  BY RecordReached, WorkloadFollows, PTL
=============================================================================
