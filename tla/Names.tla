-------------------------------- MODULE Names --------------------------------
(***************************************************************************)
(* User and door names as an administrator types them and as the server    *)
(* keeps them.  A name is a sequence of characters.  One letter in its two *)
(* cases, a digit, the underscore and a character no name may have are     *)
(* enough to tell apart what the regular expressions and to_snake_case     *)
(* tell apart.                                                             *)
(***************************************************************************)
EXTENDS Naturals, SequencesExt

LowerLetters == {"a"}
UpperLetters == {"A"}
Digits == {"1"}
Characters == LowerLetters \cup UpperLetters \cup Digits \cup {"_", "-"}

\* std::tolower
ToLower(c) == IF c = "A" THEN "a" ELSE c

\* [A-Za-z0-9_]+, the name in newDoor and newUser
AddableName(s) ==
    s # <<>> /\ \A i \in DOMAIN s :
        s[i] \in LowerLetters \cup UpperLetters \cup Digits \cup {"_"}

\* [A-Za-z_]+, the name in rmUser and rmDoor
RemovableName(s) ==
    s # <<>> /\ \A i \in DOMAIN s : s[i] \in LowerLetters \cup UpperLetters \cup {"_"}

\* Mutant of SnakePiece: an underscore before every upper case letter.
SnakePieceAlways(s, i) ==
    IF s[i] \in UpperLetters
    THEN IF i > 1 THEN <<"_", ToLower(s[i])>> ELSE <<ToLower(s[i])>>
    ELSE <<s[i]>>

\* What to_snake_case makes of one character: only a lower case letter before
\* an upper case one earns an underscore.
SnakePiece(s, i) ==
    IF s[i] \in UpperLetters
    THEN IF i > 1 /\ s[i - 1] \in LowerLetters
         THEN <<"_", ToLower(s[i])>>
         ELSE <<ToLower(s[i])>>
    ELSE <<s[i]>>

\* to_snake_case
ToSnakeCase(s) == FlattenSeq([i \in DOMAIN s |-> SnakePiece(s, i)])

HasDigit(s) == \E i \in DOMAIN s : s[i] \in Digits

----------------------------------------------------------------------------
(* Names as people think of them: some words, each a letter followed by    *)
(* letters or digits, written in the ways the readme allows.               *)

CONSTANTS MaxWords, MaxWordLength    \* bounds of the names that are tried

ASSUME WordAssumption == MaxWords \in Nat /\ MaxWordLength \in Nat

Words ==
    {w \in SeqOf(LowerLetters \cup Digits, MaxWordLength) :
        w # <<>> /\ w[1] \in LowerLetters}

WordLists == SeqOf(Words, MaxWords) \ {<<>>}

Capitalised(w) == <<"A">> \o Tail(w)

SnakeSpelling(ws) ==
    FlattenSeq([i \in DOMAIN ws |-> IF i = 1 THEN ws[i] ELSE <<"_">> \o ws[i]])
CamelSpelling(ws) ==
    FlattenSeq([i \in DOMAIN ws |-> IF i = 1 THEN ws[i] ELSE Capitalised(ws[i])])
PascalSpelling(ws) == FlattenSeq([i \in DOMAIN ws |-> Capitalised(ws[i])])
PascalSnakeSpelling(ws) == SnakeSpelling([i \in DOMAIN ws |-> Capitalised(ws[i])])

\* A capitalised word shows where it begins if it follows a lower case letter.
\* A word of one letter that is itself capitalised ends in an upper case one.
EndsLower(w, capital) ==
    w[Len(w)] \in LowerLetters /\ (capital => Len(w) > 1)

\* Does every word but the last show where it ends?
Separated(style, ws) ==
    \A i \in 1 .. Len(ws) - 1 :
        CASE style = "camelCase" -> EndsLower(ws[i], i > 1)
          [] style = "PascalCase" -> EndsLower(ws[i], TRUE)
          [] OTHER -> TRUE

Styles == {"snake_case", "camelCase", "PascalCase", "Pascal_Case"}

Spelled(style, ws) ==
    CASE style = "snake_case" -> SnakeSpelling(ws)
      [] style = "camelCase" -> CamelSpelling(ws)
      [] style = "PascalCase" -> PascalSpelling(ws)
      [] style = "Pascal_Case" -> PascalSnakeSpelling(ws)
==============================================================================
