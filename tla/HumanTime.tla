----------------------------- MODULE HumanTime -----------------------------
(***************************************************************************)
(* parse_human_time: the text of a duration, cut into runs of digits and   *)
(* runs of letters by get_tokens, then read in pairs.  A character is      *)
(* abstracted to its class; which words name a unit does not matter to how *)
(* a parse ends.                                                           *)
(***************************************************************************)
EXTENDS Integers, SequencesExt

CONSTANTS Texts,    \* the texts a command may carry
          MaxDigits \* digits that std::stoull surely takes

Classes == {"digit", "alpha", "other"}

ASSUME TextAssumption ==
    /\ Texts \subseteq Seq(Classes)
    /\ MaxDigits \in Nat \ {0}

VARIABLES text,    \* what the user typed
          tokens,  \* result of get_tokens
          start,   \* where the current token starts
          i,       \* the loop variable of get_tokens, then of parse_human_time
          pc, outcome

parseVars == <<text, tokens, start, i, pc, outcome>>

-----------------------------------------------------------------------------
remove_non_alphanumeric(s) ==
    LET kept[n \in 0 .. Len(s)] ==
            IF n = 0 THEN <<>>
            ELSE IF s[n] = "other" THEN kept[n - 1] ELSE Append(kept[n - 1], s[n])
    IN  kept[Len(s)]

\* str: the cleaned text with a blank behind it.
str == Append(remove_non_alphanumeric(text), "blank")

\* str[n], counting from 1; the terminating NUL belongs to no class.
At(n) == IF n \in 1 .. Len(str) THEN str[n] ELSE "nul"

isalnum(x) == x \in {"digit", "alpha"}

Turns(n) == isalnum(At(n)) /\ isalnum(At(n + 1)) /\ At(n) # At(n + 1)

\* Mutant of Ends: a token only ends at the blank.
EndsAtBlank(n) == isalnum(At(n)) /\ At(n + 1) = "blank"

Ends(n)   == (isalnum(At(n)) /\ At(n + 1) = "blank") \/ Turns(n)
Starts(n) == (At(n) = "blank" /\ isalnum(At(n + 1))) \/ Turns(n)

is_all_digit(token) == \A k \in DOMAIN token : token[k] = "digit"

ParseInit ==
    /\ text \in Texts
    /\ tokens = <<>>
    /\ start = 1
    /\ i = 1
    /\ pc = "scan"
    /\ outcome = "none"

Finish(result) == pc' = "done" /\ outcome' = result

\* One iteration of the loop of get_tokens.
Scan ==
    /\ pc = "scan"
    /\ i <= Len(str)
    /\ tokens' = IF Ends(i) THEN Append(tokens, SubSeq(str, start, i)) ELSE tokens
    /\ start' = IF Ends(i) \/ Starts(i) THEN i + 1 ELSE start
    /\ i' = i + 1
    /\ UNCHANGED <<text, pc, outcome>>

\* The scan is over; the test for "size must be even" has it backwards.
CountTokens ==
    /\ pc = "scan"
    /\ i > Len(str)
    /\ i' = 0
    /\ IF Len(tokens) % 2 = 0
       THEN Finish("nullopt")
       ELSE pc' = "parse" /\ UNCHANGED outcome
    /\ UNCHANGED <<text, tokens, start>>

\* tokens.at(n), counting from 0, throws beyond the end.
Has(n)   == n < Len(tokens)
Token(n) == tokens[n + 1]

Overflows(token) == Len(token) > MaxDigits

Number(n) == is_all_digit(Token(n))

\* Mutant of EndOf: & for &&, which always reads the word.
EndOfEager(n) ==
    IF n >= Len(tokens) THEN "value"
    ELSE IF ~Has(2 * n) \/ ~Has(2 * n + 1) THEN "throws"
    ELSE IF ~Number(2 * n) \/ Number(2 * n + 1) THEN "nullopt"
    ELSE IF Overflows(Token(2 * n)) THEN "throws"
    ELSE "none"

\* How iteration n ends the loop over pairs, "none" if it does not.  && reads
\* the word only after a number.
EndOf(n) ==
    IF n >= Len(tokens) THEN "value"
    ELSE IF ~Has(2 * n) THEN "throws"
    ELSE IF Number(2 * n) /\ ~Has(2 * n + 1) THEN "throws"
    ELSE IF ~Number(2 * n) \/ Number(2 * n + 1) THEN "nullopt"
    ELSE IF Overflows(Token(2 * n)) THEN "throws"
    ELSE "none"

ReadPair ==
    /\ pc = "parse"
    /\ IF EndOf(i) = "none"
       THEN i' = i + 1 /\ UNCHANGED <<pc, outcome>>
       ELSE Finish(EndOf(i)) /\ UNCHANGED i
    /\ UNCHANGED <<text, tokens, start>>

ParseNext == Scan \/ CountTokens \/ ReadPair

ParseSpec == ParseInit /\ [][ParseNext]_parseVars

-----------------------------------------------------------------------------
\* get_tokens loses nothing and mixes nothing: the tokens are the maximal runs
\* of digits and of letters of the cleaned text, in order.
TokensAreRuns ==
    pc # "scan" =>
        /\ FlattenSeq(tokens) = remove_non_alphanumeric(text)
        /\ \A n \in DOMAIN tokens : \A k \in DOMAIN tokens[n] :
              tokens[n][k] = tokens[n][1]
        /\ \A n \in 1 .. Len(tokens) - 1 : tokens[n][1] # tokens[n + 1][1]

\* A text makes the constructor of a wrapper throw exactly when it begins and
\* ends with a digit.
ThrowsOnNumbers ==
    LET clean == remove_non_alphanumeric(text)
    IN  pc = "done" =>
            (outcome = "throws" <=>
                clean # <<>> /\ clean[1] = "digit" /\ Last(clean) = "digit")

\* What helpers.h:150 says of the format: "For example 2d -> 2 days."  The code
\* does otherwise: it refuses every text of an even number of tokens.
TwoDaysAreADuration == pc = "done" /\ text = <<"digit", "alpha">> => outcome = "value"

=============================================================================
