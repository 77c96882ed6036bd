--------------------------------- MODULE Text ---------------------------------
(***************************************************************************)
(* The script functions that take a text apart: FormatDecimal,             *)
(* ReplaceChars and IsNum.                                                 *)
(*                                                                         *)
(* A text is a sequence of characters, of which a few stand for the        *)
(* others: 0 and 1 for the digits, A and a for a letter in both cases, x   *)
(* for what is no digit, sign or space and is replaced by nothing.         *)
(***************************************************************************)
EXTENDS Integers, Sequences, FiniteSetsExt, SequencesExt

CONSTANTS
    Figure,      \* texts scripts pass to FormatDecimal
    Original,    \* texts they pass to ReplaceChars
    Target,      \* what they ask to have replaced: sequences of strings
    Replacement, \* and by what
    Line         \* texts they pass to IsNum

ASSUME LineAssumption == Line \subseteq Seq(STRING)

ASSUME FigureAssumption == Figure \subseteq Seq(STRING)

ASSUME ReplaceAssumption ==
    /\ Original \subseteq Seq(STRING)
    /\ Target \subseteq Seq(Seq(STRING))
    /\ Replacement \subseteq Seq(STRING)

VARIABLES
    textCall, \* the function a script has called last, "none" when it goes on
    text,     \* the text it passed
    args,     \* the other arguments
    result    \* what it was told: a text or a truth value

textVars == <<textCall, text, args, result>>

TextInit == textCall = "none" /\ text = <<>> /\ args = <<>> /\ result = <<>>

From(s, i) == SubSeq(s, i, Len(s))

-------------------------------------------------------------------------------
(* FormatDecimal *)

Digit == {"0", "1"}
IsDigit(c) == c \in Digit

\* The digits among the first i characters of s
DigitsUpTo(s) ==
    LET digits[i \in 0 .. Len(s)] ==
            IF i = 0 THEN <<>>
            ELSE IF IsDigit(s[i]) THEN Append(digits[i - 1], s[i]) ELSE digits[i - 1]
    IN  digits

Digits(s) == DigitsUpTo(s)[Len(s)]

\* The digits of s in groups of three, the first of which may be shorter: with k
\* more groups after it
HeadRemainder(s) == Len(s) % 3
Head3(s) == IF Len(s) % 3 > 0 THEN Len(s) % 3 ELSE 3

GroupsAfter(s) == (Len(s) - Head3(s)) \div 3

GroupsUpTo(s) ==
    LET groups[k \in 0 .. GroupsAfter(s)] ==
            IF k = 0 THEN SubSeq(s, 1, Head3(s))
            ELSE groups[k - 1] \o <<".">> \o
                 SubSeq(s, Head3(s) + 3 * k - 2, Head3(s) + 3 * k)
    IN  groups

Grouped(s) == GroupsUpTo(s)[GroupsAfter(s)]

FormatDecimal(s) ==
    LET negative == s # <<>> /\ s[1] = "-"
        digits == Digits(s)
    IN  IF digits = <<>> THEN <<"0">>
        ELSE (IF negative THEN <<"-">> ELSE <<>>) \o
             (IF Len(digits) <= 3 THEN digits ELSE Grouped(digits))

-------------------------------------------------------------------------------
(* ReplaceChars *)

ToLower(c) == IF c = "A" THEN "a" ELSE c

MatchesAt(s, target, pos) ==
    /\ pos + Len(target) - 1 <= Len(s)
    /\ \A i \in DOMAIN target : ToLower(s[pos + i - 1]) = ToLower(target[i])

\* Only the first character of the replacement is used; an empty one has the
\* character 0 in its place
First(new) == IF new = <<>> THEN "0" ELSE new[1]

Overwritten(s, pos, n, c) == [i \in DOMAIN s |-> IF i \in pos .. pos + n - 1 THEN c ELSE s[i]]

\* The loop over pos for one target: next is the position it has come to
StepOver(n) == n + 1
Step(n) == n

Visit(acc, pos, target, c) ==
    IF pos < acc.next \/ ~MatchesAt(acc.text, target, pos) THEN acc
    ELSE [text |-> Overwritten(acc.text, pos, Len(target), c), next |-> pos + Step(Len(target))]

Visits(s, target, c) ==
    LET visited[pos \in 0 .. Len(s)] ==
            IF pos = 0 THEN [text |-> s, next |-> 1]
            ELSE Visit(visited[pos - 1], pos, target, c)
    IN  visited

ReplaceOne(s, target, new) ==
    IF target = <<>> THEN s ELSE Visits(s, target, First(new))[Len(s)].text

\* The loop over the targets: what is left of s after the first k of them
Replaced(s, targets, new) ==
    LET replaced[k \in 0 .. Len(targets)] ==
            IF k = 0 THEN s ELSE ReplaceOne(replaced[k - 1], targets[k], new)
    IN  replaced

ReplaceChars(s, targets, new) == Replaced(s, targets, new)[Len(targets)]

-------------------------------------------------------------------------------
(* IsNum *)

Space == {" "}
Sign == {"+", "-"}

\* The first position of s from i on that is not in chars
Skip(s, i, chars) ==
    LET stops == {j \in i .. Len(s) : s[j] \notin chars} IN Min(stops \cup {Len(s) + 1})

StrtolOfSign(s, i) == Skip(s, i, Sign \cup Digit)

\* The number strtol reads at i ends at Strtol(s, i), which is i if there is none
Strtol(s, i) ==
    LET start == IF i <= Len(s) /\ s[i] \in Sign THEN i + 1 ELSE i
        stop == Skip(s, start, Digit)
    IN  IF stop = start THEN i ELSE stop

IsNum(s) ==
    LET i == Skip(s, 1, Space)
        end == Strtol(s, i)
    IN  /\ i <= Len(s)
        /\ end # i
        /\ Skip(s, end, Space) = Len(s) + 1

-------------------------------------------------------------------------------
TextAnswers(f, s, a, r) == textCall' = f /\ text' = s /\ args' = a /\ result' = r

CallFormatDecimal ==
    /\ textCall = "none"
    /\ \E s \in Figure : TextAnswers("FormatDecimal", s, <<>>, FormatDecimal(s))

CallReplaceChars ==
    /\ textCall = "none"
    /\ \E s \in Original, targets \in Target, new \in Replacement :
          TextAnswers("ReplaceChars", s, <<targets, new>>, ReplaceChars(s, targets, new))

CallIsNum ==
    /\ textCall = "none"
    /\ \E s \in Line : TextAnswers("IsNum", s, <<>>, IsNum(s))

TextGoesOn ==
    /\ textCall # "none"
    /\ textCall' = "none" /\ text' = <<>> /\ args' = <<>> /\ result' = <<>>

TextNext == CallFormatDecimal \/ CallReplaceChars \/ CallIsNum \/ TextGoesOn

TextSpec == TextInit /\ [][TextNext]_textVars

-------------------------------------------------------------------------------
\* Of the characters of an amount nothing but the digits, in their order, and a
\* sign in front is left; counted from the right every fourth character is a
\* dot, and none comes first; and an amount that has been formatted is formatted
\* to itself.
Formatted ==
    textCall = "FormatDecimal" =>
        LET signed == result[1] = "-"
            body == IF signed THEN From(result, 2) ELSE result
            n == Len(body)
        IN  /\ FormatDecimal(result) = result
            /\ \A i \in 1 .. n : body[i] = "." <=> (n - i + 1) % 4 = 0 /\ i > 1
            /\ \A i \in 1 .. n : body[i] = "." \/ IsDigit(body[i])
            /\ IF Digits(text) = <<>> THEN result = <<"0">>
               ELSE /\ Digits(body) = Digits(text)
                    /\ signed <=> text[1] = "-"

\* ReplaceChars changes no length, puts nothing but the replacement in the place
\* of a character, and leaves no occurrence of any target that the replacement is
\* not in, however targets overlap with themselves and each other.
OccursIn(target, s) == target # <<>> /\ \E pos \in DOMAIN s : MatchesAt(s, target, pos)

NoTargetLeft ==
    textCall = "ReplaceChars" =>
        LET targets == args[1]
            c == First(args[2])
        IN  /\ Len(result) = Len(text)
            /\ \A i \in DOMAIN text : result[i] \in {text[i], c}
            /\ \A k \in DOMAIN targets :
                  ToLower(c) \notin {ToLower(x) : x \in ToSet(targets[k])} =>
                      ~OccursIn(targets[k], result)

\* IsNum accepts what is an integer with space around it, and nothing else.
Numeric ==
    textCall = "IsNum" =>
        (result <=>
            \E i, j, k \in 0 .. Len(text) :
                /\ i <= j /\ j < k /\ j - i <= 1
                /\ ToSet(SubSeq(text, 1, i)) \subseteq Space
                /\ ToSet(SubSeq(text, i + 1, j)) \subseteq Sign
                /\ ToSet(SubSeq(text, j + 1, k)) \subseteq Digit
                /\ ToSet(From(text, k + 1)) \subseteq Space)

===============================================================================
