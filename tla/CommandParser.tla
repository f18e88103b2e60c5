---------------------------- MODULE CommandParser -----------------------------
(***************************************************************************)
(* ParseCommand: from the text of a payload to a Command.  A text is a     *)
(* sequence of words and of single white-space characters, all of which    *)
(* the parser treats alike; two words never touch.                         *)
(***************************************************************************)
EXTENDS Integers, Sequences, SequencesExt, FiniteSetsExt

CONSTANTS
    Words,       \* the words that occur
    Space,       \* one white-space character
    NoWord,      \* the empty string
    Upper,       \* word |-> the word in capitals
    Digits,      \* word |-> its characters, a digit by its value
    IntMax,      \* numeric_limits<int>::max()
    Lines        \* the texts considered

ASSUME ParserAssumption ==
    /\ Space \notin Words /\ NoWord \notin Words
    /\ \A w \in Words : Digits[w] \in Seq(Nat) /\ Len(Digits[w]) > 0
    /\ IntMax \in Nat \ {0}
    /\ \A l \in Lines : /\ l \in Seq(Words \cup {Space})
                       /\ \A i \in 1..(Len(l) - 1) : Space \in {l[i], l[i + 1]}

VARIABLES
    line,   \* the payload parsed last
    cmd     \* the Command made of it

-----------------------------------------------------------------------------
\* The positions of the words of a text.
WordsAt(text) == {i \in 1..Len(text) : text[i] # Space}

Trim(text) ==
    IF WordsAt(text) = {} THEN <<>>
    ELSE SubSeq(text, Min(WordsAt(text)), Max(WordsAt(text)))

\* words[i] are those among the first i tokens.
SplitWords(text) ==
    LET words[i \in 0..Len(text)] ==
            IF i = 0 THEN <<>>
            ELSE IF text[i] = Space THEN words[i - 1]
            ELSE Append(words[i - 1], text[i])
    IN  words[Len(text)]

\* Mutant: one word too few is left out.
RestAfterNWords_OneShort(text, n) ==
    LET ends == {i \in WordsAt(text) : Len(SplitWords(SubSeq(text, 1, i))) = n - 1}
    IN  IF ends = {} THEN <<>> ELSE Trim(SubSeq(text, Min(ends) + 1, Len(text)))

\* What follows the n-th word, without blanks at either end.
RestAfterNWords(text, n) ==
    LET ends == {i \in WordsAt(text) : Len(SplitWords(SubSeq(text, 1, i))) = n}
    IN  IF ends = {} THEN <<>> ELSE Trim(SubSeq(text, Min(ends) + 1, Len(text)))

\* The result of ParsePositiveInt where the function returns false.
NotPositive == -1

HasOnlyDigits(word) == \A i \in DOMAIN Digits[word] : Digits[word][i] \in 0..9

\* Mutant: the limit is checked at the end, when an int has wrapped.
ParsePositiveInt_Wraps(word) ==
    LET wrapped == FoldLeft(LAMBDA n, digit : (n * 10 + digit) % (2 * (IntMax + 1)),
                            0, Digits[word])
    IN  IF HasOnlyDigits(word) /\ wrapped \in 1..IntMax THEN wrapped ELSE NotPositive

\* The limit is checked after every digit.
AddDigit(result, digit) ==
    IF \/ result = NotPositive
       \/ digit \notin 0..9
       \/ result * 10 + digit > IntMax
    THEN NotPositive
    ELSE result * 10 + digit

\* result[i] is what the first i characters come to.
ParsePositiveInt(word) ==
    LET digits == Digits[word]
        result[i \in 0..Len(digits)] ==
            IF i = 0 THEN 0 ELSE AddDigit(result[i - 1], digits[i])
    IN  IF result[Len(digits)] <= 0 THEN NotPositive ELSE result[Len(digits)]

-----------------------------------------------------------------------------
Unknown == [type |-> "Unknown", key |-> NoWord, value |-> <<>>, seconds |-> 0]

\* Commands of a fixed number of words, and that number.
BasicCommands == [PING |-> 1, STATS |-> 1, QUIT |-> 1, HELP |-> 1,
                  GET |-> 2, DEL |-> 2, TTL |-> 2]

FillBasicCmd(op, parts) ==
    IF Len(parts) # BasicCommands[op] THEN Unknown
    ELSE [Unknown EXCEPT !.type = op, !.key = IF Len(parts) = 2 THEN parts[2] ELSE @]

\* The value is not empty: there are three words.
ParseSet(text, parts) ==
    IF Len(parts) < 3 THEN Unknown
    ELSE [Unknown EXCEPT !.type = "SET", !.key = parts[2],
                         !.value = RestAfterNWords(text, 2)]

ParseExpire(parts) ==
    IF Len(parts) # 3 \/ ParsePositiveInt(parts[3]) = NotPositive THEN Unknown
    ELSE [Unknown EXCEPT !.type = "EXPIRE", !.key = parts[2],
                         !.seconds = ParsePositiveInt(parts[3])]

\* The type of a command is the name of its operation.
ParseCommand(payload) ==
    LET text  == Trim(payload)
        parts == SplitWords(text)
        op    == Upper[parts[1]]
    IN  IF parts = <<>> THEN Unknown
        ELSE IF op \in DOMAIN BasicCommands THEN FillBasicCmd(op, parts)
        ELSE IF op = "SET" THEN ParseSet(text, parts)
        ELSE IF op = "EXPIRE" THEN ParseExpire(parts)
        ELSE Unknown

ParserInit == line = <<>> /\ cmd = Unknown

Parse(payload) == line' = payload /\ cmd' = ParseCommand(payload)

\* One call: the function keeps nothing from one to the next.
ParserNext == line = <<>> /\ \E payload \in Lines : Parse(payload)

ParserSpec == ParserInit /\ [][ParserNext]_<<line, cmd>>

-----------------------------------------------------------------------------
\* Types; a key or a value is there exactly if the command has one, and a time
\* to live fits the int it is stored in.
ParserTypeOK ==
    /\ cmd.type \in DOMAIN BasicCommands \cup {"SET", "EXPIRE", "Unknown"}
    /\ cmd.key \in Words <=> cmd.type \in {"GET", "DEL", "TTL", "SET", "EXPIRE"}
    /\ cmd.value # <<>> <=> cmd.type = "SET"
    /\ cmd.seconds \in 0..IntMax
    /\ cmd.seconds > 0 <=> cmd.type = "EXPIRE"

Blank(text) == \A i \in 1..Len(text) : text[i] = Space

\* The grammar of SET: l is op, key and value, the value being what stands from
\* m to n, with blanks between them and around them.
SpellsSet(l, key, m, n) ==
    /\ l[m] # Space /\ l[n] # Space /\ Blank(SubSeq(l, n + 1, Len(l)))
    /\ \E i \in 1..(m - 1) :
          /\ Blank(SubSeq(l, 1, i - 1)) /\ l[i] \in Words /\ Upper[l[i]] = "SET"
          /\ \E j \in (i + 1)..(m - 1) :
                /\ l[j] = key
                /\ Blank(SubSeq(l, i + 1, j - 1)) /\ Blank(SubSeq(l, j + 1, m - 1))

\* Trimming, splitting and taking the rest come to the same as the grammar: a
\* line is a SET exactly if it spells one, and then with the key and the value
\* it spells, every blank inside the value kept.
SetExact ==
    /\ \A key \in Words : \A n \in 1..Len(line) : \A m \in 1..n :
          SpellsSet(line, key, m, n) =>
              cmd = [type |-> "SET", key |-> key, value |-> SubSeq(line, m, n),
                     seconds |-> 0]
    /\ cmd.type = "SET" =>
          \E n \in 1..Len(line) : \E m \in 1..n : SpellsSet(line, cmd.key, m, n)

\* The number a word of digits spells.
Numeral(word) ==
    LET digits == Digits[word]
        number[i \in 0..Len(digits)] ==
            IF i = 0 THEN 0 ELSE 10 * number[i - 1] + digits[i]
    IN  number[Len(digits)]

\* EXPIRE takes exactly the numbers from 1 to the greatest int, however many
\* digits they are written with, and takes each for what it is.
ExpireExact ==
    LET parts == SplitWords(line)
    IN  (Len(parts) = 3 /\ Upper[parts[1]] = "EXPIRE") =>
            IF HasOnlyDigits(parts[3]) /\ Numeral(parts[3]) \in 1..IntMax
            THEN cmd.type = "EXPIRE" /\ cmd.seconds = Numeral(parts[3])
            ELSE cmd = Unknown

\* The two commands that take more than a key are recognised exactly where the
\* grammar has them, with its parts, whatever the blanks; no number wraps.
ParserExact == ParserTypeOK /\ SetExact /\ ExpireExact

=============================================================================
