------------------------------- MODULE Strings -------------------------------
(***************************************************************************)
(* Strings (src/common/string.cc): splitting a command line into its       *)
(* arguments, escaping and de-escaping text, printing numbers, reversing   *)
(* the bytes of a hexadecimal value.  These are functions of their         *)
(* arguments; the state machine only produces them: a text str that grows  *)
(* a character at a time, and a number num.                                *)
(*                                                                         *)
(* A text is a sequence of characters, its positions count from 1.         *)
(***************************************************************************)
EXTENDS Integers, Sequences, SequencesExt, FiniteSetsExt

CONSTANTS
    StrMaxLen,      \* bound: length of a text
    IntBits,        \* width of an int
    LongBits        \* width of an unsigned long

ASSUME WidthsAssumption ==
    IntBits \in Nat \ {0} /\ LongBits \in Nat /\ IntBits < LongBits

VARIABLES
    str,        \* a text
    num         \* an int

strVars == <<str, num>>

Quot    == "\""
Esc     == "\\"
Blank   == " "
Newline == "\n"

\* Characters that take part in one of the cases of the code, and one that does not.
Chars == {"n", Blank, Quot, Esc, Newline}

\* The powers of a base, as a function: base^n for the n that are needed.
Powers(base) ==
    LET power[n \in 0..LongBits] == IF n = 0 THEN 1 ELSE base * power[n - 1]
    IN  power

IntMin == -Powers(2)[IntBits - 1]
Ints   == IntMin..(Powers(2)[IntBits - 1] - 1)

StrInit == str = <<>> /\ num = 0

TypeChar(c) == /\ num = 0 /\ Len(str) < StrMaxLen
               /\ str' = Append(str, c)
               /\ UNCHANGED num

PickNumber == /\ str = <<>> /\ num = 0
              /\ num' \in Ints
              /\ UNCHANGED str

StrNext == PickNumber \/ \E c \in Chars : TypeChar(c)

StrSpec == StrInit /\ [][StrNext]_strVars

------------------------------------------------------------------------------
(* strsplit *)

\* Mutant of CountEscapes: an escaped quote ends the quoted text.
NoEscapes == {}

CountEscapes == {Quot}                            \* the first pass knows this one only

StoreEscapes == {Quot, "n", "r", "t", Esc}        \* the second pass and the copy

\* The character at position i begins an escape sequence.
EscapeAt(s, i, escapes) == s[i] = Esc /\ i < Len(s) /\ s[i + 1] \in escapes

SkipBlanks(s, i) == Min({j \in i..(Len(s) + 1) : j > Len(s) \/ s[j] # Blank})

\* From a position, in plain text or in quotes: where the argument ends and the characters
\* it has until there.  Quotes that are not closed end behind the text.
Modes == {"plain", "quoted"}
OtherMode(mode) == IF mode = "plain" THEN "quoted" ELSE "plain"

ScanArg(s, escapes) ==
    LET scan[i \in 1..(Len(s) + 2)] == [mode \in Modes |->
            IF i > Len(s) THEN [end |-> IF mode = "quoted" THEN Len(s) + 2 ELSE i, len |-> 0]
            ELSE IF s[i] = Quot THEN scan[i + 1][OtherMode(mode)]
            ELSE IF s[i] = Blank /\ mode = "plain" THEN [end |-> i, len |-> 0]
            ELSE LET rest == scan[IF EscapeAt(s, i, escapes) THEN i + 2 ELSE i + 1][mode]
                 IN  [end |-> rest.end, len |-> rest.len + 1]]
    IN  scan

\* The arguments one pass finds; one that is not closed ends the pass.
Arguments(s, escapes) ==
    LET ArgAt(i) == ScanArg(s, escapes)[i]["plain"]
        from[i \in 1..(Len(s) + 1)] ==
            LET start == SkipBlanks(s, i) IN
            IF start > Len(s) \/ ArgAt(start).end > Len(s) + 1 THEN <<>>
            ELSE <<[start |-> start, end |-> ArgAt(start).end, len |-> ArgAt(start).len]>>
                 \o from[ArgAt(start).end]
    IN  from[1]

Unescaped(c) == IF c = "n" THEN Newline ELSE c

\* What is copied from a part of a text: escape sequences become the character they stand
\* for, some characters are left out.
Copied(s, first, end, without) ==
    LET copy[i \in first..(end + 1)] ==
            IF i >= end THEN <<>>
            ELSE IF s[i] \in without THEN copy[i + 1]
            ELSE IF EscapeAt(s, i, StoreEscapes) THEN <<Unescaped(s[i + 1])>> \o copy[i + 2]
            ELSE <<s[i]>> \o copy[i + 1]
    IN  copy[first]

\* The copy of an argument into argv.
ArgText(s, arg) == Copied(s, arg.start, arg.end, {Quot})

Argv(s) == LET args == Arguments(s, StoreEscapes)
           IN  [k \in DOMAIN args |-> ArgText(s, args[k])]

------------------------------------------------------------------------------
(* strescape, strdeescape, strswap2, itoa *)

\* Mutant of EscapeChar: the backslash is not escaped.
EscapeOther(c) == IF c = Newline THEN <<Esc, "n">> ELSE IF c = Quot THEN <<Esc, c>> ELSE <<c>>

EscapeChar(c) == IF c = Newline THEN <<Esc, "n">>
                 ELSE IF c \in {Quot, Esc} THEN <<Esc, c>>
                 ELSE <<c>>

strescape(s) == FlattenSeq([i \in DOMAIN s |-> EscapeChar(s[i])])

strdeescape(s) == Copied(s, 1, Len(s) + 1, {})

\* The text of an even number of digits, two digits to a byte, last byte first.
strswap2(s) == [i \in DOMAIN s |-> s[Len(s) - i + (IF i % 2 = 1 THEN 0 ELSE 2)]]

\* Mutant of strlen: a power of the base has as many digits as its predecessor.
strlenShort(val, base) == Min({n \in 1..(LongBits \div 3 + 1) : val <= Powers(base)[n]})

\* strlen of a number: the least number of digits that hold it, in a base of 8 or more.
strlen(val, base) == Min({n \in 1..(LongBits \div 3 + 1) : val < Powers(base)[n]})

\* The absolute value is taken in an int, which wraps, and then widened.
Magnitude(v) == (IF v < 0 /\ -v \in Ints THEN -v ELSE v) % Powers(2)[LongBits]

\* The digits of a number, and the size of the buffer that itoa takes for them.
Digits(val, base) ==
    Reverse([i \in 1..strlen(val, base) |-> (val \div Powers(base)[i - 1]) % base])
itoa(v, base) == [neg |-> v < 0, digits |-> Digits(Magnitude(v), base),
                  size |-> strlen(Magnitude(v), base) + 1 + (IF v < 0 THEN 1 ELSE 0)]

------------------------------------------------------------------------------
(* Properties *)

EscapedBackslash == \E i \in 1..(Len(str) - 1) : str[i] = Esc /\ str[i + 1] = Esc

(* argv has room for the arguments stored in it (string.cc:90 allots what the first  *)
(* pass of strsplit has counted, the second pass stores) unless the line has an escaped  *)
(* backslash, which the passes disagree on; every argument fills exactly the text     *)
(* allotted for it (string.cc:169).                                                   *)
ArgvHasRoom ==
    /\ ~EscapedBackslash =>
          Len(Arguments(str, CountEscapes)) = Len(Arguments(str, StoreEscapes))
    /\ \A k \in DOMAIN Arguments(str, StoreEscapes) :
          LET arg == Arguments(str, StoreEscapes)[k] IN Len(ArgText(str, arg)) = arg.len

(* Whatever text a user quotes and escapes is what the command gets: cmd_exec takes  *)
(* the line apart with strsplit(strdeescape(line)) (cmd.gperf:62), and vim is sent   *)
(* text through strescape (vimui.cc:760), in a buffer of twice its size.             *)
QuotedTextSurvives ==
    LET word == <<Quot>> \o strescape(str) \o <<Quot>>
        line == strescape(word \o <<Blank>> \o word)
    IN  /\ Len(strescape(str)) <= 2 * Len(str)
        /\ Argv(strdeescape(line)) = <<str, str>>

\* What reading digits gives, the first one first.
ValueOf(digits, base) ==
    LET value[k \in 0..Len(digits)] == IF k = 0 THEN 0 ELSE value[k - 1] * base + digits[k]
    IN  value[Len(digits)]

(* A number sent to gdb or vim is the number meant, and fits its buffer, for every    *)
(* int but the least one, whose absolute value does not exist (string.cc:342).  A     *)
(* register whose bytes are swapped in place to print it is swapped back to what was  *)
(* read (per.cc:361,395), and its bytes stay whole.                                   *)
NumbersSurvive ==
    /\ \A base \in {10, 16} :
          LET out   == itoa(num, base)
              value == ValueOf(out.digits, base)
          IN  /\ Len(out.digits) + 1 + (IF out.neg THEN 1 ELSE 0) <= out.size
              /\ num # IntMin => num = IF out.neg THEN -value ELSE value
    /\ Len(str) % 2 = 0 =>
          /\ strswap2(strswap2(str)) = str
          /\ \A i \in 1..(Len(str) \div 2) :
                SubSeq(strswap2(str), 2*i - 1, 2*i) =
                SubSeq(str, Len(str) - 2*i + 1, Len(str) - 2*i + 2)
==============================================================================
