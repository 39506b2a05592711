--------------------------- MODULE JsonTokenizer ----------------------------
(***************************************************************************)
(* json::tokenizer (src/json.cpp) over a stream whose whole text is at     *)
(* hand: next(), and the loop of deserializer::read() that calls it until  *)
(* there is a token.                                                       *)
(*                                                                         *)
(* A position is the number of characters that were consumed.  A result is *)
(* [token, pos], where the token may also be None (next gave nullptr) or   *)
(* Bad (an exception left it).                                             *)
(***************************************************************************)
EXTENDS JsonText, FiniteSetsExt

CONSTANT LongMax    \* the largest long; the smallest is one more below zero

Tok(kind) == [kind |-> kind, number |-> 0, chars |-> <<>>]
NumberTok(kind, n) == [kind |-> kind, number |-> n, chars |-> <<>>]
StringTok(s) == [kind |-> "string", number |-> 0, chars |-> s]
None == Tok("none")
Bad  == Tok("bad")

Structural == {"{", "}", "[", "]", ",", ":"}
Literals == [c \in {"t", "f", "n"} |->
               CASE c = "t" -> [rest |-> "rue", token |-> Tok("true")]
                 [] c = "f" -> [rest |-> "alse", token |-> Tok("false")]
                 [] c = "n" -> [rest |-> "ull", token |-> Tok("null")]]

\* The letters and digits that occur (isalnum).
Alphanumeric == DigitSet \cup {"a", "b", "c", "f", "n", "t", "u", "x", "A",
                               "rue", "alse", "ull", "lt", "value"}

At(p) == text[p + 1]             \* the next character once p are consumed
Left(p) == Len(text) - p         \* in_avail()

\* The first position from p on at which there is no digit.
AfterDigits(p) == Min({q \in p..Len(text) : q = Len(text) \/ At(q) \notin DigitSet})

\* A long that overflows wraps around.
Wrapped(n) == ((n + LongMax + 1) % (2 * (LongMax + 1))) - LongMax - 1

\* The digits between two positions, as they are added up in a long.
ValueOf(p, q) ==
  FoldLeft(LAMBDA acc, d : Wrapped(10 * acc + (CHOOSE i \in 1..10 : DigitOf[i] = d) - 1),
           0, SubSeq(text, p + 1, q))

\* sungetc after the character that ended a number; at the end of the stream
\* there was none and the last digit is put back.
PutBack(q) == IF q = Len(text) THEN q - 1 ELSE q

\* read_numeric_literal when its digits begin at p: an integral token, or a
\* numeric one with its value in tenths.  A minus sign may have no digits.
Number(p, sign) ==
  LET q == AfterDigits(p)
      whole == ValueOf(p, q)
  IN  IF Left(q) > 0 /\ At(q) = "."
      THEN LET r == AfterDigits(q + 1)
               tenths == IF r = q + 1 THEN 0 ELSE ValueOf(q + 1, q + 2)
           IN  [token |-> NumberTok("numeric", sign * (10 * whole + tenths)), pos |-> PutBack(r)]
      ELSE [token |-> NumberTok("integral", Wrapped(sign * whole)), pos |-> PutBack(q)]

\* read_escaped_char: the four digits behind \u.
Unescape(quad) ==
  {c \in DOMAIN LastHex : quad = <<"0", "0", "0", LastHex[c]>>}

\* read_string_literal from p on, with what was read before in front.
RECURSIVE StringFrom(_, _)
StringFrom(p, read) ==
  IF Left(p) = 0 THEN [token |-> None, pos |-> p]
  ELSE IF At(p) = Quote THEN [token |-> StringTok(read), pos |-> p + 1]
  ELSE IF At(p) = "\n" THEN [token |-> Bad, pos |-> p + 1]
  ELSE IF At(p) # Backslash THEN StringFrom(p + 1, Append(read, At(p)))
  ELSE IF Left(p) = 1 THEN [token |-> None, pos |-> p + 1]
  ELSE IF At(p + 1) \in {Quote, Backslash} THEN StringFrom(p + 2, Append(read, At(p + 1)))
  ELSE IF At(p + 1) # "u" \/ Left(p) < 6 \/ Unescape(SubSeq(text, p + 3, p + 6)) = {}
       THEN [token |-> Bad, pos |-> p + 2]
  ELSE LET c == CHOOSE c \in Unescape(SubSeq(text, p + 3, p + 6)) : TRUE
       IN  StringFrom(p + 6, Append(read, c))

\* The rest of a literal whose first letter c was consumed.  What cannot be
\* the literal, or has a letter or digit behind it, is an error, unless the text
\* has ended.
Word(p, c) ==
  IF Left(p) = 0 THEN [token |-> None, pos |-> p]
  ELSE IF At(p) = Literals[c].rest /\ ~ (Left(p) > 1 /\ At(p + 1) \in Alphanumeric)
       THEN [token |-> Literals[c].token, pos |-> p + 1]
  ELSE [token |-> Bad, pos |-> p]

\* A token that is not complete is given up: next() goes back to the position
\* it noted after the first character and returns nullptr.
OrGiveUp(r, p) == IF r.token = None THEN [token |-> None, pos |-> p] ELSE r

SkipBlanks(p) == Min({q \in p..Len(text) : q = Len(text) \/ At(q) \notin Blanks})

\* next()
NextToken(start) ==
  LET b == SkipBlanks(start)
      p == b + 1
  IN  IF Left(b) = 0 THEN [token |-> None, pos |-> b]
      ELSE LET c == At(b)
           IN  IF c \in Structural THEN [token |-> Tok(c), pos |-> p]
               ELSE IF c = Quote THEN OrGiveUp(StringFrom(p, <<>>), p)
               ELSE IF c \in DigitSet THEN Number(b, 1)
               ELSE IF c = "-" THEN IF Left(p) = 0 THEN [token |-> None, pos |-> p]
                                    ELSE Number(p, -1)
               ELSE IF c \in DOMAIN Literals THEN Word(p, c)
               ELSE [token |-> None, pos |-> p]

\* Mutant: the end of the stream gives a closing brace.
RECURSIVE ReadLenient(_)
ReadLenient(p) ==
  LET r == NextToken(p)
  IN  IF r.token # None THEN r
      ELSE IF Left(r.pos) = 0 THEN [token |-> Tok("}"), pos |-> r.pos]
      ELSE ReadLenient(r.pos)

\* read(): next() is called again and again, past whatever gives no token;
\* at the end of the stream it throws.
RECURSIVE ReadFrom(_)
ReadFrom(p) ==
  LET r == NextToken(p)
  IN  IF r.token # None THEN r
      ELSE IF Left(r.pos) = 0 THEN [token |-> Bad, pos |-> r.pos]
      ELSE ReadFrom(r.pos)
=============================================================================
