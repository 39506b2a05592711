------------------------------ MODULE JsonText ------------------------------
(***************************************************************************)
(* What the serializers, the tokenizer and the deserializer of corecpp     *)
(* share: the characters of a stream, the types they are instantiated for and the *)
(* values of those types.                                                  *)
(*                                                                         *)
(* A text is a sequence of characters.  The letters behind the first one   *)
(* of true, false and null are one character here, "rue", "alse" and       *)
(* "ull": no letter of theirs begins a token, so that it makes no          *)
(* difference which of them a text that is cut short still has.            *)
(*                                                                         *)
(* A type is [kind, of, names]: the element types of a container, the      *)
(* types and names of the members of a class.  Its values are              *)
(*   int, long   integers; int stands for the types narrower than long     *)
(*   bool        a TLA+ Boolean                                            *)
(*   float       n for n / 10: std::to_string writes a fixed precision     *)
(*   string      a sequence of characters                                  *)
(*   array       a sequence of values                                      *)
(*   map         a sequence of <<key, mapped>>, in the order of the map    *)
(*   object      (the properties are listed), user (serialize and          *)
(*   and tuple   deserialize are written by hand): the members' values     *)
(*   optional    <<>> or <<value>>, also for smart pointers                *)
(*   variant     <<>> or <<index, value>>                                  *)
(***************************************************************************)
EXTENDS Integers, Sequences, SequencesExt

VARIABLE text     \* the characters of the stream

Quote == "\""
Backslash == "\\"

DigitOf == <<"0", "1", "2", "3", "4", "5", "6", "7", "8", "9">>
DigitSet == {DigitOf[i] : i \in DOMAIN DigitOf}

\* The control characters that occur, and the last digit of their code.
LastHex == [c \in {"\t", "\n"} |-> IF c = "\n" THEN "A" ELSE "9"]

Blanks == {" ", "\t", "\n"}

Type(kind, of, names) == [kind |-> kind, of |-> of, names |-> names]
IntT    == Type("int", <<>>, <<>>)
LongT   == Type("long", <<>>, <<>>)
BoolT   == Type("bool", <<>>, <<>>)
FloatT  == Type("float", <<>>, <<>>)
StringT == Type("string", <<>>, <<>>)
NullT   == Type("null", <<>>, <<>>)

Scalars == {"int", "long", "bool", "float", "string", "null"}

\* std::to_string of an integer.
Digits(n) ==
  LET digits[m \in 0..n] ==
        IF m < 10 THEN <<DigitOf[m + 1]>> ELSE Append(digits[m \div 10], DigitOf[(m % 10) + 1])
  IN  digits[n]
Numeral(n) == IF n < 0 THEN <<"-">> \o Digits(-n) ELSE Digits(n)

\* The fixed precision of std::to_string is one digit here.
FixedPoint(n) ==
  LET m == IF n < 0 THEN -n ELSE n
  IN  (IF n < 0 THEN <<"-">> ELSE <<>>) \o Digits(m \div 10) \o <<".">> \o Digits(m % 10)
=============================================================================
