------------------------------ MODULE ParseNum ------------------------------
(***************************************************************************)
(* The conversion of texts into integers, kissc/parsenum.c: strto<type>    *)
(* and strnto<type> for every type of integer, a type being its width and  *)
(* whether it is signed.  A text is a sequence of characters, the ones of  *)
(* Digits, Upper and Lower, the signs, or any other.                       *)
(*                                                                         *)
(* The plugins call it for int32_t in base 10 alone: the argument of       *)
(* pkg history -n, and the numbers of a date.                              *)
(***************************************************************************)
EXTENDS Integers, Sequences, FiniteSetsExt, SequencesExt

Digits == <<"0", "1", "2", "3", "4", "5", "6", "7", "8", "9">>
Upper == <<"A", "B", "C", "D", "E", "F", "G", "H", "I", "J", "K", "L", "M",
           "N", "O", "P", "Q", "R", "S", "T", "U", "V", "W", "X", "Y", "Z">>
Lower == <<"a", "b", "c", "d", "e", "f", "g", "h", "i", "j", "k", "l", "m",
           "n", "o", "p", "q", "r", "s", "t", "u", "v", "w", "x", "y", "z">>

IntegerType(signed, bits) == [signed |-> signed, bits |-> bits]

Largest(type) == IF type.signed THEN 2 ^ (type.bits - 1) - 1 ELSE 2 ^ type.bits - 1
Smallest(type) == IF type.signed THEN -(2 ^ (type.bits - 1)) ELSE 0

\* The value of type that is equal to n modulo 2^bits: what an assignment keeps.
Wrap(type, n) == Smallest(type) + ((n - Smallest(type)) % 2 ^ type.bits)

-----------------------------------------------------------------------------

\* An absent bound (a NULL pointer)
NoBound == {}

Outcome(err, ret, consumed) == [err |-> err, ret |-> ret, consumed |-> consumed]

\* *ret is not assigned
Unset == {}

At(text, i, chars) == i <= Len(text) /\ text[i] \in chars

\* The rank of a character, from 0.
Rank(chars, c) == (CHOOSE i \in DOMAIN chars : chars[i] = c) - 1

\* What a character is worth; the base if it is not a digit.  A letter is worth
\* ten less than its rank, where it should be worth ten more: A is -10 and Z 15.
\* (char is signed, as on amd64.)
CharValue(c, base) ==
  IF c \in Range(Digits) THEN Rank(Digits, c)
  ELSE IF base > 10 /\ c \in Range(Upper) THEN Rank(Upper, c) - 10
  ELSE IF base > 10 /\ c \in Range(Lower) THEN Rank(Lower, c) - 10
  ELSE base

\* The base once a prefix has been looked at, and the first character after it.
BaseOf(text, from, base) ==
  LET prefixed(b, marks) == /\ base \in {0, b}
                            /\ At(text, from, {"0"})
                            /\ At(text, from + 1, marks)
  IN  IF prefixed(2, {"b", "B"}) THEN [base |-> 2, from |-> from + 2]
      ELSE IF prefixed(16, {"x", "X"}) THEN [base |-> 16, from |-> from + 2]
      ELSE IF base # 0 THEN [base |-> base, from |-> from]
      ELSE [base |-> IF At(text, from, {"0"}) THEN 8 ELSE 10, from |-> from]

\* Mutant of Accumulate: the last digit is not compared at the limit.
AccumulateToTheCutoff(type, limit, base, digits) ==
  LET after[n \in 0 .. Len(digits)] ==
        IF n = 0 THEN [acc |-> 0, overflow |-> FALSE]
        ELSE IF after[n - 1].overflow \/ after[n - 1].acc > limit \div base
        THEN [after[n - 1] EXCEPT !.overflow = TRUE]
        ELSE [after[n - 1] EXCEPT !.acc = (@ * base + digits[n]) % 2 ^ type.bits]
  IN  after[Len(digits)]

\* One more digit, in an unsigned integer of the same width, up to limit; once
\* it has been exceeded the rest is only skipped.
AddDigit(type, limit, base, sum, digit) ==
  IF \/ sum.overflow
     \/ sum.acc > limit \div base
     \/ sum.acc = limit \div base /\ digit > limit % base
  THEN [sum EXCEPT !.overflow = TRUE]
  ELSE [sum EXCEPT !.acc = (@ * base + digit) % 2 ^ type.bits]

\* The digits are accumulated from left to right.
Accumulate(type, limit, base, digits) ==
  LET after[n \in 0 .. Len(digits)] ==
        IF n = 0 THEN [acc |-> 0, overflow |-> FALSE]
        ELSE AddDigit(type, limit, base, after[n - 1], digits[n])
  IN  after[Len(digits)]

\* The limit of the magnitude: one more below zero than above it for a signed
\* type; the largest value, whatever the sign, for an unsigned one.
LimitOf(type, negative) ==
  IF negative /\ type.signed THEN -Smallest(type) ELSE Largest(type)

\* strnto<type>: consumed is the number of characters before *endptr.
Strnto(type, text, givenBase, min, max) ==
  LET negative == At(text, 1, {"-"})
      prefix == BaseOf(text, IF At(text, 1, {"-", "+"}) THEN 2 ELSE 1, givenBase)
      base == prefix.base
      \* the last of the digits: the character before the first that is not one
      last == Min({i \in prefix.from .. Len(text) : CharValue(text[i], base) >= base}
                    \cup {Len(text) + 1}) - 1
      digits == [i \in 1 .. last - prefix.from + 1 |-> CharValue(text[prefix.from + i - 1], base)]
      sum == Accumulate(type, LimitOf(type, negative), base, digits)
      value == Wrap(type, IF negative THEN -sum.acc ELSE sum.acc)
  IN  IF text = <<>> THEN Outcome("no_digit", Unset, 0)
      ELSE IF base \notin 2 .. 36 THEN Outcome("invalid_base", Unset, prefix.from - 1)
      ELSE IF sum.overflow
           THEN IF negative /\ type.signed
                THEN Outcome("too_small", {Smallest(type)}, last)
                ELSE Outcome("too_large", {Largest(type)}, last)
      ELSE IF last < Len(text) THEN Outcome("non_digit", {value}, last)
      ELSE IF digits = <<>> THEN Outcome("no_digit", Unset, last)
      ELSE IF \E m \in max : value > m THEN Outcome("greater_than_max", {value}, last)
      ELSE IF \E m \in min : value < m THEN Outcome("less_than_min", {value}, last)
      ELSE Outcome("no_err", {value}, last)

=============================================================================
