------------------------------- MODULE Dates -------------------------------
(***************************************************************************)
(* parse_date (plugins/history/date.re and the scanner re2c makes of it):  *)
(* the dates that pkg history -f and -t accept.                            *)
(*                                                                         *)
(* A text is a sequence of tokens: maximal runs of digits or of spaces,    *)
(* separators with the spaces around them, names of months, and so on.     *)
(* The rules of the scanner are patterns of tokens; what its actions do    *)
(* with the parts is translated from the functions above them.             *)
(***************************************************************************)
EXTENDS ParseNum

CONSTANT IntBits    \* the width of an int

ASSUME IntBitsAssumption == IntBits \in 2 .. 32

Token(kind, value, width) == [kind |-> kind, value |-> value, width |-> width]

Number(value, width) == Token("number", value, width)
Name(month) == Token("name", month, 0)           \* January
Abbreviation(month) == Token("abbr", month, 3)   \* Jan
Sep == Token("sep", 0, 0)                        \* - / or . and the spaces around it
Spaces == Token("spaces", 0, 0)
Colon == Token("colon", 0, 0)
Am == Token("am", 0, 0)
Pm == Token("pm", 0, 0)
Today == Token("today", 0, 0)
Garbage == Token("garbage", 0, 0)                \* anything else

\* my_atoi: the value of a run of digits.  Assertions are not compiled: the
\* largest int when it is more than an int holds.
Atoi(t) ==
  LET text == [i \in 1 .. t.width |-> Digits[((t.value \div 10 ^ (t.width - i)) % 10) + 1]]
  IN  CHOOSE n \in Strnto(IntegerType(TRUE, IntBits), text, 10, NoBound, NoBound).ret : TRUE

-----------------------------------------------------------------------------
(* The classes of the tokens a date begins with; a time may always follow.   *)

IsNumber(t) == t.kind = "number"

\* month_abbr: Mar is missing (and Jul is there twice).
IsMonthText(t) == t.kind = "name" \/ (t.kind = "abbr" /\ t.value # 3)

InClass(t, class) ==
  CASE class = "day" -> IsNumber(t) /\ t.width \in 1 .. 2 /\ t.value <= 31
    [] class = "month" -> IsNumber(t) /\ t.width \in 1 .. 2 /\ t.value <= 12
    [] class = "yyyy" -> IsNumber(t) /\ t.width = 4
    [] class = "year" -> IsNumber(t) /\ t.width \in {2, 4}
    [] class = "number" -> IsNumber(t)
    [] class = "monthtext" -> IsMonthText(t)
    [] class = "spaces" -> t = Spaces
    [] class = "separator" -> t \in {Sep, Spaces}
    [] class = "colon" -> t = Colon
    [] class = "h12" -> IsNumber(t) /\ t.width \in 1 .. 2 /\ t.value <= 11
    [] class = "h24" -> IsNumber(t) /\ t.width \in 1 .. 2 /\ t.value <= 23
    [] class = "sixty" -> IsNumber(t) /\ t.width \in 1 .. 2 /\ t.value <= 59

Fits(text, classes) ==
  Len(text) = Len(classes) /\ \A i \in DOMAIN text : InClass(text[i], classes[i])

\* time12 and time24
IsTime(text) ==
  LET clocks(hour) == {<<hour>>, <<hour, "colon", "sixty">>,
                       <<hour, "colon", "sixty", "colon", "sixty">>}
      meridiem == text # <<>> /\ Last(text) \in {Am, Pm}
      before == Front(text)
      clock == IF before # <<>> /\ Last(before) = Spaces THEN Front(before) ELSE before
  IN  \/ \E c \in clocks("h24") : Fits(text, c)
      \/ meridiem /\ \E c \in clocks("h12") : Fits(clock, c)

\* maybe_with_time, up to the end of the text
MaybeTime(text) == text = <<>> \/ (Head(text) = Spaces /\ IsTime(Tail(text)))

\* The rules.  The parts of a date are the numbers and names of its head, in order;
\* action tells what they are, and year whether one may follow.
Rule(head, year, action) == [head |-> head, year |-> year, action |-> action]

YearMonthNameDay == Rule(<<"yyyy", "spaces", "monthtext", "spaces", "day">>, FALSE, "ymd")
YearMonthDay == Rule(<<"yyyy", "separator", "month", "separator", "day">>, FALSE, "ymd")
MonthDay == Rule(<<"month", "separator", "day">>, TRUE, "md or dm")
MonthNameDay == Rule(<<"monthtext", "spaces", "day">>, TRUE, "md")
DayMonthName == Rule(<<"day", "spaces", "monthtext">>, TRUE, "dm")
DayAgainstMonthName == Rule(<<"day", "monthtext">>, TRUE, "dm")    \* no space between
NumberMonthNumber ==
  Rule(<<"number", "separator", "month", "separator", "number">>, FALSE, "ymd or dmy")
NumberNumber == Rule(<<"number", "separator", "number">>, FALSE, "md or dm")

\* In the order of the source.
Rules == <<YearMonthNameDay, YearMonthDay, MonthDay, MonthNameDay, DayMonthName,
           DayAgainstMonthName, NumberMonthNumber, NumberNumber>>

HeadFits(rule, text) ==
  /\ Len(text) >= Len(rule.head)
  /\ Fits(SubSeq(text, 1, Len(rule.head)), rule.head)

AfterHead(rule, text) == SubSeq(text, Len(rule.head) + 1, Len(text))

\* maybe_year takes what it can if the time that is left is one
HasYear(rule, text) ==
  LET rest == AfterHead(rule, text)
  IN  /\ rule.year
      /\ Len(rest) >= 2
      /\ InClass(rest[1], "separator") /\ InClass(rest[2], "year")
      /\ MaybeTime(SubSeq(rest, 3, Len(rest)))

MatchesRule(rule, text) ==
  /\ HeadFits(rule, text)
  /\ HasYear(rule, text) \/ MaybeTime(AfterHead(rule, text))

\* All the rules but today match the text to its end, and so have the same
\* length: the first one is taken.
Matching(text) == SelectSeq(Rules, LAMBDA rule : MatchesRule(rule, text))

PartsOf(rule, text) ==
  SelectSeq(SubSeq(text, 1, Len(rule.head)), LAMBDA t : t.kind \in {"number", "name", "abbr"})

\* What follows @ts; empty if there is no time.
TimeOf(rule, text) ==
  LET rest == AfterHead(rule, text)
      after == IF HasYear(rule, text) THEN SubSeq(rest, 3, Len(rest)) ELSE rest
  IN  IF after = <<>> THEN <<>> ELSE Tail(after)

-----------------------------------------------------------------------------
(* set_date: what is given is kept, the rest is guessed among unidentified *)

Unknown == {}
Current == -1    \* y when no year was read

IsYear(n) == n < 1 \/ n > 31
IsMonth(n) == n >= 1 /\ n <= 12

\* The place in list of the year, the first or the last of three; none if both may be.
GuessYear(list) ==
  LET first == list # <<>> /\ IsYear(Head(list))
      last == Len(list) > 1 /\ (Head(list) = Last(list) \/ IsYear(Last(list)))
  IN  IF first /\ ~last THEN {1} ELSE IF last /\ ~first THEN {Len(list)} ELSE {}

\* Mutant of GuessMonth: two equal months are two candidates.
GuessMonthAmongAll(list) ==
  LET candidates == {i \in DOMAIN list : IsMonth(list[i])}
  IN  IF Cardinality(candidates) = 1 THEN candidates ELSE {}

\* The place of the only month: a candidate equal to the one before it is not counted.
GuessMonth(list) ==
  LET found == FoldLeftDomain(
        LAMBDA match, i : IF /\ IsMonth(list[i])
                             /\ (match = <<>> \/ list[Last(match)] # list[i])
                          THEN Append(match, i) ELSE match, <<>>, list)
  IN  IF Len(found) = 1 THEN {found[1]} ELSE {}

\* A part of a date, known or guessed at a place of list, and the list without it.
Identified(known, place, list) ==
  IF known = Unknown THEN {[value |-> list[i], left |-> RemoveAt(list, i)] : i \in place}
  ELSE {[value |-> v, left |-> list] : v \in known}

\* tm_year, from 1900: a year before 1900 is taken for an offset.
TmYear(now, y) == IF y = Current THEN now.year ELSE IF y >= 1900 THEN y - 1900 ELSE y

\* y, m, d: the known parts, as sets of at most one; now: the current date.  The
\* date, or none if the year or the month is not found.
SetDate(now, y, m, d, unidentified) ==
  UNION {UNION {{[year |-> TmYear(now, year.value), month |-> month.value, day |-> day] :
                   day \in IF d = Unknown THEN {Head(month.left)} ELSE d} :
                month \in Identified(m, GuessMonth(year.left), year.left)} :
         year \in Identified(y, GuessYear(unidentified), unidentified)}

-----------------------------------------------------------------------------
(* The actions of the rules *)

ValueOf(t) == IF IsNumber(t) THEN Atoi(t) ELSE t.value
ValuesOf(text) == [i \in DOMAIN text |-> ValueOf(text[i])]

\* part: the values of the parts; year: Current unless it is read
Identify(now, action, part, year) ==
  CASE action = "ymd" -> SetDate(now, {part[1]}, {part[2]}, {part[3]}, <<>>)
    [] action = "md" -> SetDate(now, {year}, {part[1]}, {part[2]}, <<>>)
    [] action = "dm" -> SetDate(now, {year}, {part[2]}, {part[1]}, <<>>)
    [] action = "md or dm" ->
         IF year = Current THEN SetDate(now, {year}, Unknown, Unknown, part)
         ELSE SetDate(now, {year}, {part[1]}, {part[2]}, <<>>)
    [] action = "ymd or dmy" -> SetDate(now, Unknown, {part[2]}, Unknown, <<part[1], part[3]>>)

\* The date of the rule that matched.
DateOf(now, rule, text) ==
  UNION {Identify(now, rule.action, part, year) :
           part \in {ValuesOf(PartsOf(rule, text))},
           year \in IF HasYear(rule, text) THEN {ValueOf(AfterHead(rule, text)[2])} ELSE {Current}}

\* 0 until a number is read
ClockValues(time) ==
  [i \in 1 .. 5 |-> IF i <= Len(time) /\ IsNumber(time[i]) THEN ValueOf(time[i]) ELSE 0]

\* set_time and parse_am_pm, a set of one: hours, minutes and seconds are read up to
\* the first character that is neither a digit nor a colon.
SetTime(time) ==
  {[hour |-> at[1] + (IF time # <<>> /\ Last(time) = Pm /\ at[1] < 12 THEN 12 ELSE 0),
    minute |-> at[3], second |-> at[5]] : at \in {ClockValues(time)}}

-----------------------------------------------------------------------------
(* is_date_valid and parse_date *)

IsLeapYear(y) == (y % 4 = 0 /\ y % 100 # 0) \/ y % 400 = 0

DaysOf == <<31, 28, 31, 30, 31, 30, 31, 31, 30, 31, 30, 31>>

\* Mutant of DaysInMonth: the offset of the year is forgotten.
DaysInMonthWithoutOffset(date) ==
  IF date.month = 2 /\ IsLeapYear(date.year) THEN 29 ELSE DaysOf[date.month]

DaysInMonth(date) ==
  IF date.month = 2 /\ IsLeapYear(date.year + 1900) THEN 29 ELSE DaysOf[date.month]

IsDateValid(date, time) ==
  /\ time.second \in 0 .. 60 /\ time.minute \in 0 .. 60 /\ time.hour \in 0 .. 23
  /\ date.month \in 1 .. 12
  /\ date.day \in 1 .. DaysInMonth(date)

Accepted(date, time) ==
  [year |-> date.year + 1900, month |-> date.month, day |-> date.day,
   hour |-> time.hour, minute |-> time.minute, second |-> time.second]

\* The date a text is read as, none if it is refused.  A text that begins with
\* today is today at midnight, whatever follows.
ParseDate(now, text) ==
  IF text # <<>> /\ Head(text) = Today
  THEN {Accepted(now, time) : time \in SetTime(<<>>)}
  ELSE UNION {{Accepted(of.date, of.time) :
                 of \in {of \in [date : DateOf(now, rule, text), time : SetTime(TimeOf(rule, text))] :
                          IsDateValid(of.date, of.time)}} :
              rule \in {Head(matching) : matching \in {Matching(text)} \ {<<>>}}}

=============================================================================
