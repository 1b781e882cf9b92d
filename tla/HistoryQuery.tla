---------------------------- MODULE HistoryQuery ----------------------------
(***************************************************************************)
(* pkg history (plugin_history.c): the options, the statement that lists   *)
(* or searches the history, and the rows as they are displayed.  It        *)
(* composes the conversion of numbers (-n, ParseNum) and of dates (-f and  *)
(* -t, Dates) with the query.  The lock the rows are read under is in      *)
(* History: while they are, nothing is written.                            *)
(*                                                                         *)
(* time_t is counted in hours; an int has IntBits bits, as in Dates.       *)
(***************************************************************************)
EXTENDS Dates

CONSTANTS
  Now,          \* the current time, as gmtime breaks it down
  NumberTexts,  \* the arguments of -n, for the first option, the second ...
  DateArguments, \* ... of -f and -t: a text, and the date it was made from,
                \* if it was (a set of one; to compare with)
  Patterns,     \* the arguments that are not options: names, or Star
  Stores,       \* the histories: commands and their lines
  MaxOptions,   \* bound on the number of options
  MayFail       \* may SQLite fail?

ASSUME NowAssumption == Now.month \in 1 .. 12 /\ Now.year \in Nat /\ Now.day \in 1 .. 31
\* A history is finite; its times are numbers and its lines those of its commands.
ASSUME StoresAssumption ==
  \A s \in Stores :
    /\ s.commands \in Seq(Int)
    /\ IsFiniteSet(s.lines)
    /\ \A l \in s.lines : l.command \in DOMAIN s.commands
ASSUME MaxOptionsAssumption ==
  /\ MaxOptions \in Nat /\ MayFail \in BOOLEAN
  /\ Len(NumberTexts) = MaxOptions /\ Len(DateArguments) = MaxOptions
ASSUME NumberTextsAssumption ==
  \A i \in 1 .. MaxOptions : \A text \in NumberTexts[i] : text \in Seq(Range(text))

Operations == {"install", "delete", "upgrade"}
\* A name, and its case; the glob * is written the same way.
Star == <<"*", "as is">>

VARIABLES
  phase,
  qo,        \* query_options_t
  last,      \* the last option that was read and its argument
  options,   \* how many were read
  searched,  \* the argument that is not an option, if there is one
  store,     \* the database
  left,      \* the rows that were not stepped on yet
  previous,  \* previous_command_id, 0 for -1
  upper,     \* the upper half of inserted_at, which nothing initializes
  output     \* what was printed

queryVars == <<phase, qo, last, options, searched, store, left, previous, upper, output>>

-----------------------------------------------------------------------------
(* Time *)

\* Days from 1970-01-01 to a date of the Gregorian calendar.
Days(year, month, day) ==
  LET y == IF month <= 2 THEN year - 1 ELSE year
      m == IF month <= 2 THEN month + 9 ELSE month - 3
  IN  365 * y + y \div 4 - y \div 100 + y \div 400 + (153 * m + 2) \div 5 + day - 1 - 719468

\* timegm
TimeGm(d) == 24 * Days(d.year, d.month, d.day) + d.hour

CInt == IntegerType(TRUE, IntBits)

-----------------------------------------------------------------------------
(* pkg_history_main: the options *)

QueryOptionsInit ==
  [limit |-> 100, operations |-> {}, from |-> 0,
   to |-> TimeGm([year |-> Now.year + 1900, month |-> Now.month, day |-> Now.day, hour |-> 0]),
   origin |-> FALSE, statement |-> "exact_ci"]

QueryInit ==
  /\ phase = "options"
  /\ qo = QueryOptionsInit
  /\ last = <<>>
  /\ options = 0
  /\ searched = {}
  /\ store = [commands |-> <<>>, lines |-> {}]
  /\ left = {}
  /\ previous = 0
  /\ upper = 0
  /\ output = <<>>

ReadOption(option, argument) ==
  /\ phase = "options"
  /\ options < MaxOptions
  /\ options' = options + 1
  /\ last' = <<option, argument>>
  /\ UNCHANGED <<searched, store, left, previous, upper, output>>

\* -d, -i and -u add up; the last of -C and -g wins
Flag ==
  \/ \E op \in Operations :
       /\ ReadOption(op, <<>>)
       /\ qo' = [qo EXCEPT !.operations = @ \cup {op}]
       /\ UNCHANGED phase
  \/ \E statement \in {"exact", "glob"} :
       /\ ReadOption(statement, <<>>)
       /\ qo' = [qo EXCEPT !.statement = statement]
       /\ UNCHANGED phase
  \/ /\ ReadOption("origin", <<>>)
     /\ qo' = [qo EXCEPT !.origin = TRUE]
     /\ UNCHANGED phase

\* -n: any error refuses the command.
LimitOption ==
  options < MaxOptions /\ \E text \in NumberTexts[options + 1] :
    /\ ReadOption("limit", text)
    /\ \E number \in {Strnto(CInt, text, 10, {1}, {Largest(CInt)})} :
         IF number.err = "no_err"
         THEN /\ \E n \in number.ret : qo' = [qo EXCEPT !.limit = n]
              /\ UNCHANGED phase
         ELSE phase' = "invalid" /\ UNCHANGED qo

\* -f and -t
Period ==
  options < MaxOptions /\ \E argument \in DateArguments[options + 1], bound \in {"from", "to"} :
    /\ ReadOption(bound, argument)
    /\ \E dates \in {ParseDate(Now, argument.text)} :
         IF dates # {}
         THEN /\ \E date \in dates : qo' = [qo EXCEPT ![bound] = TimeGm(date)]
              /\ UNCHANGED phase
         ELSE phase' = "invalid" /\ UNCHANGED qo

-----------------------------------------------------------------------------
(* The statements *)

Row(s, line) ==
  [line |-> line, at |-> s.commands[line.command]]

InPeriod(at, from, to) == from <= at /\ at <= to

\* Mutant of Listed: the bounds go through an int there too.
ListedThroughInts(s) ==
  {Row(s, l) : l \in {l \in s.lines :
     /\ InPeriod(s.commands[l.command], Wrap(CInt, qo.from), Wrap(CInt, qo.to))
     /\ l.operation \in qo.operations}}

\* STMT_LIST_LINE: from and to are bound as 64-bit integers.  A command without
\* a line has no operation_id, and no row: the condition on it undoes the LEFT JOIN.
Listed(s) ==
  {Row(s, l) : l \in {l \in s.lines :
     /\ InPeriod(s.commands[l.command], qo.from, qo.to)
     /\ l.operation \in qo.operations}}

\* =, = ... COLLATE NOCASE and GLOB on the name, even with -o
NameMatches(name, pattern) ==
  CASE qo.statement = "exact" -> name = pattern
    [] qo.statement = "exact_ci" -> name[1] = pattern[1]
    [] qo.statement = "glob" -> pattern = Star \/ name = pattern

\* STMT_SEARCH_LINE_*: from and to are bound as ints.
Found(s, pattern) ==
  {Row(s, l) : l \in {l \in s.lines :
     /\ NameMatches(l.name, pattern)
     /\ l.operation \in qo.operations
     /\ InPeriod(s.commands[l.command], Wrap(CInt, qo.from), Wrap(CInt, qo.to))}}

-----------------------------------------------------------------------------
(* The end of pkg_history_main, display_history_full and                   *)
(* display_history_search                                                  *)

EndOfOptions ==
  /\ phase = "options"
  /\ \/ searched' = {}
     \/ \E pattern \in Patterns : searched' = {pattern}
  /\ qo' = [qo EXCEPT !.operations = IF @ = {} THEN Operations ELSE @]
  /\ phase' = "open"
  /\ UNCHANGED <<last, options, store, left, previous, upper, output>>

\* Two arguments or more, or a database that cannot be opened: nothing is shown.
ShowsNothing ==
  /\ phase = "open"
  /\ phase' = "over"
  /\ UNCHANGED <<qo, last, options, searched, store, left, previous, upper, output>>

ExecuteStatement ==
  /\ phase = "open"
  /\ \E s \in Stores :
       /\ store' = s
       /\ left' = IF searched = {} THEN Listed(s)
                  ELSE UNION {Found(s, pattern) : pattern \in searched}
  /\ upper' \in IF searched = {} THEN {0} ELSE {0, 1}
  /\ phase' = "rows"
  /\ UNCHANGED <<qo, last, options, searched, previous, output>>

\* Where the lines are in what was printed.
Shown == {i \in DOMAIN output : output[i].kind = "line"}

\* ORDER BY c.inserted_at DESC, and l.name for the list
Before(r1, r2) ==
  \/ r1.at > r2.at
  \/ searched = {} /\ r1.at = r2.at /\ r1.line.rank < r2.line.rank

StepRow(r) ==
  /\ phase = "rows"
  /\ r \in left
  /\ Cardinality(Shown) < qo.limit
  /\ \A other \in left : ~Before(other, r)
  /\ left' = left \ {r}

Line(r) == [kind |-> "line", line |-> r.line,
            label |-> IF qo.origin THEN r.line.origin ELSE r.line.name]
Header(r) ==
  [kind |-> "command", command |-> r.line.command,
   at |-> (r.at % 2 ^ IntBits) + upper * 2 ^ IntBits]

\* Mutant of DisplayHistoryFull: the previous command is not remembered.
DisplayHistoryFullOnce ==
  /\ searched = {}
  /\ \E r \in left :
       /\ StepRow(r)
       /\ output' = IF previous # 0 THEN Append(output, Line(r))
                    ELSE output \o <<[Header(r) EXCEPT !.at = r.at], Line(r)>>
       /\ previous' = r.line.command
  /\ UNCHANGED <<phase, qo, last, options, searched, store, upper>>

DisplayHistoryFull ==
  /\ searched = {}
  /\ \E r \in left :
       /\ StepRow(r)
       /\ output' = IF previous = r.line.command THEN Append(output, Line(r))
                    ELSE output \o <<[Header(r) EXCEPT !.at = r.at], Line(r)>>
       /\ previous' = r.line.command
  /\ UNCHANGED <<phase, qo, last, options, searched, store, upper>>

\* The time is read as an int, into the lower half of a variable that is not
\* initialized.
DisplayHistorySearch ==
  /\ searched # {}
  /\ \E r \in left :
       /\ StepRow(r)
       /\ output' = output \o <<Header(r), Line(r)>>
  /\ UNCHANGED <<phase, qo, last, options, searched, store, previous, upper>>

\* No row is left, or within the limit; a failure is taken for the end.
EndOfRows ==
  /\ phase = "rows"
  /\ left = {} \/ Cardinality(Shown) >= qo.limit
  /\ phase' = "over"
  /\ UNCHANGED <<qo, last, options, searched, store, left, previous, upper, output>>

StepFails ==
  /\ phase = "rows"
  /\ MayFail
  /\ phase' = "failed"
  /\ UNCHANGED <<qo, last, options, searched, store, left, previous, upper, output>>

QueryNext ==
  \/ Flag \/ LimitOption \/ Period
  \/ EndOfOptions
  \/ ShowsNothing \/ ExecuteStatement
  \/ DisplayHistoryFull \/ DisplayHistorySearch
  \/ EndOfRows \/ StepFails

QuerySpec == QueryInit /\ [][QueryNext]_queryVars

-----------------------------------------------------------------------------
(* What numbers and dates mean, to compare the code with *)

Body(text) == IF At(text, 1, {"-", "+"}) THEN Tail(text) ELSE text

IsNumeral(text, base) ==
  Body(text) # <<>> /\ Range(Body(text)) \subseteq {Digits[i] : i \in 1 .. base}

\* Digit by digit from the right, each worth the base times the one after it.
NumeralValue(text, base) ==
  LET body == Body(text)
      n == Len(body)
      ending[i \in 0 .. n] ==
        IF i = 0 THEN [worth |-> 0, weight |-> 1]
        ELSE [worth |-> ending[i - 1].worth + Rank(Digits, body[n + 1 - i]) * ending[i - 1].weight,
              weight |-> ending[i - 1].weight * base]
      magnitude == ending[n].worth
  IN  IF At(text, 1, {"-"}) THEN -magnitude ELSE magnitude

\* The year a number stands for: what is below 1900 counts from there.
YearMeant(n) == IF n < 1900 THEN 1900 + n ELSE n

Reading(year, month, day) ==
  [year |-> YearMeant(year), month |-> month, day |-> day, hour |-> 0]

\* The length of a month is the distance between the first of two months.
InCalendar(d) ==
  d.day \in 1 .. IF d.month = 12 THEN 31
                 ELSE Days(d.year, d.month + 1, 1) - Days(d.year, d.month, 1)

\* a/b is a day and a month of the current year; a/b/c has a month in the middle,
\* between a year and a day.
Readings(text) ==
  LET n(i) == text[i].value
  IN  {r \in IF Len(text) = 3
             THEN {Reading(Now.year, n(1), n(3)), Reading(Now.year, n(3), n(1))}
             ELSE IF InClass(text[3], "month")
             THEN {Reading(n(1), n(3), n(5)), Reading(n(5), n(3), n(1))}
             ELSE {} :
       r.month \in 1 .. 12 /\ r.day \in 1 .. 31}

\* The order of the parts is to be guessed: it is neither yyyy/mm/dd nor mm/dd/yy.
IsAmbiguous(text) ==
  \/ Fits(text, <<"number", "separator", "number">>)
  \/ /\ Fits(text, <<"number", "separator", "number", "separator", "number">>)
     /\ text[4] = Sep
     /\ ~Fits(text, <<"yyyy", "separator", "number", "separator", "day">>)
     /\ ~Fits(text, <<"month", "separator", "day", "separator", "year">>)

-----------------------------------------------------------------------------
(* Properties *)

\* strtointN_t and strtouintN_t, in the bases up to ten and for a type of any sign: a text
\* is converted into exactly the number it writes, or refused; what does not
\* fit is reported with the bound it exceeds, and no digit is lost to the
\* width of the type.  (Below zero an unsigned type takes the number modulo
\* its range.)
NumbersAreExact ==
  (last # <<>> /\ last[1] = "limit") =>
    \A base \in {2, 8, 10}, signed \in BOOLEAN, bits \in {3, 4, IntBits} :
      LET text == last[2]
          type == IntegerType(signed, bits)
          outcome == Strnto(type, text, base, NoBound, NoBound)
          value == NumeralValue(text, base)
      IN  IF ~IsNumeral(text, base)
          THEN outcome.err = "no_err" => base = 2 /\ Range(text) \cap {"b", "B"} # {}
          ELSE IF value \in Smallest(type) .. Largest(type)
          THEN outcome = Outcome("no_err", {value}, Len(text))
          ELSE IF signed
          THEN outcome = IF value < 0 THEN Outcome("too_small", {Smallest(type)}, Len(text))
                         ELSE Outcome("too_large", {Largest(type)}, Len(text))
          ELSE outcome.err = IF value \in -Largest(type) .. 0 THEN "no_err" ELSE "too_large"

MarchAbbreviated == Abbreviation(3) \in Range(last[2].text)

\* A date of the calendar, written in any of the formats whose order is fixed,
\* with or without a time, is read as that date and that hour.  Not so with the
\* abbreviation of March, which this property leaves aside: the scanner does not
\* know it (AbbreviationsAreRead, below).
DatesAreRead ==
  (last # <<>> /\ last[1] = "from" /\ ~MarchAbbreviated) =>
    \A date \in last[2].madeFrom : phase # "invalid" /\ qo.from = TimeGm(date)

\* "Mar" is among the abbreviated names of months[], as the eleven others are: a
\* date is read with it too.
AbbreviationsAreRead ==
  (last # <<>> /\ last[1] = "from" /\ MarchAbbreviated) =>
    \A date \in last[2].madeFrom : phase # "invalid" /\ qo.from = TimeGm(date)

\* set_date guesses only what cannot be anything else: a date whose parts may be
\* in more than one order is accepted if, and only if, one order alone gives a
\* month from 1 to 12 and a day from 1 to 31, and that day is in the calendar.
GuessTakesTheOnlyReading ==
  (last # <<>> /\ last[1] = "from" /\ IsAmbiguous(last[2].text)) =>
    LET readings == Readings(last[2].text)
    IN  IF \E r \in readings : readings = {r} /\ InCalendar(r)
        THEN phase # "invalid" /\ \A r \in readings : qo.from = TimeGm(r)
        ELSE phase = "invalid"

Matched ==
  {l \in store.lines :
     /\ l.operation \in qo.operations
     /\ InPeriod(store.commands[l.command], qo.from, qo.to)
     /\ \A pattern \in searched : NameMatches(l.name, pattern)}

\* Without a failure, what pkg history -n N shows are N lines of those asked for,
\* or all of them if there are fewer, each once, and none of those it leaves out
\* is more recent than one it shows.  (Of a search, for times that fit an int.)
ShowsTheLatest ==
  (phase = "over" /\ store.lines # {} /\ (searched = {} \/ {qo.from, qo.to} \subseteq 0 .. Largest(CInt))) =>
    LET lines == {output[i].line : i \in Shown}
    IN  /\ lines \subseteq Matched
        /\ Cardinality(lines) = Cardinality(Shown)
        /\ Cardinality(Shown) = Min({qo.limit, Cardinality(Matched)})
        /\ \A l \in lines, other \in Matched \ lines :
             store.commands[other.command] <= store.commands[l.command]

\* Each line is displayed below the command it is a line of, and a command of the
\* list is displayed once, unless another one is of the same time.
LinesUnderTheirCommand ==
  LET headers(command) ==
        {i \in DOMAIN output : output[i].kind = "command" /\ output[i].command = command}
  IN  /\ \A i \in DOMAIN output :
           output[i].kind = "line" =>
             \E h \in headers(output[i].line.command) :
               h < i /\ \A j \in h + 1 .. i : output[j].kind = "line"
      /\ searched = {} =>
           \A c \in DOMAIN store.commands :
             Cardinality(headers(c)) > 1 =>
               \E d \in DOMAIN store.commands \ {c} : store.commands[d] = store.commands[c]
=============================================================================
