--------------------------- MODULE MCHistoryQuery ---------------------------
(***************************************************************************)
(* One instance of HistoryQuery for two questions: the arguments of the    *)
(* options, over many texts, and the query itself, over small histories    *)
(* and with the few arguments that matter to it.  An argument of the first *)
(* kind is the only option of its command, which ends with it (MCArguments *)
(* is the constraint of the run).                                          *)
(***************************************************************************)
EXTENDS HistoryQuery

\* 2023-03-05, not a leap year
MCNow == [year |-> 123, month |-> 3, day |-> 5]

(* -n: every text of up to three characters, and those at the bounds *)
MCChars == {"0", "1", "7", "8", "9", "-", "+", "b", "F", "?"}
MCBounds == {<<"5", "2", "4", "2", "8", d>> : d \in {"7", "8"}}
              \cup {<<"-", "5", "2", "4", "2", "8", d>> : d \in {"8", "9"}}
              \cup {<<"1", "0", "4", "8", "5", "7", d>> : d \in {"5", "6"}}
              \cup {[i \in 1 .. n |-> "9"] : n \in 4 .. 8}
              \cup {<<"0", "0", "0", "0", "0", "0", "0", "1">>}
MCNumberTexts == MCBounds \cup UNION {[1 .. n -> MCChars] : n \in 0 .. 3}

(* Dates, and the texts made from them *)
MCDates ==
  {[year |-> y, month |-> m, day |-> d] :
     y \in {1900, 1999, 2000, 2023, 2024}, m \in {1, 2, 3, 12}, d \in {1, 8, 12, 28, 29, 31}}

MCDay(d) == {Number(d, 2)} \cup IF d < 10 THEN {Number(d, 1)} ELSE {}
MCYear(y) == {Number(y, 4)} \cup IF y < 2000 THEN {Number(y - 1900, 2)} ELSE {}
MCMonthText(m) == {Name(m), Abbreviation(m)}

MCFormats(y, m, d) ==
  {<<Number(y, 4), s, n, s, k>> : s \in {Sep, Spaces}, n \in MCDay(m), k \in MCDay(d)}
  \cup {<<n, Sep, k, Sep, z>> : n \in MCDay(m), k \in MCDay(d), z \in MCYear(y)}
  \cup {<<Number(y, 4), Spaces, t, Spaces, k>> : t \in MCMonthText(m), k \in MCDay(d)}
  \cup {<<t, Spaces, k, Spaces, z>> : t \in MCMonthText(m), k \in MCDay(d), z \in MCYear(y)}
  \cup {<<k, t, Sep, z>> : t \in MCMonthText(m), k \in MCDay(d), z \in MCYear(y)}
  \cup IF y = 2023 THEN {<<k, Spaces, t>> : t \in MCMonthText(m), k \in MCDay(d)}
                        \cup {<<t, Spaces, k>> : t \in MCMonthText(m), k \in MCDay(d)}
       ELSE {}

MCClocks ==
  << [hour |-> 0, text |-> <<>>],
     [hour |-> 1, text |-> <<Spaces, Number(1, 2), Colon, Number(23, 2)>>],
     [hour |-> 12, text |-> <<Spaces, Number(0, 1), Pm>>],
     [hour |-> 19, text |-> <<Spaces, Number(7, 2), Colon, Number(55, 2), Colon, Number(2, 1), Spaces, Pm>>],
     [hour |-> 11, text |-> <<Spaces, Number(11, 2), Am>>],
     [hour |-> 23, text |-> <<Spaces, Number(23, 2), Colon, Number(59, 2), Colon, Number(59, 2)>>] >>

\* Each date at midnight, and at one of the other hours
MCRendered ==
  UNION {{[text |-> f \o MCClocks[c].text, madeFrom |-> {d @@ [hour |-> MCClocks[c].hour]}] :
            f \in MCFormats(d.year, d.month, d.day), c \in {1, (d.day % 6) + 1}} :
         d \in {d \in MCDates : InCalendar(d)}}

(* Numbers whose order is to be guessed, and what is not a date *)
MCNumbers == {Number(0, 1), Number(2, 2), Number(5, 1), Number(11, 2), Number(12, 2),
              Number(13, 2), Number(29, 2), Number(30, 2), Number(31, 2), Number(45, 2),
              Number(5, 3), Number(150, 3), Number(1999, 4), Number(2024, 4), Number(20231, 5)}
MCGuessed == {<<a, s, b>> : a \in MCNumbers, b \in MCNumbers, s \in {Sep, Spaces}}
               \cup {<<a, Sep, b, Sep, c>> :
                       a \in MCNumbers, b \in {Number(2, 2), Number(12, 2), Number(13, 2)},
                       c \in MCNumbers}
MCNotDates == {<<>>, <<Garbage>>, <<Today, Garbage>>, <<Name(3)>>, <<Number(8, 1)>>,
               <<Number(8, 1), Name(1), Garbage>>}

MCUnwritten(text) == [text |-> text, madeFrom |-> {}]
MCWrittenDates == MCRendered \cup {MCUnwritten(t) : t \in MCGuessed \cup MCNotDates}

-----------------------------------------------------------------------------
(* Histories: three commands at times of 2023, or beyond an int, and lines *)

MCVim == <<"vim", "lower">>
MCVIM == <<"vim", "upper">>
MCGit == <<"git", "lower">>

MCLine(command, name, operation, rank) ==
  [command |-> command, name |-> name, origin |-> <<"origin", name[1]>>,
   operation |-> operation, rank |-> rank]
MCLines == {
  {MCLine(1, MCGit, "install", 2), MCLine(1, MCVim, "install", 3), MCLine(2, MCGit, "upgrade", 2),
   MCLine(2, MCVIM, "upgrade", 1)},
  {MCLine(1, MCVim, "install", 3), MCLine(2, MCVim, "upgrade", 3), MCLine(3, MCVim, "delete", 3)}}
MCMarch(day) == 24 * Days(2023, 3, day) + 9
MCTimes == {MCMarch(1), MCMarch(2), MCMarch(4)}
MCStores == {[commands |-> times, lines |-> lines] : times \in [1 .. 3 -> MCTimes], lines \in MCLines}

MCPatterns == {MCVim, MCVIM, Star}
MCQueryDates == {MCUnwritten(<<Number(2023, 4), Sep, Number(3, 2), Sep, Number(2, 2)>>),
                 MCUnwritten(<<Number(2040, 4), Sep, Number(1, 2), Sep, Number(1, 2)>>)}
MCQueryLimits == {<<"1">>, <<"2">>, <<"3">>}

\* What the first option may be given, and the second
MCAllNumberTexts == <<MCNumberTexts \cup MCQueryLimits, MCQueryLimits>>
MCAllDateArguments == <<MCWrittenDates \cup MCQueryDates, MCQueryDates>>

\* A state that an argument of the first kind has led to is checked, and not left.
MCArguments ==
  \/ last = <<>>
  \/ last[1] = "limit" /\ last[2] \in MCQueryLimits
  \/ last[1] \in {"from", "to"} /\ last[2] \in MCQueryDates
  \/ last[1] \notin {"limit", "from", "to"}
=============================================================================
