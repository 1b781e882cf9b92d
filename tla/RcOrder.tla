------------------------------ MODULE RcOrder ------------------------------
(***************************************************************************)
(* The command pkg rcorder (plugin_services.c, rcorder.c, services_db.c):  *)
(* the options, the scan of the rc.d scripts, the graph that their         *)
(* PROVIDE, REQUIRE and BEFORE make, and the depth-first traversal that    *)
(* prints them.  The order of files in a directory and of tokens in a      *)
(* comment is arbitrary: lists of scripts are sets here, gone through in   *)
(* any order.                                                              *)
(***************************************************************************)
EXTENDS Integers, Sequences, FiniteSets

CONSTANTS Scripts,   \* the rc.d scripts, by name
          Names,     \* what they provide
          Keywords,
          Provided,  \* the PROVIDE of each script
          Packaged,  \* the scripts that belong to a package
          Budget     \* bounds the options and the other tokens

ASSUME ScriptsAssumption == IsFiniteSet(Scripts) /\ IsFiniteSet(Keywords)
ASSUME ProvidedAssumption == Provided \in [Scripts -> SUBSET Names]
ASSUME PackagedAssumption == Packaged \subseteq Scripts
ASSUME BudgetAssumption == Budget \in Nat

VARIABLES
  ks,               \* what the options say of each keyword
  keep_count,       \* how many of them are to be kept
  reverse, include_orphans,
  scripts,          \* those that were scanned
  current,          \* the one that is being read
  package,          \* those that belong to a package
  requires, befores, keywords,
  provides,         \* the scripts that provide each name
  parents, children,
  todo,             \* the scripts, or the roots, the loop has still to visit
  visited,
  stack,            \* the calls of visit_script_bis under way
  printed,
  pc,
  spent

optionVars == <<ks, keep_count, reverse, include_orphans>>
scanVars == <<scripts, current, package, requires, befores, keywords, provides>>
graphVars == <<parents, children>>
visitVars == <<visited, stack, printed>>
rcVars == <<optionVars, scanVars, graphVars, todo, visitVars, pc, spent>>

KsActions == {"KEEP", "SKIP"}

RcInit ==
  /\ ks = [k \in Keywords |-> "NONE"] /\ keep_count = 0
  /\ reverse = FALSE /\ include_orphans = FALSE
  /\ scripts = {} /\ current = {} /\ package = {}
  /\ requires = [s \in Scripts |-> {}] /\ befores = [s \in Scripts |-> {}]
  /\ keywords = [s \in Scripts |-> <<>>]
  /\ provides = [n \in Names |-> {}]
  /\ parents = [s \in Scripts |-> {}] /\ children = [s \in Scripts |-> {}]
  /\ todo = {}
  /\ visited = {} /\ stack = <<>> /\ printed = <<>>
  /\ pc = "options"
  /\ spent = 0

Spend == spent < Budget /\ spent' = spent + 1

-----------------------------------------------------------------------------
(* pkg_rcorder_main: the options *)

\* Mutant of AddKs: it is counted each time it is given.
AddKsCountingTwice(k, act) ==
  /\ pc = "options"
  /\ Spend
  /\ ks' = [ks EXCEPT ![k] = act]
  /\ keep_count' = IF act = "KEEP" THEN keep_count + 1
                   ELSE IF ks[k] = "KEEP" THEN keep_count - 1 ELSE keep_count
  /\ UNCHANGED <<reverse, include_orphans, scanVars, graphVars, todo, visitVars, pc>>

\* rcorder_options_add_ks
AddKs(k, act) ==
  /\ pc = "options"
  /\ Spend
  /\ ks' = [ks EXCEPT ![k] = act]
  /\ keep_count' = CASE act = "KEEP" /\ ks[k] # "KEEP" -> keep_count + 1
                     [] act = "SKIP" /\ ks[k] = "KEEP" -> keep_count - 1
                     [] OTHER -> keep_count
  /\ UNCHANGED <<reverse, include_orphans, scanVars, graphVars, todo, visitVars, pc>>

SetReverse ==
  /\ pc = "options"
  /\ Spend
  /\ reverse' = TRUE
  /\ UNCHANGED <<ks, keep_count, include_orphans, scanVars, graphVars, todo, visitVars, pc>>

SetIncludeOrphans ==
  /\ pc = "options"
  /\ Spend
  /\ include_orphans' = TRUE
  /\ UNCHANGED <<ks, keep_count, reverse, scanVars, graphVars, todo, visitVars, pc>>

OptionsEnd ==
  /\ pc = "options"
  /\ pc' = "scan"
  /\ UNCHANGED <<optionVars, scanVars, graphVars, todo, visitVars, spent>>

\* EX_USAGE, or databases_open fails
RcOrderFails ==
  /\ pc = "options"
  /\ pc' = "failed"
  /\ UNCHANGED <<optionVars, scanVars, graphVars, todo, visitVars, spent>>

-----------------------------------------------------------------------------
(* services_db_scan_system *)

\* register_script and pkg_from_rc_d_script; parse_rc_d_script starts, and
\* handle_provide is among what it does
RegisterScript(s) ==
  /\ pc = "scan"
  /\ s \in Scripts \ scripts
  /\ scripts' = scripts \cup {s}
  /\ current' = {s}
  /\ package' = IF s \in Packaged THEN package \cup {s} ELSE package
  /\ provides' = [n \in Names |-> IF n \in Provided[s] THEN provides[n] \cup {s} ELSE provides[n]]
  /\ UNCHANGED <<optionVars, requires, befores, keywords, graphVars, todo, visitVars, pc, spent>>

Reading(s) == pc = "scan" /\ s \in current /\ Spend

HandleRequire(s, n) ==
  /\ Reading(s)
  /\ requires' = [requires EXCEPT ![s] = @ \cup {n}]
  /\ UNCHANGED <<optionVars, scripts, current, package, befores, keywords, provides,
                 graphVars, todo, visitVars, pc>>

HandleBefore(s, n) ==
  /\ Reading(s)
  /\ befores' = [befores EXCEPT ![s] = @ \cup {n}]
  /\ UNCHANGED <<optionVars, scripts, current, package, requires, keywords, provides,
                 graphVars, todo, visitVars, pc>>

HandleKeyword(s, k) ==
  /\ Reading(s)
  /\ keywords' = [keywords EXCEPT ![s] = Append(@, k)]
  /\ UNCHANGED <<optionVars, scripts, current, package, requires, befores, provides,
                 graphVars, todo, visitVars, pc>>

\* A directory or a script cannot be read; what was read is destroyed.
ScanFails ==
  /\ pc = "scan"
  /\ pc' = "failed"
  /\ scripts' = {} /\ current' = {} /\ package' = {}
  /\ requires' = [s \in Scripts |-> {}] /\ befores' = [s \in Scripts |-> {}]
  /\ keywords' = [s \in Scripts |-> <<>>]
  /\ provides' = [n \in Names |-> {}]
  /\ UNCHANGED <<optionVars, graphVars, todo, visitVars, spent>>

ScanEnds ==
  /\ pc = "scan"
  /\ scripts = Scripts
  /\ pc' = "relate"
  /\ todo' = scripts
  /\ current' = {}
  /\ UNCHANGED <<optionVars, scripts, package, requires, befores, keywords, provides, graphVars, visitVars, spent>>

Providers(names) == UNION {provides[n] : n \in names}

\* Mutant of SetParenthood: what is below does not know what is above.
SetChildren(pairs) ==
  /\ children' = [p \in Scripts |-> children[p] \cup {c \in Scripts : <<p, c>> \in pairs}]
  /\ UNCHANGED parents

SetParenthood(pairs) ==
  /\ children' = [p \in Scripts |-> children[p] \cup {c \in Scripts : <<p, c>> \in pairs}]
  /\ parents' = [c \in Scripts |-> parents[c] \cup {p \in Scripts : <<p, c>> \in pairs}]

\* add_require_relationship and add_before_relationship of one script; a name
\* nobody provides is passed over.
Relate(s) ==
  /\ pc = "relate"
  /\ s \in todo
  /\ todo' = todo \ {s}
  /\ SetParenthood((Providers(requires[s]) \X {s})
                     \cup ({s} \X Providers(befores[s])))
  /\ UNCHANGED <<optionVars, scanVars, visitVars, pc, spent>>

Roots == {s \in scripts : parents[s] = {}}

FindRoots ==
  /\ pc = "relate"
  /\ todo = {}
  /\ todo' = Roots
  /\ pc' = "visit"
  /\ UNCHANGED <<optionVars, scanVars, graphVars, visitVars, spent>>

-----------------------------------------------------------------------------
(* services_db_rcorder_iter *)

\* Mutant of KeepScript: the first keyword an option names decides.
KeepScriptByFirst(s) ==
  LET named == {i \in DOMAIN keywords[s] : ks[keywords[s][i]] # "NONE"}
  IN IF named = {} THEN keep_count = 0
     ELSE ks[keywords[s][CHOOSE i \in named : \A j \in named : i <= j]] = "KEEP"

\* keep_script: keywords are read up to the first one to skip; the last one an
\* option names decides.
KeepScript(s) ==
  LET action == [i \in DOMAIN keywords[s] |-> ks[keywords[s][i]]]
      read == {i \in DOMAIN action :
                 action[i] # "NONE" /\ \A j \in 1 .. i - 1 : action[j] # "SKIP"}
  IN IF read = {} THEN keep_count = 0
     ELSE action[CHOOSE i \in read : \A j \in read : j <= i] = "KEEP"

Kept(s) == (include_orphans \/ s \in package) /\ KeepScript(s)

Display(s, now) ==
  printed' = IF now /\ Kept(s) THEN Append(printed, s) ELSE printed

Calls == [script : Scripts, rest : SUBSET Scripts]
Call(s) == [script |-> s, rest |-> children[s]]

Top == stack[Len(stack)]
WithoutChild(c) == [stack EXCEPT ![Len(stack)].rest = @ \ {c}]

\* Nobody looks whether the root was visited.
VisitRoot(s) ==
  /\ pc = "visit" /\ stack = <<>>
  /\ s \in todo
  /\ todo' = todo \ {s}
  /\ visited' = visited \cup {s}
  /\ stack' = <<Call(s)>>
  /\ Display(s, reverse)
  /\ UNCHANGED <<optionVars, scanVars, graphVars, pc, spent>>

VisitChild(c) ==
  /\ pc = "visit" /\ stack # <<>>
  /\ c \in Top.rest \ visited
  /\ visited' = visited \cup {c}
  /\ stack' = Append(WithoutChild(c), Call(c))
  /\ Display(c, reverse)
  /\ UNCHANGED <<optionVars, scanVars, graphVars, todo, pc, spent>>

\* Mutant of SkipChild: the loop does not go on to the next child.
StayAtChild(c) ==
  /\ pc = "visit" /\ stack # <<>>
  /\ c \in Top.rest \cap visited
  /\ UNCHANGED rcVars

SkipChild(c) ==
  /\ pc = "visit" /\ stack # <<>>
  /\ c \in Top.rest \cap visited
  /\ stack' = WithoutChild(c)
  /\ UNCHANGED <<optionVars, scanVars, graphVars, todo, visited, printed, pc, spent>>

\* Mutant of Leave: the loop ends after the first child.
LeaveEarly ==
  /\ pc = "visit" /\ stack # <<>>
  /\ Top.rest # children[Top.script] \/ Top.rest = {}
  /\ stack' = SubSeq(stack, 1, Len(stack) - 1)
  /\ Display(Top.script, ~reverse)
  /\ UNCHANGED <<optionVars, scanVars, graphVars, todo, visited, pc, spent>>

Leave ==
  /\ pc = "visit" /\ stack # <<>>
  /\ Top.rest = {}
  /\ stack' = SubSeq(stack, 1, Len(stack) - 1)
  /\ Display(Top.script, ~reverse)
  /\ UNCHANGED <<optionVars, scanVars, graphVars, todo, visited, pc, spent>>

VisitEnds ==
  /\ pc = "visit" /\ stack = <<>> /\ todo = {}
  /\ pc' = "done"
  /\ UNCHANGED <<optionVars, scanVars, graphVars, todo, visitVars, spent>>

-----------------------------------------------------------------------------
RcNext ==
  \/ \E k \in Keywords, act \in KsActions : AddKs(k, act)
  \/ SetReverse \/ SetIncludeOrphans \/ OptionsEnd \/ RcOrderFails
  \/ \E s \in Scripts :
       \/ RegisterScript(s)
       \/ \E n \in Names : HandleRequire(s, n) \/ HandleBefore(s, n)
       \/ \E k \in Keywords : HandleKeyword(s, k)
  \/ ScanFails \/ ScanEnds
  \/ \E s \in Scripts : Relate(s)
  \/ FindRoots
  \/ \E s \in Scripts : VisitRoot(s) \/ VisitChild(s) \/ SkipChild(s)
  \/ Leave \/ VisitEnds

RcSpec == RcInit /\ [][RcNext]_rcVars /\ WF_rcVars(RcNext)

-----------------------------------------------------------------------------
(* Properties *)

Leads(s) == {t \in Scripts :
  \A closed \in SUBSET Scripts :
    (children[s] \subseteq closed /\ \A x \in closed : children[x] \subseteq closed)
      => t \in closed}

Position(s) == CHOOSE i \in DOMAIN printed : printed[i] = s
Printed == {printed[i] : i \in DOMAIN printed}

RcTypeOK ==
  /\ ks \in [Keywords -> KsActions \cup {"NONE"}]
  /\ keep_count \in Nat
  /\ reverse \in BOOLEAN /\ include_orphans \in BOOLEAN
  /\ scripts \subseteq Scripts
  /\ current \subseteq scripts /\ package \subseteq Scripts
  /\ requires \in [Scripts -> SUBSET Names] /\ befores \in [Scripts -> SUBSET Names]
  /\ keywords \in [Scripts -> Seq(Keywords)]
  /\ provides \in [Names -> SUBSET Scripts]
  /\ parents \in [Scripts -> SUBSET Scripts]
  /\ children \in [Scripts -> SUBSET Scripts]
  /\ todo \subseteq Scripts /\ visited \subseteq Scripts
  /\ stack \in Seq(Calls)
  /\ printed \in Seq(Scripts)
  /\ pc \in {"options", "scan", "relate", "visit", "done", "failed"}
  /\ spent \in 0 .. Budget

\* The counter that makes scripts without a keyword to keep be left out is the
\* number of keywords whose last option was -k, in whatever order and however
\* often -k and -s are given (rcorder_options_add_ks).
KeepCountCounts == keep_count = Cardinality({k \in Keywords : ks[k] = "KEEP"})

\* No script is printed twice although the roots are not looked up in visited,
\* whatever cycles and common children the graph has (visit_script_bis).
PrintedOnce == \A i, j \in DOMAIN printed : printed[i] = printed[j] => i = j

\* What the code does, not what it says (RequiredFirst, below, is what it says):
\* without -r a script is printed after each of its children that does not lead
\* back to it, and after all that such a child leads to; cycles elsewhere in the
\* graph do not matter (visit_script_bis).  Children are the scripts that depend
\* on it, so that the order is that of a shutdown.  More would not hold: a script
\* on a cycle may come before one that its ancestor on the cycle still has to visit.
DependentsFirst ==
  ~reverse =>
    \A s \in Printed : \A c \in children[s] :
      s \notin {c} \cup Leads(c) =>
        \A t \in {c} \cup Leads(c) :
          Kept(t) => t \in Printed /\ Position(t) < Position(s)

\* What the options say, by the usage text
Wanted(s) ==
  LET words == {keywords[s][i] : i \in DOMAIN keywords[s]} IN
  /\ include_orphans \/ s \in package
  /\ \A k \in words : ks[k] # "SKIP"
  /\ (\E k \in Keywords : ks[k] = "KEEP") => \E k \in words : ks[k] = "KEEP"

\* What is printed is what the options ask for, of the scripts that a root
\* leads to: a cycle no root leads to is not printed (services_db_rcorder_iter,
\* keep_script).
PrintsWhatIsWanted ==
  pc = "done" =>
    Printed = {s \in Roots \cup UNION {Leads(r) : r \in Roots} : Wanted(s)}

\* Why no script is printed twice (RcOrderProofs): the graph is known from both
\* ends, so that a root is no child; the calls under way are of distinct
\* scripts, visited, and without -r not printed yet; the roots to come are not
\* visited (set_parenthood, visit_script_bis).
BothEnds == \A p, c \in Scripts : c \in children[p] <=> p \in parents[c]

StackInv ==
  /\ \A i \in DOMAIN stack :
       /\ stack[i].script \in visited
       /\ stack[i].rest \subseteq children[stack[i].script]
       /\ ~reverse => stack[i].script \notin Printed
  /\ \A i, j \in DOMAIN stack : stack[i].script = stack[j].script => i = j

VisitInv ==
  /\ Printed \subseteq visited
  /\ pc \in {"options", "scan", "relate"} => visited = {} /\ stack = <<>>
  /\ pc = "visit" => \A r \in todo : parents[r] = {} /\ r \notin visited

TraversalInv == BothEnds /\ StackInv /\ VisitInv

\* "a reimplementation of rcorder", of which -r is the "reverse order", and children
\* are "same as requires": without -r, of a graph without cycle, a script is printed
\* after those it requires.
RequiredFirst ==
  (pc = "done" /\ ~reverse /\ \A s \in Scripts : s \notin Leads(s)) =>
    \A s \in Printed : \A t \in Providers(requires[s]) \cap Printed :
      Position(t) < Position(s)

\* The command ends, whatever cycles there are.
RcEnds == <>(pc \in {"done", "failed"})

=============================================================================
