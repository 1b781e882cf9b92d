------------------------------ MODULE MCRawZfs ------------------------------
(***************************************************************************)
(* Two pools: "sys" with / on ROOT and, beside it, "usr"; below ROOT there *)
(* is "below"; "data" is a pool of its own.  Three rounds in two seconds:  *)
(* one that a purge destroys at least shares its second with another.      *)
(***************************************************************************)
EXTENDS RawZfs, TLC

CONSTANTS r1, r2, r3

MCRounds == {r1, r2, r3}
AnyRounds == Permutations(MCRounds)

MCFilesystems == {"ROOT", "below", "usr", "data"}
MCPool == [f \in MCFilesystems |-> IF f = "data" THEN "data" ELSE "sys"]
MCAbove == [f \in MCFilesystems |-> IF f = "below" THEN {"ROOT"} ELSE {}]
Layout(root, localbase, pkg_dbdir) ==
  [p \in Paths |-> CASE p = "root" -> root
                     [] p = "localbase" -> localbase
                     [] p = "pkg_dbdir" -> pkg_dbdir]

\* One for each way through the choice of a method and the list of targets
MCLayouts ==
  {Layout("ROOT", "ROOT", "ROOT"),   \* a boot environment
   Layout("ROOT", "below", "usr"),   \* one pool: a recursive snapshot
   Layout("ROOT", "usr", NotZfs),
   Layout("ROOT", "data", "ROOT"),   \* separate snapshots, / twice
   Layout("ROOT", "data", "usr"),    \* ... of three file systems
   Layout("ROOT", NotZfs, "ROOT"),   \* no backup
   Layout(NotZfs, "usr", "usr")}     \* uzfs_depth(NULL)

\* A bound: with three file systems, the commands that leave a snapshot without its
\* properties behind are the last ones looked at.
FewOrphans ==
  (layout = Layout("ROOT", "data", "usr") /\ pc = "idle") => snapshots = Tagged

MCKeepTwo == [form |-> "number", value |-> 2, unit |-> 0]
=============================================================================
