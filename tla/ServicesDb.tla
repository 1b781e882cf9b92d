------------------------------ MODULE ServicesDb ------------------------------
(***************************************************************************)
(* The database of services that a scan of rc.d builds (services_db.c), as *)
(* far as packages are concerned: which package installs a script, and     *)
(* which packages it needs the shared libraries of.  A database is a       *)
(* record; the graph of the scripts is in RcOrder.                         *)
(***************************************************************************)
CONSTANTS Services,   \* the rc.d scripts
          Packages,
          Base,       \* the base system, which is no package
          Owner,      \* what installs each script
          Uses        \* the packages whose shared libraries its package needs

ASSUME OwnerAssumption == Base \notin Packages /\ Owner \in [Services -> Packages \cup {Base}]
ASSUME UsesAssumption == Uses \in [Services -> SUBSET Packages]
\* The libraries are those of the package of a script.
ASSUME BaseAssumption == \A s \in Services : Owner[s] = Base => Uses[s] = {}

\* The scripts of rc.d and, for pkgdb_query_which, their packages.
Present(installed) == {s \in Services : Owner[s] \in installed \cup {Base}}

\* services_db_create
EmptyDb == [scripts |-> {}, packages |-> <<>>]

\* package_create
NewPackage == [scripts |-> {}, rshlibs |-> {}]

\* Mutant of PackageRetrieve: the table is not looked up first.
PackageRetrieveAnew(packages, p) == NewPackage

\* package_retrieve: the package of the table, or one that is added to it
PackageRetrieve(packages, p) == IF p \in DOMAIN packages THEN packages[p] ELSE NewPackage

\* associate_package_to_script
Associate(package, s) == [package EXCEPT !.scripts = @ \cup {s}]

\* dlist_insert_unique(&shlib_package->rshlibs, script)
Requires(package, s) == [package EXCEPT !.rshlibs = @ \cup {s}]

\* What becomes of the package p when the script s is found
WithScript(packages, p, s, libraries) ==
  LET package == PackageRetrieve(packages, p)
      owner == IF p = Owner[s] THEN Associate(package, s) ELSE package
  IN  IF p \in libraries THEN Requires(owner, s) ELSE owner

\* pkg_from_rc_d_script: a script of the base system has no package.  A library
\* is looked for among what is installed (pkgdb_query_shlib_provide).
PkgFromRcDScript(packages, s, installed) ==
  LET libraries == Uses[s] \cap installed
      retrieved == {Owner[s]} \cup libraries
  IN  IF Owner[s] = Base THEN packages
      ELSE [p \in DOMAIN packages \cup retrieved |->
              IF p \in retrieved THEN WithScript(packages, p, s, libraries)
              ELSE packages[p]]

\* register_script and what follows it in scan_rc_d_directory
ScanScript(db, s, installed) ==
  [scripts |-> db.scripts \cup {s},
   packages |-> PkgFromRcDScript(db.packages, s, installed)]

\* What services_db_scan_system comes to next: /etc/rc.d goes first.
NextScripts(db, installed) ==
  LET left == Present(installed) \ db.scripts
      first == {s \in left : Owner[s] = Base}
  IN  IF first = {} THEN left ELSE first

\* package_to_services_iterator
ServicesOf(db, p) ==
  IF p \in DOMAIN db.packages THEN db.packages[p].scripts ELSE {}

\* services_db_rshlib
Dependents(db, p) ==
  IF p \in DOMAIN db.packages THEN db.packages[p].rshlibs ELSE {}
===============================================================================
