------------------------------ MODULE UseFlags ------------------------------
(***************************************************************************)
(* Use flags: the `use' command changes the list in ttrek.json, an install *)
(* records with each package the flags it knows (iuse) and those of them   *)
(* it was built with (use), and a later plan compares these with the list  *)
(* (exact_use_flags_p) to find what has to be built again.                 *)
(***************************************************************************)
EXTENDS Integers, Sequences, FiniteSets

CONSTANTS
    Name,      \* names of flags, among them "u", which is also an option
    Lines,     \* arguments of `use add', `use del' and `use set'
    Pkg,       \* package names
    KnownSets, \* the flags that versions of packages may know
    None       \* not installed

\* A flag is a sign and a name; a string without a sign has the sign "".
Flag == [sign : {"+", "-", ""}, name : Name]
OptionUser == [sign |-> "-", name |-> "u"]
Mode == {"local", "user"}

ASSUME LinesAssumption == Lines \subseteq Seq(Flag)
ASSUME KnownAssumption == KnownSets \subseteq SUBSET {f \in Flag : f.sign # ""}
ASSUME NoneAssumption == None \notin [iuse : SUBSET Flag, use : SUBSET Flag]

VARIABLES
    useFlags,  \* "useFlags" of ttrek.json in each mode
    record     \* iuse and use of each package in the local lock file

vars == <<useFlags, record>>

Elements(s) == {s[i] : i \in DOMAIN s}
Valid(s) == \A f \in Elements(s) : f.sign # ""
Names(s) == {f.name : f \in Elements(s)}

(***************************************************************************)
(* The hash table of a list: the last sign of a name counts.               *)
(***************************************************************************)
Table(s) ==
    {s[i] : i \in {j \in DOMAIN s : \A k \in (j + 1)..Len(s) : s[k].name # s[j].name}}

\* A table is written out in some order.
ListsOf(table) ==
    {s \in [1..Cardinality(table) -> table] : table \subseteq Elements(s)}

Init ==
    /\ useFlags = [m \in Mode |-> <<>>]
    /\ record = [p \in Pkg |-> None]

(***************************************************************************)
(* ttrek use add | del | set                                               *)
(***************************************************************************)
ModeOf(line) == IF OptionUser \in Elements(line) THEN "user" ELSE "local"

\* Tcl_ParseArgsObjv counts what is left and puts it in remObjv, but the
\* subcommands read as many arguments from the line itself.
Left(line) == Cardinality({i \in DOMAIN line : line[i] # OptionUser})
Arguments(line) == SubSeq(line, 1, Left(line))

\* Mutant: the flags are added to an empty table.
UseAddAlone(line) ==
    LET m == ModeOf(line)
    IN /\ Left(line) > 0
       /\ \E s \in ListsOf(Table(Arguments(line))) : useFlags' = [useFlags EXCEPT ![m] = s]
       /\ UNCHANGED record

\* An invalid flag, old or new, leaves the list as it is.
UseAdd(line) ==
    LET m == ModeOf(line)
        s == useFlags[m] \o Arguments(line)
    IN /\ Left(line) > 0
       /\ IF Valid(s)
          THEN \E t \in ListsOf(Table(s)) : useFlags' = [useFlags EXCEPT ![m] = t]
          ELSE UNCHANGED useFlags
       /\ UNCHANGED record

UseDel(line) ==
    LET m == ModeOf(line)
        left == {f \in Table(useFlags[m]) : f.name \notin Names(Arguments(line))}
    IN /\ Left(line) > 0
       /\ IF Valid(useFlags[m] \o Arguments(line))
          THEN \E t \in ListsOf(left) : useFlags' = [useFlags EXCEPT ![m] = t]
          ELSE UNCHANGED useFlags
       /\ UNCHANGED record

\* The list is replaced by the arguments, which are not looked at.
UseSet(line) ==
    /\ useFlags' = [useFlags EXCEPT ![ModeOf(line)] = Arguments(line)]
    /\ UNCHANGED record

(***************************************************************************)
(* Recording and comparing                                                 *)
(***************************************************************************)
InForce == Table(useFlags["local"])

\* ttrek_HashTableIntersectionWithIUse.
Intersection(known) == InForce \cap known

\* Mutant: only flags that are in force are compared.
ExactForward(p) == InForce \cap record[p].iuse \subseteq record[p].use

\* ttrek_HashTableCompareUseFlagsEqual: every flag in force that the package
\* knows was used, and every flag that was used is in force.
Exact(p) ==
    /\ InForce \cap record[p].iuse \subseteq record[p].use
    /\ record[p].use \subseteq InForce

Installed == {p \in Pkg : record[p] # None}

\* UseFlag's constructor throws on an invalid flag, and the solver finds no
\* solution when a flag is required with both signs.
Solvable(s) == Valid(s) /\ \A f, g \in Elements(s) : f.name = g.name => f = g

\* An install: what is new, has another version or is built again for another
\* reason, and what is not exact, is built and recorded.
Install(changed, known) ==
    /\ Solvable(useFlags["local"])
    /\ record' = [p \in Pkg |->
        IF p \in changed THEN [iuse |-> known[p], use |-> Intersection(known[p])]
        ELSE IF p \in Installed /\ ~Exact(p)
             THEN [record[p] EXCEPT !.use = Intersection(record[p].iuse)]
             ELSE record[p]]
    /\ UNCHANGED useFlags

Next ==
    \/ \E line \in Lines : UseAdd(line) \/ UseDel(line) \/ UseSet(line)
    \/ \E changed \in SUBSET Pkg : \E known \in [changed -> KnownSets] : Install(changed, known)

Spec == Init /\ [][Next]_vars

(***************************************************************************)
(* Properties                                                              *)
(***************************************************************************)
\* A package was built with flags it knows, each with one sign.
TypeOK ==
    /\ useFlags \in [Mode -> Seq(Flag)]
    /\ \A p \in Installed :
        /\ record[p].iuse \in KnownSets
        /\ record[p].use \subseteq record[p].iuse
        /\ \A f, g \in record[p].use : f.name = g.name => f = g

\* The comparison finds a package exact when and only when building it again
\* would record the same flags, whatever the flags have been since it was built
\* (ttrek_HashTableCompareUseFlagsEqual).
ExactIffUnchanged ==
    \A p \in Installed : Exact(p) <=> Intersection(record[p].iuse) = record[p].use

\* `use add' and `use del' leave the sign of every other flag in force as it was.
OthersKept ==
    [][\A line \in Lines : UseAdd(line) \/ UseDel(line) =>
        \A f \in Flag : f.name \notin Names(Arguments(line)) =>
            (f \in Table(useFlags[ModeOf(line)])
                <=> f \in Table(useFlags'[ModeOf(line)]))]_vars
=============================================================================
