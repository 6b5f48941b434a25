---------------------------- MODULE InstallScript ----------------------------
(***************************************************************************)
(* The scripts that build packages.  The registry has, for a version of a  *)
(* package, a list of commands, some of which (and some options of which)  *)
(* depend on a use flag.  ttrek_generateInstallScript turns those in force *)
(* into a shell script that stops at the first command to fail; a package  *)
(* is recorded with its flags (UseFlags) when its script has ended.  The   *)
(* project itself is built by the same generator from "build" of           *)
(* ttrek.json (ttrek_RunBuildInstructions), on the sources as they are.    *)
(***************************************************************************)
EXTENDS UseFlags, SequencesExt

CONSTANTS
    Recipes,   \* what the registry may have for a version: iuse and commands
    Builds,    \* what "build" of ttrek.json may be: sequences of commands
    NoFlag,    \* there is no "if"
    Project    \* not a package: the project itself

(***************************************************************************)
(* Commands                                                                *)
(***************************************************************************)
Fetching == {"download", "git", "unpack", "patch"}
Optioned == {"autogen", "configure", "cmake_config", "make", "make_install"}
CommandNames ==
    Fetching \cup Optioned \cup {"cd", "env_variable", "cmake_make", "cmake_install"}

\* An option of a command; without a name it is passed over.
Option == [if : Flag \cup {NoFlag}, named : BOOLEAN]

\* has: the fields that are there and are strings.  sound: every other field
\* (parallel, op, the characters of a variable's name) is one the code reads.
Commands == [cmd : STRING, if : Flag \cup {NoFlag}, has : SUBSET {"url", "filename", "name", "value"},
             unset : BOOLEAN, sound : BOOLEAN, options : Seq(Option)]

\* A line of a script, and the options it passes.
ScriptLine == [run : CommandNames \cup {"remove .git", "export"}, options : SUBSET Nat]

ASSUME RecipeAssumption ==
    \A r \in Recipes : r.iuse \in KnownSets /\ r.commands \in Seq(Commands)
ASSUME BuildAssumption == Builds \subseteq Seq(Commands)
ASSUME NamesAssumption ==
    /\ None \notin Pkg \cup {Project} \cup Recipes
    /\ Project \notin Pkg
    /\ None \notin [record : [iuse : SUBSET Flag, use : SUBSET Flag],
                    built : [recipe : Recipes, lines : Seq(ScriptLine)]]

\* Mutant: the sign is not looked at.
EnabledByName(flag, table) == flag = NoFlag \/ \E f \in table : f.name = flag.name

\* ttrek_IsUseFlagEnabled: a flag is on when the table has it with its sign.
Enabled(flag, table) == flag = NoFlag \/ flag \in table

\* A flag without a sign ends the generation.
Unreadable(flag) == flag # NoFlag /\ flag.sign = ""

Needed(c) ==
    CASE c.cmd \in {"download", "git"} -> {"url"}
      [] c.cmd = "patch"               -> {"filename"}
      [] c.cmd = "env_variable"        -> IF c.unset THEN {"name"} ELSE {"name", "value"}
      [] OTHER                         -> {}

OptionsRefused(c) ==
    c.cmd \in Optioned /\ \E i \in DOMAIN c.options : Unreadable(c.options[i].if)

Refused(c) == ~c.sound \/ ~(Needed(c) \subseteq c.has) \/ OptionsRefused(c)

\* Mutant: the project's own sources are fetched again.
SkippedNever(c, local) == FALSE

\* enable_in_local_build.
Skipped(c, local) == local /\ c.cmd \in Fetching

\* The commands are read in order, those that are off not beyond their flag.
Faulty(c, table, local) ==
    \/ Unreadable(c.if)
    \/ /\ Enabled(c.if, table)
       /\ \/ c.cmd \notin CommandNames
          \/ ~Skipped(c, local) /\ Refused(c)

OptionsOn(c, table) ==
    IF c.cmd \notin Optioned THEN {}
    ELSE {i \in DOMAIN c.options : c.options[i].named /\ Enabled(c.options[i].if, table)}

(***************************************************************************)
(* A line of the script.  Each ends in `|| fail'; those that only show the *)
(* progress are left out.                                                  *)
(***************************************************************************)
Line(run, options) == [run |-> run, options |-> options]

Body(c, table) ==
    LET work == Line(c.cmd, OptionsOn(c, table))
    IN CASE c.cmd = "autogen"      -> <<Line("cd", {}), work>>
         [] c.cmd = "patch"        -> <<Line("cd", {}), work>>
         [] c.cmd = "git"          -> <<work, Line("remove .git", {})>>
         [] c.cmd = "env_variable" -> IF c.unset THEN <<work>> ELSE <<work, Line("export", {})>>
         [] OTHER                  -> <<work>>

\* ttrek_SpecToObj.
Script(commands, table, local) ==
    LET on(c) == Enabled(c.if, table) /\ ~Skipped(c, local)
    IN FlattenSeq([i \in DOMAIN commands |->
                      IF on(commands[i]) THEN Body(commands[i], table) ELSE <<>>])

Generates(commands, table, local) ==
    \A i \in DOMAIN commands : ~Faulty(commands[i], table, local)

(***************************************************************************)
(* An install                                                              *)
(***************************************************************************)
VARIABLES
    built,     \* for each installed package, its recipe and the lines that made it
    todo,      \* the packages still to build, each with its recipe
    pending,   \* what this install has built and will record
    current,   \* whose script is running
    script,    \* the lines of the script
    ran        \* how many of them have ended well

install == <<todo, pending, current, script, ran>>
allVars == <<useFlags, record, built, todo, pending, current, script, ran>>

Nothing == [p \in Pkg |-> None]

ScriptInit ==
    /\ Init
    /\ built = Nothing
    /\ todo = Nothing
    /\ pending = Nothing
    /\ current = None
    /\ script = <<>>
    /\ ran = 0

Some(f) == {p \in Pkg : f[p] # None}
Idle == current = None /\ Some(todo) = {} /\ Some(pending) = {}

UseCommand ==
    /\ Idle
    /\ \E line \in Lines : UseAdd(line) \/ UseDel(line) \/ UseSet(line)
    /\ UNCHANGED <<built, install>>

\* The packages of the plan: new ones, other versions, whatever else is built
\* again (ExecutionPlan), and those that are not exact, from their own recipe.
Plan(S) ==
    /\ Idle
    /\ Solvable(useFlags["local"])
    /\ \E recipe \in [S -> Recipes] :
        LET changed == {p \in Installed \ S : ~Exact(p)}
        IN /\ S \cup changed # {}
           /\ todo' = [p \in Pkg |-> IF p \in S THEN recipe[p]
                                     ELSE IF p \in changed THEN built[p].recipe ELSE None]
    /\ UNCHANGED <<useFlags, record, built, pending, current, script, ran>>

Clear ==
    /\ todo' = Nothing
    /\ pending' = Nothing
    /\ current' = None
    /\ script' = <<>>
    /\ ran' = 0

\* Mutant: what was built before the failure is recorded.
EndRecords ==
    /\ record' = [p \in Pkg |-> IF pending[p] = None THEN record[p] ELSE pending[p].record]
    /\ built' = [p \in Pkg |-> IF pending[p] = None THEN built[p] ELSE pending[p].built]
    /\ Clear
    /\ UNCHANGED useFlags

\* When a step fails the install ends and what it has built is taken back
\* (PackageFiles).
End == Clear /\ UNCHANGED <<useFlags, record, built>>

\* The recipe comes from the registry, which may not answer.
Start(p) ==
    /\ current = None
    /\ todo[p] # None
    /\ \/ /\ Generates(todo[p].commands, InForce, FALSE)
          /\ current' = p
          /\ script' = Script(todo[p].commands, InForce, FALSE)
          /\ UNCHANGED <<useFlags, record, built, todo, pending, ran>>
       \/ End

Running == current # None /\ ran < Len(script)

LineEnds ==
    /\ Running
    /\ ran' = ran + 1
    /\ UNCHANGED <<useFlags, record, built, todo, pending, current, script>>

\* Mutant: a command that fails is left behind (no `|| fail').
LineFailsUnseen ==
    /\ Running
    /\ script' = RemoveAt(script, ran + 1)
    /\ UNCHANGED <<useFlags, record, built, todo, pending, current, ran>>

\* `|| fail': the script exits with the command's code.  A local build ends
\* like this too; it has nothing to record.
LineFails == Running /\ End

\* The script has ended well: iuse is the registry's, use what of it is in force.
Record(p) ==
    /\ current = p
    /\ ran = Len(script)
    /\ pending' = [pending EXCEPT ![p] =
          [record |-> [iuse |-> todo[p].iuse, use |-> Intersection(todo[p].iuse)],
           built  |-> [recipe |-> todo[p], lines |-> script]]]
    /\ todo' = [todo EXCEPT ![p] = None]
    /\ current' = None
    /\ script' = <<>>
    /\ ran' = 0
    /\ UNCHANGED <<useFlags, record, built>>

\* The documents are written when every package has been built.
Finish ==
    /\ current = None
    /\ Some(todo) = {}
    /\ Some(pending) # {}
    /\ record' = [p \in Pkg |-> IF pending[p] = None THEN record[p] ELSE pending[p].record]
    /\ built' = [p \in Pkg |-> IF pending[p] = None THEN built[p] ELSE pending[p].built]
    /\ pending' = Nothing
    /\ UNCHANGED <<useFlags, todo, current, script, ran>>

\* ttrek_RunBuildInstructions, after an install without arguments.
LocalBuild ==
    /\ Idle
    /\ Valid(useFlags["local"])
    /\ \E commands \in Builds :
        /\ Generates(commands, InForce, TRUE)
        /\ script' = Script(commands, InForce, TRUE)
    /\ current' = Project
    /\ UNCHANGED <<useFlags, record, built, todo, pending, ran>>

LocalDone ==
    /\ current = Project
    /\ ran = Len(script)
    /\ End

ScriptNext ==
    \/ UseCommand
    \/ \E S \in SUBSET Pkg : Plan(S)
    \/ \E p \in Pkg : Start(p) \/ Record(p)
    \/ LineEnds \/ LineFails \/ Finish \/ LocalBuild \/ LocalDone

ScriptSpec == ScriptInit /\ [][ScriptNext]_allVars

(***************************************************************************)
(* Properties                                                              *)
(***************************************************************************)
Flags(commands) ==
    UNION {{c.if} \cup {c.options[i].if : i \in DOMAIN c.options} : c \in Elements(commands)}

\* The registry lists in iuse every flag, sign included, that a command asks for.
Declared(recipe) == Flags(recipe.commands) \subseteq recipe.iuse \cup {NoFlag}

\* A package that the next plan passes over as exact was built by the very
\* commands that its recipe gives for the flags in force now, all of them,
\* whatever `use' and failing installs there have been since: exact_use_flags_p
\* and the two places of "if" (ttrek_genInstall.c) agree, as long as the
\* registry declares the flags that it asks for.
KeptIsCurrent ==
    \A p \in Installed :
        Exact(p) /\ Declared(built[p].recipe) =>
            built[p].lines = Script(built[p].recipe.commands, InForce, FALSE)

\* A local build, which runs on the user's own sources, never fetches over them
\* nor removes their repository (enable_in_local_build).
SourcesKept ==
    current = Project =>
        \A i \in DOMAIN script : script[i].run \notin Fetching \cup {"remove .git"}

\* An install in steps, any of which may fail, is to the documents one step that
\* records every package it built, or nothing (UseFlags).
ImplementsUse == Spec
=============================================================================
