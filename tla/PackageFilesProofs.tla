-------------------------- MODULE PackageFilesProofs --------------------------
(***************************************************************************)
(* For every set of packages, versions and files, and whatever the scripts *)
(* write: what is committed is what the manifest says, no command fails    *)
(* for want of a listed file, and an installed package has its files.      *)
(*                                                                         *)
(* A failing install moves files back in any state it may have reached;    *)
(* IInv says nothing of the tree then.  The next command resets it to the  *)
(* commit, so what has to be kept up is the commit, and the tree while a   *)
(* command has it in hand.  What the failure leaves matters to files that  *)
(* no package lists: these stay, as the last part shows (ForeignInv).      *)
(***************************************************************************)
EXTENDS PackageFiles, Iterations

(***************************************************************************)
(* The inductive invariant                                                 *)
(***************************************************************************)
Jobs == [name : Packages \cup {None}, version : Versions \cup {None},
         before : SUBSET Files, todo : SUBSET Files]

\* The tree is in the command's hands, or the last commit's.
Tended == pc # "idle" \/ ~dirty

TypeInv ==
    /\ payload \in Payloads
    /\ manifest \in Manifests
    /\ lock \in Locks
    /\ head \in [local : Trees, manifest : Manifests]
    /\ mem \in [manifest : Manifests, lock : Locks]
    /\ plan \in Seq(Packages)
    /\ job \in Jobs
    /\ pc \in Pcs
    /\ pc \in {"delete", "script"} => job.name \in Packages
    /\ pc = "script" => job.version \in Versions
    /\ dirty \in BOOLEAN
    /\ dirty \/ pc \in {"idle", "build"}
    /\ Tended => local \in Trees

\* The two documents know the same packages, and a package lists only what its
\* script writes.
Agree(m, l) ==
    \A p \in Packages : /\ m[p] = None <=> l[p] = None
                        /\ l[p] # None => Listed(m, p) \subseteq payload[p][l[p]]

Others(m, p) == UNION {Listed(m, q) : q \in Packages \ {p}}

\* The tree without the package p, of which the files in `rest' are there.
Except(tree, m, p, rest) ==
    /\ Others(m, p) \cup rest \subseteq Found(tree)
    /\ Found(tree) \ Built \subseteq Others(m, p) \cup rest

Consistent(tree, m) ==
    /\ Disjoint(m)
    /\ AllListed(m) \subseteq Found(tree)
    /\ Found(tree) \ Built \subseteq AllListed(m)

Whole(tree, l, S) ==
    \A p \in S : l[p] # None =>
        \A f \in payload[p][l[p]] : Private(f, p) => tree[f] = <<p, l[p]>>

Good(tree, m, l) == Consistent(tree, m) /\ Agree(m, l) /\ Whole(tree, l, Packages)

\* The commit, and the documents that stand beside it.
HeadInv ==
    /\ Consistent(head.local, head.manifest)
    /\ pc # "amend" => manifest = head.manifest
    /\ pc \notin {"manifest", "amend"} =>
          Agree(head.manifest, lock) /\ Whole(head.local, lock, Packages)

\* The tree and the documents in memory, at each point of a command.
TreeInv ==
    /\ pc \in {"next", "manifest"} => Good(local, mem.manifest, mem.lock)
    /\ pc = "manifest" => lock = mem.lock
    /\ pc = "amend" => Good(local, manifest, lock)
    /\ (pc \in {"undirty", "build"} \/ (pc = "idle" /\ ~dirty)) => Good(local, manifest, lock)

JobInv ==
    LET p == job.name
    IN /\ pc \in {"delete", "script"} =>
             /\ Disjoint(mem.manifest)
             /\ Agree(mem.manifest, mem.lock)
             /\ Whole(local, mem.lock, Packages \ {p})
       /\ pc = "delete" =>
             /\ job.todo \subseteq Listed(mem.manifest, p)
             /\ Except(local, mem.manifest, p, job.todo)
       /\ pc = "script" =>
             /\ Except(local, mem.manifest, p, Found(local) \ job.before)
             /\ Others(mem.manifest, p) \subseteq job.before
             /\ job.before \subseteq Found(local)
             /\ Found(local) \ job.before \subseteq payload[p][job.version]
             /\ job.todo \subseteq payload[p][job.version]
             /\ \A f \in payload[p][job.version] \ job.todo : local[f] = <<p, job.version>>

\* A death between the lock file and the commit spoils it (blame).
IInv == TypeInv /\ (~blame => HeadInv /\ TreeInv /\ JobInv)

(***************************************************************************)
(* Lemmas about one package of a manifest                                  *)
(***************************************************************************)
LEMMA AllButOne ==
    ASSUME NEW m, NEW p \in Packages
    PROVE  AllListed(m) = Others(m, p) \cup Listed(m, p)
  BY DEF AllListed, Others

\* What a package lists is listed by it alone.
LEMMA Apart ==
    ASSUME NEW m, NEW p \in Packages, Disjoint(m)
    PROVE  Others(m, p) \cap Listed(m, p) = {}
  BY DEF Disjoint, Others

\* A new list, or none, for one package leaves those of the others.
Relist(m, p, S) == [m EXCEPT ![p] = S]

LEMMA Relisted ==
    ASSUME NEW m \in Manifests, NEW p \in Packages, NEW S \in {None} \cup SUBSET Files
    PROVE  /\ Relist(m, p, S) \in Manifests
           /\ \A q \in Packages \ {p} : Listed(Relist(m, p, S), q) = Listed(m, q)
           /\ S # None => Listed(Relist(m, p, S), p) = S
           /\ S = None => Listed(Relist(m, p, S), p) = {}
           /\ Others(Relist(m, p, S), p) = Others(m, p)
<1>1. Relist(m, p, S) \in Manifests
  BY DEF Manifests, Relist
<1>2. /\ \A q \in Packages \ {p} : Listed(Relist(m, p, S), q) = Listed(m, q)
      /\ S # None => Listed(Relist(m, p, S), p) = S
      /\ S = None => Listed(Relist(m, p, S), p) = {}
  BY DEF Manifests, Listed, Relist
<1>3. Others(Relist(m, p, S), p) = Others(m, p)
  BY <1>2 DEF Others
<1> QED
  BY <1>1, <1>2, <1>3

LEMMA RelistedDisjoint ==
    ASSUME NEW m \in Manifests, NEW p \in Packages, NEW S \in {None} \cup SUBSET Files,
           Disjoint(m), S # None => S \cap Others(m, p) = {}
    PROVE  Disjoint(Relist(m, p, S))
<1> DEFINE m2 == Relist(m, p, S)
<1>1. /\ \A q \in Packages \ {p} : Listed(m2, q) = Listed(m, q)
      /\ S # None => Listed(m2, p) = S
      /\ S = None => Listed(m2, p) = {}
  BY Relisted
<1> HIDE DEF m2
<1>2. ASSUME NEW q \in Packages \ {p}
      PROVE  Listed(m2, p) \cap Listed(m2, q) = {}
  <2>1. Listed(m2, q) \subseteq Others(m, p)
    BY <1>1 DEF Others
  <2>2. CASE S = None
    BY <1>1, <2>2
  <2>3. CASE S # None
    BY <1>1, <2>1, <2>3
  <2> QED
    BY <2>2, <2>3
<1>3. ASSUME NEW q \in Packages \ {p}, NEW r \in Packages \ {p}, q # r
      PROVE  Listed(m2, q) \cap Listed(m2, r) = {}
  <2>1. Listed(m, q) \cap Listed(m, r) = {}
    BY <1>3 DEF Disjoint
  <2> QED
    BY <1>1, <2>1
<1>4. SUFFICES ASSUME NEW q \in Packages, NEW r \in Packages, q # r
               PROVE  Listed(m2, q) \cap Listed(m2, r) = {}
  BY DEF Disjoint, m2
<1>5. CASE q = p
  BY <1>2, <1>4, <1>5
<1>6. CASE r = p
  BY <1>2, <1>4, <1>6
<1> QED
  BY <1>3, <1>4, <1>5, <1>6

\* A consistent tree, seen from one of its packages.
LEMMA SeenFrom ==
    ASSUME NEW tree, NEW m, NEW p \in Packages
    PROVE  Consistent(tree, m) <=> Disjoint(m) /\ Except(tree, m, p, Listed(m, p))
  BY AllButOne DEF Consistent, Except

LEMMA FoundFacts ==
    ASSUME NEW tree
    PROVE  Found(tree) \subseteq Files /\ \A f \in Found(tree) : tree[f] # None
  BY DEF Found, Present

(***************************************************************************)
(* Steps that do not touch the tree in hand                                *)
(***************************************************************************)
LEMMA InitIInv == Init => IInv
<1> SUFFICES ASSUME Init PROVE IInv
  OBVIOUS
<1> USE DEF Init
<1>1. \A p \in Packages : manifest[p] = None /\ lock[p] = None /\ Listed(manifest, p) = {}
  BY DEF NoManifest, Listed
<1>2. AllListed(manifest) = {}
  BY <1>1 DEF AllListed
<1>3. Found(local) = {}
  BY DEF Found, Present, Empty
<1>4. Consistent(local, manifest)
  BY <1>1, <1>2, <1>3 DEF Consistent, Disjoint
<1>5. Agree(manifest, lock) /\ Whole(local, lock, Packages)
  BY <1>1 DEF Agree, Whole
<1>6. TypeInv
  <2>1. <<>> \in Seq(Packages)
    OBVIOUS
  <2> QED
    BY <2>1 DEF TypeInv, Manifests, Locks, Trees, NoManifest, Empty, Jobs, NoJob, Pcs, Tended
<1>7. HeadInv /\ TreeInv /\ JobInv
  BY <1>4, <1>5 DEF HeadInv, TreeInv, JobInv, Good
<1> QED
  BY <1>6, <1>7 DEF IInv

\* As long as neither the lock file nor the commit is written, the commit and
\* the documents beside it stay in order.
LEMMA HeadKept ==
    ASSUME HeadInv, UNCHANGED <<manifest, lock, head, payload>>,
           pc \notin {"manifest", "amend"}, pc' \notin {"manifest", "amend"}
    PROVE  HeadInv'
  BY DEF HeadInv, Agree, Whole, Private, Consistent

\* A command that gives up leaves the commit as it was, and .dirty.
LEMMA AbandonStep ==
    ASSUME IInv, Abandon, pc \in {"next", "delete", "script"}
    PROVE  IInv'
<1>1. pc' = "idle" /\ dirty' = TRUE /\ dirty = TRUE
  BY DEF Abandon, disk, IInv, TypeInv, Pcs
<1>2. UNCHANGED <<manifest, lock, head, payload, blame>>
  BY DEF Abandon, ghosts
<1>3. TypeInv'
  <2>1. <<>> \in Seq(Packages) /\ NoJob \in Jobs
    BY DEF Jobs, NoJob
  <2>2. mem' \in [manifest : Manifests, lock : Locks]
    BY DEF Abandon, IInv, TypeInv
  <2> QED
    BY <1>1, <1>2, <2>1, <2>2 DEF Abandon, IInv, TypeInv, Pcs, Tended
<1>4. ~blame => HeadInv'
  BY <1>1, <1>2 DEF IInv, HeadInv, Agree, Whole, Private, Consistent
<1>5. TreeInv' /\ JobInv'
  BY <1>1 DEF TreeInv, JobInv
<1> QED
  BY <1>2, <1>3, <1>4, <1>5 DEF IInv

\* A command begins with the committed tree, or with the one of the last
\* command, if that one ended well.
LEMMA StartStep == ASSUME IInv, NEW c \in {"install", "uninstall"}, Start(c) PROVE IInv'
<1> USE DEF Start, ghosts
<1>1. TypeInv'
  <2>1. plan' \in Seq(Packages)
    <3>1. PICK S \in SUBSET Packages \ {{}} : plan' \in Orders(S)
      OBVIOUS
    <3>2. Cardinality(S) \in Nat
      BY <3>1, PackagesAssumption, FS_Subset, FS_CardinalityType
    <3> QED
      BY <3>1, <3>2 DEF Orders
  <2>2. local' \in Trees
    BY DEF IInv, TypeInv, Tended
  <2> QED
    BY <2>1, <2>2 DEF IInv, TypeInv, Pcs, Tended
<1>2. ASSUME ~blame
      PROVE  HeadInv' /\ TreeInv' /\ JobInv'
  <2>1. HeadInv /\ TreeInv
    BY <1>2 DEF IInv
  <2>2. manifest = head.manifest /\ manifest' = manifest
    BY <2>1 DEF HeadInv
  <2>3. HeadInv'
    BY <2>1, <2>2, HeadKept
  <2>4. Good(local', manifest, lock)
    BY <2>1, <2>2 DEF HeadInv, TreeInv, Good
  <2>5. Good(local, mem.manifest, mem.lock)'
    BY <2>4 DEF Good, Consistent, Agree, Whole, Private
  <2> QED
    BY <2>3, <2>5 DEF TreeInv, JobInv
<1> QED
  BY <1>1, <1>2 DEF IInv

(***************************************************************************)
(* The documents and the commit                                            *)
(***************************************************************************)
LEMMA WriteLockStep == ASSUME IInv, WriteLock PROVE IInv'
<1> USE DEF WriteLock, ghosts
<1>1. TypeInv'
  BY DEF IInv, TypeInv, Pcs, Tended
<1>2. ASSUME ~blame
      PROVE  HeadInv' /\ TreeInv' /\ JobInv'
  <2>1. HeadInv' /\ JobInv'
    BY <1>2 DEF IInv, HeadInv, JobInv, Consistent
  <2>2. Good(local, mem.manifest, mem.lock)'
    BY <1>2 DEF IInv, TreeInv, Good, Agree, Whole, Private, Consistent
  <2> QED
    BY <2>1, <2>2 DEF TreeInv
<1> QED
  BY <1>1, <1>2 DEF IInv

LEMMA WriteManifestStep == ASSUME IInv, WriteManifest PROVE IInv'
<1> USE DEF WriteManifest, ghosts
<1>1. TypeInv'
  BY DEF IInv, TypeInv, Pcs, Tended
<1>2. ASSUME ~blame
      PROVE  HeadInv' /\ TreeInv' /\ JobInv'
  <2>1. HeadInv' /\ JobInv'
    BY <1>2 DEF IInv, HeadInv, JobInv, Consistent
  <2>2. Good(local, manifest, lock)'
    BY <1>2 DEF IInv, TreeInv, Good, Agree, Whole, Private, Consistent
  <2> QED
    BY <2>1, <2>2 DEF TreeInv
<1> QED
  BY <1>1, <1>2 DEF IInv

LEMMA AmendStep == ASSUME IInv, Amend PROVE IInv'
<1> USE DEF Amend, ghosts
<1>1. TypeInv'
  BY DEF IInv, TypeInv, Pcs, Tended
<1>2. ASSUME ~blame
      PROVE  HeadInv' /\ TreeInv' /\ JobInv'
  <2>1. Good(local, manifest, lock)
    BY <1>2 DEF IInv, TreeInv
  <2>2. Good(local, manifest, lock)'
    BY <2>1 DEF Good, Agree, Whole, Private, Consistent
  <2>3. HeadInv'
    BY <2>2 DEF HeadInv, Good
  <2> QED
    BY <2>2, <2>3 DEF TreeInv, JobInv
<1> QED
  BY <1>1, <1>2 DEF IInv

LEMMA UndirtyStep == ASSUME IInv, Undirty PROVE IInv'
<1> USE DEF Undirty, ghosts
<1>1. pc = "undirty" /\ pc' \in {"idle", "build"} /\ dirty' = FALSE
  OBVIOUS
<1>2. TypeInv'
  BY <1>1 DEF IInv, TypeInv, Pcs, Tended
<1>3. ASSUME ~blame
      PROVE  HeadInv' /\ TreeInv' /\ JobInv'
  <2>1. HeadInv' /\ JobInv'
    BY <1>1, <1>3, HeadKept DEF IInv, JobInv
  <2>2. Good(local, manifest, lock)'
    BY <1>3 DEF IInv, TreeInv, Good, Agree, Whole, Private, Consistent
  <2> QED
    BY <1>1, <2>1, <2>2 DEF TreeInv
<1> QED
  BY <1>2, <1>3 DEF IInv

LEMMA PayloadType ==
    ASSUME TypeInv, NEW p \in Packages, NEW v \in Versions
    PROVE  payload[p][v] \subseteq Files
  BY PayloadAssumption DEF TypeInv

\* The local build only adds files, and overwrites none that is private.
LEMMA LocalBuildStep == ASSUME IInv, LocalBuild PROVE IInv'
<1> USE DEF LocalBuild, ghosts
<1>1. PICK S \in SUBSET Built :
          local' = [f \in Files |-> IF f \in S THEN Project ELSE local[f]]
  OBVIOUS
<1>2. Project # None /\ Project \in Owner
  BY NoneAssumption DEF Owner
<1>3. TypeInv'
  <2>1. local' \in Trees
    BY <1>1, <1>2 DEF IInv, TypeInv, Tended, Trees
  <2> QED
    BY <2>1 DEF IInv, TypeInv, Pcs, Tended
<1>4. ASSUME ~blame
      PROVE  HeadInv' /\ TreeInv' /\ JobInv'
  <2>1. HeadInv' /\ JobInv'
    BY <1>4, HeadKept DEF IInv, JobInv
  <2>2. Good(local, manifest, lock)
    BY <1>4 DEF IInv, TreeInv
  <2>3. /\ Found(local) \subseteq Found(local')
        /\ Found(local') \ Built = Found(local) \ Built
    BY <1>1, <1>2 DEF Found, Present
  <2>4. Consistent(local', manifest)
    BY <2>2, <2>3 DEF Good, Consistent
  <2>5. Whole(local', lock, Packages)
    <3> SUFFICES ASSUME NEW p \in Packages, lock[p] # None,
                        NEW f \in payload[p][lock[p]], Private(f, p)
                 PROVE  local'[f] = <<p, lock[p]>>
      BY DEF Whole
    <3>1. lock[p] \in Versions
      BY DEF IInv, TypeInv, Locks
    <3>2. f \in Files
      BY <3>1, PayloadType DEF IInv
    <3>3. local'[f] = local[f]
      BY <1>1, <3>2 DEF Private
    <3>4. local[f] = <<p, lock[p]>>
      BY <2>2 DEF Good, Whole
    <3> QED
      BY <3>3, <3>4
  <2>6. Good(local, manifest, lock)'
    BY <2>2, <2>4, <2>5 DEF Good, Agree, Whole, Private, Consistent
  <2> QED
    BY <2>1, <2>6 DEF TreeInv
<1> QED
  BY <1>3, <1>4 DEF IInv

(***************************************************************************)
(* One package                                                             *)
(***************************************************************************)
\* A package is taken in hand: all its files are to be deleted.
LEMMA Taken ==
    ASSUME IInv, pc = "next", plan # <<>>, pc' = "delete", plan' = Tail(plan),
           NEW old \in SUBSET Listed(mem.manifest, Head(plan)),
           ~blame => old = Listed(mem.manifest, Head(plan)),
           job' = [name |-> Head(plan), version |-> None, before |-> {}, todo |-> old],
           UNCHANGED <<local, manifest, lock, dirty, head, mem, payload, blame>>
    PROVE  IInv'
<1> DEFINE p == Head(plan)
<1>1. p \in Packages /\ plan' \in Seq(Packages)
  BY DEF IInv, TypeInv
<1>2. Listed(mem.manifest, p) \subseteq Files
  BY <1>1 DEF IInv, TypeInv, Manifests, Listed
<1>3. /\ job' = [name |-> p, version |-> None, before |-> {}, todo |-> old]
      /\ old \subseteq Listed(mem.manifest, p)
      /\ ~blame => old = Listed(mem.manifest, p)
  OBVIOUS
<1> HIDE DEF p
<1>4. TypeInv'
  BY <1>1, <1>2, <1>3 DEF IInv, TypeInv, Pcs, Tended, Jobs
<1>5. ASSUME ~blame
      PROVE  HeadInv' /\ TreeInv' /\ JobInv'
  <2>1. HeadInv'
    BY <1>5, HeadKept DEF IInv
  <2>2. Good(local, mem.manifest, mem.lock)
    BY <1>5 DEF IInv, TreeInv
  <2>3. Disjoint(mem.manifest) /\ Except(local, mem.manifest, p, Listed(mem.manifest, p))
    BY <1>1, <2>2, SeenFrom DEF Good
  <2>4. job'.name = p /\ job'.todo = Listed(mem.manifest, p)
    BY <1>3, <1>5
  <2>5. Agree(mem.manifest, mem.lock)' /\ Whole(local, mem.lock, Packages \ {job.name})'
    BY <1>1, <2>2, <2>4 DEF Good, Agree, Whole, Private
  <2>6. /\ Disjoint(mem.manifest)'
        /\ (job.todo \subseteq Listed(mem.manifest, job.name))'
        /\ Except(local, mem.manifest, job.name, job.todo)'
    BY <2>3, <2>4
  <2>7. JobInv'
    BY <2>5, <2>6 DEF JobInv
  <2> QED
    BY <2>1, <2>7 DEF TreeInv
<1> QED
  BY <1>4, <1>5 DEF IInv

LEMMA StartUninstallStep == ASSUME IInv, StartUninstall PROVE IInv'
  BY Taken DEF StartUninstall, NoJob, disk, ghosts

\* The package that is in no lock file is in no manifest.
LEMMA BackupStep == ASSUME IInv, BackupPackageFiles PROVE IInv'
<1> DEFINE p == Head(plan)
           old == IF mem.lock[p] = None THEN {} ELSE Listed(mem.manifest, p)
<1>1. CASE old \subseteq Present(local)
  <2>1. ~blame => old = Listed(mem.manifest, p)
    <3>1. p \in Packages
      BY DEF BackupPackageFiles, IInv, TypeInv
    <3>2. ~blame => (mem.lock[p] = None => Listed(mem.manifest, p) = {})
      BY <3>1 DEF BackupPackageFiles, IInv, TreeInv, Good, Agree, Listed
    <3> QED
      BY <3>2
  <2> QED
    BY <1>1, <2>1, Taken DEF BackupPackageFiles, NoJob, ghosts
<1>2. CASE ~(old \subseteq Present(local))
  BY <1>2, AbandonStep DEF BackupPackageFiles, InstallFails
<1> QED
  BY <1>1, <1>2

LEMMA NoScriptStep == ASSUME IInv, NoScript PROVE IInv'
  BY AbandonStep DEF NoScript, InstallFails

LEMMA ScriptFailsStep == ASSUME IInv, ScriptFails PROVE IInv'
  BY AbandonStep DEF ScriptFails, InstallFails

\* A file of the package's list is no other package's, and not private to one.
LEMMA DeleteFileStep == ASSUME IInv, NEW f \in Files, DeleteFile(f) PROVE IInv'
<1>1. CASE local[f] = None
  BY <1>1, AbandonStep DEF DeleteFile, InstallFails
<1>2. CASE local[f] # None
  <2> DEFINE p == job.name
  <2>1. /\ pc = "delete" /\ pc' = pc /\ f \in job.todo
        /\ local' = [local EXCEPT ![f] = None]
        /\ job' = [job EXCEPT !.todo = @ \ {f}]
        /\ UNCHANGED <<manifest, lock, dirty, head, mem, plan, payload, blame>>
    BY <1>2 DEF DeleteFile, ghosts
  <2>2. p \in Packages /\ local \in Trees /\ job \in Jobs
    BY <2>1 DEF IInv, TypeInv, Tended
  <2>3. job'.name = p /\ job'.todo = job.todo \ {f} /\ job' \in Jobs
    BY <2>1, <2>2 DEF Jobs
  <2>4. local' \in Trees /\ Found(local') = Found(local) \ {f}
    BY <2>1, <2>2 DEF Trees, Found, Present
  <2>5. TypeInv'
    BY <2>1, <2>3, <2>4 DEF IInv, TypeInv, Tended
  <2>6. ASSUME ~blame
        PROVE  HeadInv' /\ TreeInv' /\ JobInv'
    <3>1. HeadInv'
      BY <2>1, <2>6, HeadKept DEF IInv
    <3>2. /\ Disjoint(mem.manifest)
          /\ Agree(mem.manifest, mem.lock)
          /\ Whole(local, mem.lock, Packages \ {p})
          /\ job.todo \subseteq Listed(mem.manifest, p)
          /\ Except(local, mem.manifest, p, job.todo)
      BY <2>1, <2>6 DEF IInv, JobInv
    <3>3. f \in Listed(mem.manifest, p) /\ f \notin Others(mem.manifest, p)
      BY <2>1, <2>2, <3>2, Apart
    <3>4. Except(local', mem.manifest, p, job.todo \ {f})
      BY <2>4, <3>2, <3>3 DEF Except
    <3>5. mem.lock[p] \in Versions /\ f \in payload[p][mem.lock[p]]
      BY <2>2, <3>2, <3>3 DEF Agree, Listed, IInv, TypeInv, Locks
    <3>6. Whole(local', mem.lock, Packages \ {p})
      <4> SUFFICES ASSUME NEW q \in Packages \ {p}, mem.lock[q] # None,
                          NEW g \in payload[q][mem.lock[q]], Private(g, q)
                   PROVE  local'[g] = <<q, mem.lock[q]>>
        BY DEF Whole
      <4>1. g # f
        BY <2>2, <3>5 DEF Private
      <4>2. local'[g] = local[g]
        BY <2>1, <2>2, <4>1 DEF Trees
      <4>3. local[g] = <<q, mem.lock[q]>>
        BY <3>2 DEF Whole
      <4> QED
        BY <4>2, <4>3
    <3>7. Agree(mem.manifest, mem.lock)' /\ Whole(local, mem.lock, Packages \ {job.name})'
      BY <2>1, <2>3, <3>2, <3>6 DEF Agree, Whole, Private
    <3>8. /\ Disjoint(mem.manifest)'
          /\ (job.todo \subseteq Listed(mem.manifest, job.name))'
          /\ Except(local, mem.manifest, job.name, job.todo)'
      BY <2>1, <2>3, <3>2, <3>4
    <3> QED
      BY <2>1, <3>1, <3>7, <3>8 DEF TreeInv, JobInv
  <2> QED
    BY <2>1, <2>5, <2>6 DEF IInv
<1> QED
  BY <1>1, <1>2

\* Nothing of the package is left, in the tree and in the documents.
LEMMA RemovePackageStep == ASSUME IInv, RemovePackage PROVE IInv'
<1> DEFINE p == job.name
<1>1. CASE mem.lock[p] = None \/ mem.manifest[p] = None
  BY <1>1, AbandonStep DEF RemovePackage
<1>2. CASE ~(mem.lock[p] = None \/ mem.manifest[p] = None)
  <2> DEFINE m2 == Relist(mem.manifest, p, None)
             l2 == [mem.lock EXCEPT ![p] = None]
  <2>1. /\ pc = "delete" /\ pc' = "next" /\ job.todo = {} /\ job' = NoJob
        /\ mem' = [manifest |-> m2, lock |-> l2]
        /\ UNCHANGED <<local, manifest, lock, dirty, head, plan, payload, blame>>
    BY <1>2 DEF RemovePackage, Relist, disk, ghosts
  <2>2. p \in Packages /\ mem.manifest \in Manifests /\ mem.lock \in Locks
    BY <2>1 DEF IInv, TypeInv
  <2>3. /\ m2 \in Manifests /\ Listed(m2, p) = {}
        /\ \A q \in Packages \ {p} : Listed(m2, q) = Listed(mem.manifest, q)
        /\ Others(m2, p) = Others(mem.manifest, p)
    BY <2>2, Relisted
  <2>4. /\ l2 \in Locks /\ l2[p] = None
        /\ \A q \in Packages \ {p} : l2[q] = mem.lock[q]
    BY <2>2 DEF Locks
  <2>5. /\ m2[p] = None
        /\ \A q \in Packages \ {p} : m2[q] = mem.manifest[q]
    BY <2>2 DEF Relist, Manifests
  <2> HIDE DEF m2, l2
  <2>6. TypeInv'
    <3>1. NoJob \in Jobs
      BY DEF NoJob, Jobs
    <3> QED
      BY <2>1, <2>3, <2>4, <3>1 DEF IInv, TypeInv, Pcs, Tended
  <2>7. ASSUME ~blame
        PROVE  HeadInv' /\ TreeInv' /\ JobInv'
    <3>1. HeadInv' /\ JobInv'
      BY <2>1, <2>7, HeadKept DEF IInv, JobInv
    <3>2. /\ Disjoint(mem.manifest)
          /\ Agree(mem.manifest, mem.lock)
          /\ Whole(local, mem.lock, Packages \ {p})
          /\ Except(local, mem.manifest, p, {})
      BY <2>1, <2>7 DEF IInv, JobInv
    <3>3. Disjoint(m2)
      BY <2>2, <3>2, RelistedDisjoint DEF m2
    <3>4. Consistent(local, m2)
      BY <2>2, <2>3, <3>2, <3>3, SeenFrom DEF Except
    <3>5. Agree(m2, l2)
      BY <2>3, <2>4, <2>5, <3>2 DEF Agree
    <3>6. Whole(local, l2, Packages)
      BY <2>4, <3>2 DEF Whole
    <3>7. Good(local, mem.manifest, mem.lock)'
      BY <2>1, <3>4, <3>5, <3>6 DEF Good, Agree, Whole, Private
    <3> QED
      BY <2>1, <3>1, <3>7 DEF TreeInv
  <2> QED
    BY <2>1, <2>6, <2>7 DEF IInv
<1> QED
  BY <1>1, <1>2

\* The files of the other packages are those the monitor has seen.
LEMMA AddWatchStep == ASSUME IInv, NEW v \in Versions, AddWatch(v) PROVE IInv'
<1> DEFINE p == job.name
<1>1. /\ pc = "delete" /\ pc' = "script" /\ job.todo = {}
      /\ job' = [job EXCEPT !.version = v, !.before = Found(local),
                            !.todo = payload[p][v]]
      /\ UNCHANGED <<local, manifest, lock, dirty, head, mem, plan, payload, blame>>
  BY DEF AddWatch, disk, ghosts
<1>2. p \in Packages /\ job \in Jobs /\ Found(local) \subseteq Files
  BY <1>1, FoundFacts DEF IInv, TypeInv
<1>3. payload[p][v] \subseteq Files
  BY <1>2, PayloadType DEF IInv
<1>4. /\ job' \in Jobs
      /\ job'.name = p /\ job'.version = v
      /\ job'.before = Found(local) /\ job'.todo = payload[p][v]
  BY <1>1, <1>2, <1>3 DEF Jobs
<1>5. TypeInv'
  BY <1>1, <1>2, <1>4 DEF IInv, TypeInv, Pcs, Tended
<1>6. ASSUME ~blame
      PROVE  HeadInv' /\ TreeInv' /\ JobInv'
  <2>1. HeadInv'
    BY <1>1, <1>6, HeadKept DEF IInv
  <2>2. /\ Disjoint(mem.manifest)
        /\ Agree(mem.manifest, mem.lock)
        /\ Whole(local, mem.lock, Packages \ {p})
        /\ Except(local, mem.manifest, p, {})
    BY <1>1, <1>6 DEF IInv, JobInv
  <2>3. /\ Disjoint(mem.manifest)'
        /\ Agree(mem.manifest, mem.lock)'
        /\ Whole(local, mem.lock, Packages \ {job.name})'
    BY <1>1, <1>4, <2>2 DEF Agree, Whole, Private
  <2>4. /\ Except(local', mem'.manifest, p, Found(local') \ job'.before)
        /\ Others(mem'.manifest, p) \subseteq job'.before
        /\ Found(local') = job'.before
    BY <1>1, <1>4, <2>2 DEF Except
  <2>5. payload' = payload /\ pc' = "script"
    BY <1>1
  <2> QED
    BY <1>4, <2>1, <2>3, <2>4, <2>5 DEF TreeInv, JobInv
<1> QED
  BY <1>1, <1>5, <1>6 DEF IInv

\* What the script writes is new, or lies outside every list.
LEMMA ScriptWritesStep == ASSUME IInv, NEW f \in Files, ScriptWrites(f) PROVE IInv'
<1> DEFINE p == job.name
           v == job.version
<1>1. /\ pc = "script" /\ pc' = pc /\ f \in job.todo
      /\ local' = [local EXCEPT ![f] = <<p, v>>]
      /\ job' = [job EXCEPT !.todo = @ \ {f}]
      /\ UNCHANGED <<manifest, lock, dirty, head, mem, plan, payload, blame>>
  BY DEF ScriptWrites, ghosts
<1>2. p \in Packages /\ v \in Versions /\ local \in Trees /\ job \in Jobs
  BY <1>1 DEF IInv, TypeInv, Tended
<1>3. /\ job' \in Jobs /\ job'.name = p /\ job'.version = v
      /\ job'.before = job.before /\ job'.todo = job.todo \ {f}
  BY <1>1, <1>2 DEF Jobs
<1>4. <<p, v>> \in Owner /\ <<p, v>> # None
  BY <1>2, NoneAssumption DEF Owner
<1>5. /\ local' \in Trees
      /\ local'[f] = <<p, v>>
      /\ \A g \in Files \ {f} : local'[g] = local[g]
  BY <1>1, <1>2, <1>4 DEF Trees
<1>6. Found(local') = Found(local) \cup ({f} \ Hidden)
  BY <1>4, <1>5 DEF Found, Present
<1>7. TypeInv'
  BY <1>1, <1>2, <1>3, <1>5 DEF IInv, TypeInv, Tended
<1>8. ASSUME ~blame
      PROVE  HeadInv' /\ TreeInv' /\ JobInv'
  <2>1. HeadInv'
    BY <1>1, <1>8, HeadKept DEF IInv
  <2>2. /\ Disjoint(mem.manifest)
        /\ Agree(mem.manifest, mem.lock)
        /\ Whole(local, mem.lock, Packages \ {p})
        /\ Except(local, mem.manifest, p, Found(local) \ job.before)
        /\ Others(mem.manifest, p) \subseteq job.before
        /\ job.before \subseteq Found(local)
        /\ Found(local) \ job.before \subseteq payload[p][v]
        /\ job.todo \subseteq payload[p][v]
        /\ \A g \in payload[p][v] \ job.todo : local[g] = <<p, v>>
    BY <1>1, <1>8 DEF IInv, JobInv
  <2>3. f \in payload[p][v] /\ payload[p][v] \subseteq Files
    BY <1>1, <1>2, <2>2, PayloadType DEF IInv
  <2>4. Except(local', mem.manifest, p, Found(local') \ job.before)
    BY <1>6, <2>2 DEF Except
  <2>5. /\ job.before \subseteq Found(local')
        /\ Found(local') \ job.before \subseteq payload[p][v]
        /\ job.todo \ {f} \subseteq payload[p][v]
    BY <1>6, <2>2, <2>3
  <2>6. \A g \in payload[p][v] \ (job.todo \ {f}) : local'[g] = <<p, v>>
    BY <1>5, <2>2, <2>3
  <2>7. Whole(local', mem.lock, Packages \ {p})
    <3> SUFFICES ASSUME NEW q \in Packages \ {p}, mem.lock[q] # None,
                        NEW g \in payload[q][mem.lock[q]], Private(g, q)
                 PROVE  local'[g] = <<q, mem.lock[q]>>
      BY DEF Whole
    <3>1. mem.lock[q] \in Versions
      BY DEF IInv, TypeInv, Locks
    <3>2. g \in Files /\ g # f
      BY <1>2, <2>3, <3>1, PayloadType DEF Private, IInv
    <3>3. local[g] = <<q, mem.lock[q]>>
      BY <2>2 DEF Whole
    <3> QED
      BY <1>5, <3>2, <3>3
  <2>8. /\ Disjoint(mem.manifest)'
        /\ Agree(mem.manifest, mem.lock)'
        /\ Whole(local, mem.lock, Packages \ {job.name})'
    BY <1>1, <1>3, <2>2, <2>7 DEF Agree, Whole, Private
  <2>9. /\ Except(local, mem.manifest, job.name, Found(local) \ job.before)'
        /\ (Others(mem.manifest, job.name) \subseteq job.before)'
        /\ (job.before \subseteq Found(local))'
        /\ (Found(local) \ job.before \subseteq payload[job.name][job.version])'
        /\ (job.todo \subseteq payload[job.name][job.version])'
        /\ (\A g \in payload[job.name][job.version] \ job.todo :
               local[g] = <<job.name, job.version>>)'
    BY <1>1, <1>3, <2>2, <2>4, <2>5, <2>6
  <2> QED
    BY <1>1, <2>1, <2>8, <2>9 DEF TreeInv, JobInv
<1> QED
  BY <1>1, <1>7, <1>8 DEF IInv

\* The new names are the package's, and nobody else's.
LEMMA ScriptDoneStep == ASSUME IInv, ScriptDone PROVE IInv'
<1> DEFINE p == job.name
           v == job.version
           new == Found(local) \ job.before
           m2 == Relist(mem.manifest, p, new)
           l2 == [mem.lock EXCEPT ![p] = v]
<1>1. /\ pc = "script" /\ pc' = "next" /\ job.todo = {} /\ job' = NoJob
      /\ mem' = [manifest |-> m2, lock |-> l2]
      /\ UNCHANGED <<local, manifest, lock, dirty, head, plan, payload, blame>>
  BY DEF ScriptDone, ReadChanges, DiffList, Relist, disk, ghosts
<1>2. /\ p \in Packages /\ v \in Versions
      /\ mem.manifest \in Manifests /\ mem.lock \in Locks
      /\ new \in SUBSET Files /\ new # None /\ v # None
  BY <1>1, FoundFacts, NoneAssumption DEF IInv, TypeInv
<1> HIDE DEF new
<1>3. /\ m2 \in Manifests /\ Listed(m2, p) = new
      /\ \A q \in Packages \ {p} : Listed(m2, q) = Listed(mem.manifest, q)
      /\ Others(m2, p) = Others(mem.manifest, p)
  BY <1>2, Relisted
<1>4. /\ l2 \in Locks /\ l2[p] = v
      /\ \A q \in Packages \ {p} : l2[q] = mem.lock[q]
  BY <1>2 DEF Locks
<1>5. /\ m2[p] = new
      /\ \A q \in Packages \ {p} : m2[q] = mem.manifest[q]
  BY <1>2 DEF Relist, Manifests
<1> HIDE DEF m2, l2
<1>6. TypeInv'
  <2>1. NoJob \in Jobs
    BY DEF NoJob, Jobs
  <2> QED
    BY <1>1, <1>3, <1>4, <2>1 DEF IInv, TypeInv, Pcs, Tended
<1>7. ASSUME ~blame
      PROVE  HeadInv' /\ TreeInv' /\ JobInv'
  <2>1. HeadInv' /\ JobInv'
    BY <1>1, <1>7, HeadKept DEF IInv, JobInv
  <2>2. /\ Disjoint(mem.manifest)
        /\ Agree(mem.manifest, mem.lock)
        /\ Whole(local, mem.lock, Packages \ {p})
        /\ Except(local, mem.manifest, p, new)
        /\ Others(mem.manifest, p) \subseteq job.before
        /\ new \subseteq payload[p][v]
        /\ \A f \in payload[p][v] : local[f] = <<p, v>>
    BY <1>1, <1>7 DEF IInv, JobInv, new
  <2>3. Disjoint(m2)
    <3>1. new \cap Others(mem.manifest, p) = {}
      BY <2>2 DEF new
    <3> QED
      BY <1>2, <2>2, <3>1, RelistedDisjoint DEF m2
  <2>4. Consistent(local, m2)
    BY <1>2, <1>3, <2>2, <2>3, SeenFrom DEF Except
  <2>5. Agree(m2, l2)
    BY <1>2, <1>3, <1>4, <1>5, <2>2 DEF Agree
  <2>6. Whole(local, l2, Packages)
    BY <1>4, <2>2 DEF Whole
  <2>7. Good(local, mem.manifest, mem.lock)'
    BY <1>1, <2>4, <2>5, <2>6 DEF Good, Agree, Whole, Private
  <2> QED
    BY <1>1, <2>1, <2>7 DEF TreeInv
<1> QED
  BY <1>1, <1>6, <1>7 DEF IInv

\* A death leaves the commit; only between the lock file and the commit does it
\* part the lock file from it.
LEMMA CrashStep == ASSUME IInv, Crash PROVE IInv'
<1>1. /\ pc # "idle" /\ pc' = "idle" /\ plan' = <<>> /\ job' = NoJob
      /\ mem' = [manifest |-> manifest, lock |-> lock]
      /\ blame' = (blame \/ pc \in {"manifest", "amend"})
      /\ UNCHANGED <<local, manifest, lock, dirty, head, payload>>
  BY DEF Crash, disk
<1>2. TypeInv'
  <2>1. NoJob \in Jobs /\ <<>> \in Seq(Packages)
    BY DEF NoJob, Jobs
  <2> QED
    BY <1>1, <2>1 DEF IInv, TypeInv, Pcs, Tended
<1>3. ASSUME ~blame'
      PROVE  HeadInv' /\ TreeInv' /\ JobInv'
  <2>1. ~blame /\ pc \notin {"manifest", "amend"}
    BY <1>1, <1>3 DEF IInv, TypeInv, Pcs
  <2>2. HeadInv' /\ JobInv'
    BY <1>1, <2>1, HeadKept DEF IInv, JobInv
  <2>3. ~dirty => Good(local, manifest, lock)
    BY <1>1, <2>1 DEF IInv, TypeInv, TreeInv, Pcs
  <2>4. ~dirty' => Good(local, manifest, lock)'
    BY <1>1, <2>3 DEF Good, Agree, Whole, Private, Consistent
  <2> QED
    BY <1>1, <2>2, <2>4 DEF TreeInv
<1> QED
  BY <1>2, <1>3 DEF IInv

(***************************************************************************)
(* The theorems                                                            *)
(***************************************************************************)
LEMMA StutterStep == ASSUME IInv, UNCHANGED vars PROVE IInv'
<1> USE DEF vars
<1>1. TypeInv'
  BY DEF IInv, TypeInv, Tended
<1>2. ASSUME ~blame
      PROVE  HeadInv' /\ TreeInv' /\ JobInv'
  <2>1. HeadInv'
    BY <1>2 DEF IInv, HeadInv, Agree, Whole, Private, Consistent
  <2>2. TreeInv'
    BY <1>2 DEF IInv, TreeInv, Good, Agree, Whole, Private, Consistent
  <2>3. JobInv'
    BY <1>2 DEF IInv, JobInv, Agree, Whole, Private
  <2> QED
    BY <2>1, <2>2, <2>3
<1> QED
  BY <1>1, <1>2 DEF IInv

LEMMA Invariance == IInv /\ [Next]_vars => IInv'
<1> SUFFICES ASSUME IInv, [Next]_vars PROVE IInv'
  OBVIOUS
<1>1. ASSUME NEW c \in {"install", "uninstall"}, Start(c) PROVE IInv'
  BY <1>1, StartStep
<1>2. CASE BackupPackageFiles
  BY <1>2, BackupStep
<1>3. CASE StartUninstall
  BY <1>3, StartUninstallStep
<1>4. ASSUME NEW f \in Files, DeleteFile(f) PROVE IInv'
  BY <1>4, DeleteFileStep
<1>5. CASE RemovePackage
  BY <1>5, RemovePackageStep
<1>6. CASE NoScript
  BY <1>6, NoScriptStep
<1>7. ASSUME NEW v \in Versions, AddWatch(v) PROVE IInv'
  BY <1>7, AddWatchStep
<1>8. ASSUME NEW f \in Files, ScriptWrites(f) PROVE IInv'
  BY <1>8, ScriptWritesStep
<1>9. CASE ScriptFails
  BY <1>9, ScriptFailsStep
<1>10. CASE ScriptDone
  BY <1>10, ScriptDoneStep
<1>11. CASE WriteLock
  BY <1>11, WriteLockStep
<1>12. CASE WriteManifest
  BY <1>12, WriteManifestStep
<1>13. CASE Amend
  BY <1>13, AmendStep
<1>14. CASE Undirty
  BY <1>14, UndirtyStep
<1>15. CASE LocalBuild
  BY <1>15, LocalBuildStep
<1>16. CASE Crash
  BY <1>16, CrashStep
<1>17. CASE UNCHANGED vars
  BY <1>17, StutterStep
<1> QED
  BY <1>1, <1>2, <1>3, <1>4, <1>5, <1>6, <1>7, <1>8, <1>9, <1>10, <1>11,
     <1>12, <1>13, <1>14, <1>15, <1>16, <1>17 DEF Next

LEMMA Inductive == Spec => []IInv
  BY InitIInv, Invariance, PTL DEF Spec

\* The commit holds exactly the files its manifest lists, each for one package,
\* unless a process died between the lock file and the commit
\* (ttrek_resolvo.cc:800-813).
THEOREM CommitIsAlwaysListed == Spec => []CommitIsListed
<1>1. IInv => CommitIsListed
  BY DEF IInv, HeadInv, Consistent, CommitIsListed
<1> QED
  BY <1>1, Inductive, PTL

\* ttrek_BackupPackageFiles and ttrek_DeletePackageFiles find every file the
\* manifest lists (installer.c:375-467).
THEOREM NothingIsMissing == Spec => []NothingMissing
<1>1. IInv => NothingMissing
  BY DEF IInv, TreeInv, Good, Consistent, Found, NothingMissing
<1> QED
  BY <1>1, Inductive, PTL

\* Between commands every package of the lock file has the files of its version,
\* after any number of updates, failures, deaths and resets.
THEOREM InstalledIsAlwaysWhole == Spec => []InstalledIsWhole
<1>1. IInv => InstalledIsWhole
  BY DEF IInv, TreeInv, Good, Whole, InstalledIsWhole
<1> QED
  BY <1>1, Inductive, PTL

(***************************************************************************)
(* The files that no script writes, and the tree after a failure           *)
(***************************************************************************)
\* What no package version's script writes.
Foreign == {f \in Files : \A p \in Packages : \A v \in Versions : f \notin payload[p][v]}

TreesInv ==
    /\ local \in Trees
    /\ temp \in [Packages -> Trees]
    /\ cmd \in {"install", "uninstall"}
    /\ sofar \in Seq(Packages)
    /\ blame \in BOOLEAN
    /\ deaths \in Nat

Unlisted(m) == \A p \in Packages : Listed(m, p) \cap Foreign = {}

\* No manifest has a foreign file, and a script finds those that are there.
ForeignInv ==
    /\ Unlisted(manifest) /\ Unlisted(head.manifest) /\ Unlisted(mem.manifest)
    /\ job.todo \cap Foreign = {}
    /\ pc = "script" => Found(local) \cap Foreign \subseteq job.before

KInv == IInv /\ TreesInv /\ ForeignInv

\* What a step may do to a file of the local build.
Stays ==
    \A f \in Built :
        /\ local[f] = Project
        /\ \A p \in Packages : \A v \in Versions : f \notin payload[p][v]
        /\ local'[f] # Project
        => dirty /\ pc = "idle"

StepKeeps == TreesInv' /\ ForeignInv' /\ Stays

\* Moving the copies of a package back gives trees that have the foreign files
\* as they were.
SameForeign(tree) == {t \in Trees : \A f \in Foreign : t[f] = tree[f]}

LEMMA MovedBackLemma ==
    ASSUME TreesInv, ForeignInv, NEW tree \in Trees, NEW p \in Packages, NEW t \in SameForeign(tree)
    PROVE  MovedBack(p, t) \in SUBSET SameForeign(tree)
<1> SUFFICES ASSUME NEW u \in MovedBack(p, t) PROVE u \in SameForeign(tree)
  OBVIOUS
<1>1. PICK S \in SUBSET Listed(mem.manifest, p) : u = Restored(p, S, t)
  BY DEF MovedBack
<1>2. Listed(mem.manifest, p) \cap Foreign = {}
  BY DEF ForeignInv, Unlisted
<1>3. t \in Trees /\ temp[p] \in Trees
  BY DEF SameForeign, TreesInv
<1>4. u \in Trees
  BY <1>1, <1>3 DEF Restored, Trees
<1>5. \A f \in Foreign : u[f] = t[f]
  BY <1>1, <1>2 DEF Restored, Foreign
<1> QED
  BY <1>4, <1>5 DEF SameForeign

\* So does moving back those of all packages replaced so far, one after the
\* other.
LEMMA RescuedLemma ==
    ASSUME TreesInv, ForeignInv, NEW p
    PROVE  Rescued(p, local) \subseteq SameForeign(local)
<1> DEFINE X == SameForeign(local)
           N == Len(sofar)
           Moved(n, T) == UNION {MovedBack(sofar[n], t) : t \in T}
           g == [n \in Nat |-> [T \in SUBSET X |-> IF n \in 1..N THEN Moved(n, T) ELSE T]]
           W[n \in 0..N] == IF n = 0 THEN {local} ELSE UNION {MovedBack(sofar[n], t) : t \in W[n - 1]}
<1>1. N \in Nat /\ \A n \in 1..N : sofar[n] \in Packages
  BY DEF TreesInv
<1>2. {local} \in SUBSET X
  BY DEF SameForeign, TreesInv
<1>3. Rescued(p, local) = IF mem.lock[p] = None THEN {local} ELSE W[N]
  BY DEF Rescued
<1>4. \A n \in 1..N : \A T \in SUBSET X : Moved(n, T) \in SUBSET X
  <2> SUFFICES ASSUME NEW n \in 1..N, NEW T \in SUBSET X, NEW t \in T
               PROVE  MovedBack(sofar[n], t) \in SUBSET X
    OBVIOUS
  <2>1. local \in Trees /\ t \in X
    BY DEF TreesInv
  <2> QED
    BY <1>1, <2>1, MovedBackLemma
<1>5. g \in [Nat -> [SUBSET X -> SUBSET X]]
  <2> HIDE DEF X, N, Moved
  <2> QED
    BY <1>4
<1>6. PICK f : Iterates(f, SUBSET X, 0, N, {local}, g)
  <2> HIDE DEF g, N, W, X
  <2>1. N >= 0
    BY <1>1
  <2> QED
    BY <1>1, <1>2, <1>5, <2>1, Iteration
<1>7. f \in [0..N -> SUBSET X] /\ \A n \in 0..N : f[n] = IF n = 0 THEN {local} ELSE g[n][f[n - 1]]
  BY <1>6 DEF Iterates
<1>8. \A n \in 0..N : n \in Nat /\ (n # 0 => n - 1 \in 0..N /\ n \in 1..N)
  BY <1>1
<1>9. f = [n \in 0..N |-> IF n = 0 THEN {local} ELSE UNION {MovedBack(sofar[n], t) : t \in f[n - 1]}]
  <2>1. \A n \in 1..N : \A T \in SUBSET X : g[n][T] = UNION {MovedBack(sofar[n], t) : t \in T}
    <3> HIDE DEF X, N
    <3>1. \A n \in 1..N : n \in Nat
      BY <1>1
    <3> QED
      BY <3>1
  <2>2. \A n \in 0..N : n # 0 => f[n - 1] \in SUBSET X
    BY <1>7, <1>8
  <2> HIDE DEF g, N, W, X
  <2>3. \A n \in 0..N : f[n] = IF n = 0 THEN {local} ELSE UNION {MovedBack(sofar[n], t) : t \in f[n - 1]}
    BY <1>7, <1>8, <2>1, <2>2
  <2> QED
    BY <1>7, <2>3
<1>10. W = [n \in 0..N |-> IF n = 0 THEN {local} ELSE UNION {MovedBack(sofar[n], t) : t \in W[n - 1]}]
  <2> HIDE DEF g, N, X
  <2>1. \E h : h = [n \in 0..N |->
            IF n = 0 THEN {local} ELSE UNION {MovedBack(sofar[n], t) : t \in h[n - 1]}]
    BY <1>9, Zenon
  <2> QED
    BY <2>1, Zenon
<1> HIDE DEF W, N, X
<1>11. W[0] = {local} /\ \A n \in 1..N : W[n] = Moved(n, W[n - 1])
  <2>1. 0 \in 0..N /\ \A n \in 1..N : n \in 0..N /\ n # 0
    BY <1>1
  <2>2. \A n \in 0..N : W[n] = IF n = 0 THEN {local} ELSE UNION {MovedBack(sofar[n], t) : t \in W[n - 1]}
    BY <1>10
  <2> QED
    BY <2>1, <2>2, Zenon
<1> HIDE DEF Moved
<1>12. W[N] \in SUBSET X
  <2> DEFINE A == {n \in Nat : n <= N => W[n] \in SUBSET X}
  <2>1. 0 \in A
    BY <1>2, <1>11
  <2>2. ASSUME NEW n \in Nat, n >= 0, n \in A PROVE n + 1 \in A
    <3> SUFFICES ASSUME n + 1 <= N PROVE W[n + 1] \in SUBSET X
      OBVIOUS
    <3>1. n + 1 \in 1..N /\ (n + 1) - 1 = n /\ n <= N
      BY <1>1
    <3>2. W[n + 1] = Moved(n + 1, W[n])
      BY <1>11, <3>1
    <3> QED
      BY <1>4, <2>2, <3>1, <3>2
  <2> HIDE DEF A
  <2>3. N \in A
    BY <1>1, <2>1, <2>2, Induction
  <2> QED
    BY <1>1, <2>3 DEF A
<1> QED
  BY <1>2, <1>3, <1>12 DEF X

\* A step that leaves the files of the local build alone.
LEMMA QuietStep ==
    ASSUME KInv, UNCHANGED payload, TreesInv', \A f \in Foreign : local'[f] = local[f],
           \A p \in Packages : /\ Listed(manifest', p) \cap Foreign = {}
                               /\ Listed(head.manifest', p) \cap Foreign = {}
                               /\ Listed(mem.manifest', p) \cap Foreign = {},
           job'.todo \cap Foreign = {},
           pc' = "script" => Found(local') \cap Foreign \subseteq job'.before
    PROVE  StepKeeps
<1>1. Foreign' = Foreign
  BY DEF Foreign
<1>2. ForeignInv'
  BY <1>1 DEF ForeignInv, Unlisted, Listed, Found, Present
<1>3. Stays
  BY FilesAssumption DEF Stays, Foreign
<1> QED
  BY <1>2, <1>3 DEF StepKeeps

LEMMA ListedFacts ==
    ASSUME KInv
    PROVE  \A p \in Packages : /\ Listed(manifest, p) \cap Foreign = {}
                               /\ Listed(head.manifest, p) \cap Foreign = {}
                               /\ Listed(mem.manifest, p) \cap Foreign = {}
  BY DEF KInv, ForeignInv, Unlisted

\* A step that gives up, with or without moving copies back.
LEMMA GiveUpStep ==
    ASSUME KInv, Abandon, local' \in SameForeign(local)
    PROVE  StepKeeps
<1>1. TreesInv'
  <2>1. << >> \in Seq(Packages)
    OBVIOUS
  <2> QED
    BY <2>1 DEF KInv, TreesInv, Abandon, ghosts, SameForeign
<1>2. \A f \in Foreign : local'[f] = local[f]
  BY DEF SameForeign
<1>3. /\ UNCHANGED <<payload, manifest, head>> /\ mem'.manifest = manifest
      /\ job'.todo = {} /\ pc' = "idle"
  BY DEF Abandon, ghosts, NoJob
<1>4. \A p \in Packages : /\ Listed(manifest', p) \cap Foreign = {}
                          /\ Listed(head.manifest', p) \cap Foreign = {}
                          /\ Listed(mem.manifest', p) \cap Foreign = {}
  BY <1>3, ListedFacts DEF Listed
<1> QED
  BY <1>1, <1>2, <1>3, <1>4, QuietStep

LEMMA FailingStep ==
    ASSUME KInv, NEW p, InstallFails(p)
    PROVE  StepKeeps
<1>1. local' \in SameForeign(local)
  BY RescuedLemma DEF InstallFails, KInv
<1> QED
  BY <1>1, GiveUpStep DEF InstallFails

LEMMA UnchangedTree ==
    ASSUME KInv
    PROVE  local \in SameForeign(local)
  BY DEF KInv, TreesInv, SameForeign

LEMMA KeepsStart ==
    ASSUME KInv, NEW c \in {"install", "uninstall"}, Start(c)
    PROVE  StepKeeps
<1>1. Foreign' = Foreign /\ UNCHANGED <<payload, head, job>> /\ mem'.manifest = manifest /\ pc' = "next"
  BY DEF Start, Foreign, ghosts
<1>2. manifest' \in {manifest, head.manifest}
  BY DEF Start
<1>3. ForeignInv'
  BY <1>1, <1>2 DEF KInv, ForeignInv, Unlisted, Listed
<1>4. TreesInv'
  <2>1. << >> \in Seq(Packages)
    OBVIOUS
  <2>2. head.local \in Trees
    BY DEF KInv, IInv, TypeInv
  <2>3. [p \in Packages |-> Empty] \in [Packages -> Trees]
    BY DEF Empty, Trees
  <2>4. local' \in Trees /\ temp' \in [Packages -> Trees]
    BY <2>2, <2>3 DEF Start, KInv, TreesInv
  <2> QED
    BY <2>1, <2>4 DEF Start, KInv, TreesInv, ghosts
<1>5. Stays
  BY DEF Start, Stays
<1> QED
  BY <1>3, <1>4, <1>5 DEF StepKeeps

LEMMA KeepsBackup == ASSUME KInv, BackupPackageFiles PROVE StepKeeps
<1> DEFINE p == Head(plan)
           old == IF mem.lock[p] = None THEN {} ELSE Listed(mem.manifest, p)
<1>1. p \in Packages
  BY DEF BackupPackageFiles, KInv, IInv, TypeInv
<1>2. CASE old \subseteq Present(local)
  <2>1. /\ temp' = IF mem.lock[p] = None \/ mem.manifest[p] = None
                   THEN temp
                   ELSE [temp EXCEPT ![p] = [f \in Files |-> IF f \in old THEN local[f] ELSE None]]
        /\ job' = [NoJob EXCEPT !.name = p, !.todo = old]
        /\ pc' = "delete"
        /\ UNCHANGED <<local, manifest, lock, dirty, head, mem, cmd, sofar, ghosts>>
    BY <1>2 DEF BackupPackageFiles
  <2>2. old \cap Foreign = {}
    BY <1>1, ListedFacts
  <2>3. job'.todo = old
    BY <2>1 DEF NoJob
  <2>4. [f \in Files |-> IF f \in old THEN local[f] ELSE None] \in Trees
    BY DEF KInv, TreesInv, Trees
  <2> HIDE DEF p, old
  <2>5. temp' \in [Packages -> Trees]
    BY <1>1, <2>1, <2>4 DEF KInv, TreesInv
  <2>6. TreesInv'
    BY <2>1, <2>5 DEF KInv, TreesInv, ghosts
  <2> QED
    BY <2>1, <2>2, <2>3, <2>6, ListedFacts, QuietStep DEF ghosts
<1>3. CASE ~(old \subseteq Present(local))
  BY <1>3, FailingStep DEF BackupPackageFiles
<1> QED
  BY <1>2, <1>3

LEMMA KeepsStartUninstall == ASSUME KInv, StartUninstall PROVE StepKeeps
<1>1. Head(plan) \in Packages
  BY DEF StartUninstall, KInv, IInv, TypeInv
<1>2. job'.todo = Listed(mem.manifest, Head(plan)) /\ pc' = "delete"
  BY DEF StartUninstall, NoJob
<1>3. UNCHANGED <<disk, mem, cmd, sofar, ghosts>>
  BY DEF StartUninstall
<1>4. TreesInv'
  BY <1>3 DEF KInv, TreesInv, disk, ghosts
<1> QED
  BY <1>1, <1>2, <1>3, <1>4, ListedFacts, QuietStep DEF disk, ghosts

LEMMA KeepsDeleteFile ==
    ASSUME KInv, NEW f \in Files, DeleteFile(f)
    PROVE  StepKeeps
<1>1. CASE local[f] # None
  <2>1. /\ local' = [local EXCEPT ![f] = None]
        /\ job' = [job EXCEPT !.todo = @ \ {f}]
        /\ UNCHANGED <<manifest, lock, temp, dirty, head, mem, cmd, plan, sofar, pc, ghosts>>
        /\ pc = "delete" /\ f \in job.todo
    BY <1>1 DEF DeleteFile
  <2>2. f \notin Foreign /\ job'.todo \subseteq job.todo
    BY <2>1 DEF KInv, ForeignInv, IInv, TypeInv, Jobs
  <2>3. job'.todo \cap Foreign = {}
    BY <2>2 DEF KInv, ForeignInv
  <2>4. local' \in Trees /\ \A e \in Foreign : local'[e] = local[e]
    BY <2>1, <2>2 DEF KInv, TreesInv, Trees, Foreign
  <2>5. TreesInv'
    BY <2>1, <2>4 DEF KInv, TreesInv, ghosts
  <2> QED
    BY <2>1, <2>3, <2>4, <2>5, ListedFacts, QuietStep DEF ghosts
<1>2. CASE local[f] = None /\ cmd = "install"
  BY <1>2, FailingStep DEF DeleteFile
<1>3. CASE local[f] = None /\ cmd # "install"
  BY <1>3, GiveUpStep, UnchangedTree DEF DeleteFile
<1> QED
  BY <1>1, <1>2, <1>3

LEMMA KeepsRemove == ASSUME KInv, RemovePackage PROVE StepKeeps
<1>1. CASE mem.lock[job.name] = None \/ mem.manifest[job.name] = None
  BY <1>1, GiveUpStep, UnchangedTree DEF RemovePackage
<1>2. CASE ~(mem.lock[job.name] = None \/ mem.manifest[job.name] = None)
  <2>1. /\ mem'.manifest = [mem.manifest EXCEPT ![job.name] = None]
        /\ job' = NoJob /\ pc' = "next"
        /\ UNCHANGED <<disk, cmd, plan, sofar, ghosts>>
    BY <1>2 DEF RemovePackage
  <2>2. mem.manifest \in Manifests
    BY DEF KInv, IInv, TypeInv
  <2>3. \A p \in Packages : Listed(mem'.manifest, p) \subseteq Listed(mem.manifest, p)
    BY <2>1, <2>2 DEF Listed, Manifests
  <2>4. job'.todo = {}
    BY <2>1 DEF NoJob
  <2>5. TreesInv'
    BY <2>1 DEF KInv, TreesInv, disk, ghosts
  <2>6. \A p \in Packages : /\ Listed(manifest', p) \cap Foreign = {}
                            /\ Listed(head.manifest', p) \cap Foreign = {}
                            /\ Listed(mem.manifest', p) \cap Foreign = {}
    BY <2>1, <2>3, ListedFacts DEF disk
  <2> QED
    BY <2>1, <2>4, <2>5, <2>6, QuietStep DEF disk, ghosts
<1> QED
  BY <1>1, <1>2

LEMMA KeepsAddWatch == ASSUME KInv, NEW v \in Versions, AddWatch(v) PROVE StepKeeps
<1>1. /\ job'.before = Found(local) /\ job'.todo = payload[job.name][v]
      /\ UNCHANGED <<disk, mem, cmd, sofar, ghosts>>
  BY DEF AddWatch, KInv, IInv, TypeInv, Jobs
<1>2. job.name \in Packages
  BY DEF AddWatch, KInv, IInv, TypeInv
<1>3. job'.todo \cap Foreign = {}
  BY <1>1, <1>2 DEF Foreign
<1>4. TreesInv'
  BY <1>1 DEF KInv, TreesInv, disk, ghosts
<1> QED
  BY <1>1, <1>3, <1>4, ListedFacts, QuietStep DEF disk, ghosts

LEMMA KeepsScriptWrites == ASSUME KInv, NEW f \in Files, ScriptWrites(f) PROVE StepKeeps
<1>1. /\ local' = [local EXCEPT ![f] = <<job.name, job.version>>]
      /\ job' = [job EXCEPT !.todo = @ \ {f}]
      /\ UNCHANGED <<manifest, lock, temp, dirty, head, mem, cmd, plan, sofar, pc, ghosts>>
      /\ pc = "script" /\ f \in job.todo
  BY DEF ScriptWrites
<1>2. f \notin Foreign /\ job'.todo \subseteq job.todo /\ job'.before = job.before
  BY <1>1 DEF KInv, ForeignInv, IInv, TypeInv, Jobs
<1>3. job'.todo \cap Foreign = {}
  BY <1>2 DEF KInv, ForeignInv
<1>4. <<job.name, job.version>> \in Owner
  BY <1>1 DEF KInv, IInv, TypeInv, Owner
<1>5. local' \in Trees /\ \A e \in Foreign : local'[e] = local[e]
  BY <1>1, <1>2, <1>4 DEF KInv, TreesInv, Trees, Foreign
<1>6. TreesInv'
  BY <1>1, <1>5 DEF KInv, TreesInv, ghosts
<1>7. Found(local') \cap Foreign \subseteq job'.before
  <2>1. Found(local') \cap Foreign \subseteq Found(local) \cap Foreign
    BY <1>5 DEF Found, Present
  <2> QED
    BY <1>1, <1>2, <2>1 DEF KInv, ForeignInv
<1> QED
  BY <1>1, <1>3, <1>5, <1>6, <1>7, ListedFacts, QuietStep DEF ghosts

LEMMA KeepsScriptDone == ASSUME KInv, ScriptDone PROVE StepKeeps
<1>1. /\ mem'.manifest = [mem.manifest EXCEPT ![job.name] = DiffList(local, job.before)]
      /\ sofar' = IF mem.lock[job.name] = None THEN sofar ELSE Append(sofar, job.name)
      /\ job' = NoJob /\ pc' = "next" /\ pc = "script"
      /\ UNCHANGED <<disk, cmd, plan, ghosts>>
  BY DEF ScriptDone, ReadChanges
<1>2. job.name \in Packages /\ mem.manifest \in Manifests
  BY <1>1 DEF KInv, IInv, TypeInv
<1>3. DiffList(local, job.before) \cap Foreign = {}
  BY <1>1 DEF DiffList, KInv, ForeignInv
<1>4. \A p \in Packages : Listed(mem'.manifest, p) \subseteq Listed(mem.manifest, p) \cup DiffList(local, job.before)
  BY <1>1, <1>2 DEF Listed, Manifests
<1>5. \A p \in Packages : /\ Listed(manifest', p) \cap Foreign = {}
                          /\ Listed(head.manifest', p) \cap Foreign = {}
                          /\ Listed(mem.manifest', p) \cap Foreign = {}
  BY <1>1, <1>3, <1>4, ListedFacts DEF disk
<1>6. job'.todo = {}
  BY <1>1 DEF NoJob
<1>7. sofar' \in Seq(Packages)
  BY <1>1, <1>2 DEF KInv, TreesInv
<1>8. TreesInv'
  BY <1>1, <1>7 DEF KInv, TreesInv, disk, ghosts
<1> QED
  BY <1>1, <1>5, <1>6, <1>8, QuietStep DEF disk, ghosts

LEMMA KeepsLocalBuild == ASSUME KInv, LocalBuild PROVE StepKeeps
<1>1. PICK S \in SUBSET Built : local' = [f \in Files |-> IF f \in S THEN Project ELSE local[f]]
  BY DEF LocalBuild
<1>2. UNCHANGED <<manifest, lock, temp, dirty, head, mem, cmd, plan, job, sofar, ghosts>> /\ pc' = "idle"
  BY DEF LocalBuild
<1>3. local' \in Trees
  BY <1>1 DEF KInv, TreesInv, Trees, Owner
<1>4. TreesInv'
  BY <1>2, <1>3 DEF KInv, TreesInv, ghosts
<1>5. Foreign' = Foreign
  BY <1>2 DEF Foreign, ghosts
<1>6. ForeignInv'
  BY <1>2, <1>5 DEF KInv, ForeignInv, Unlisted, Listed
<1>7. Stays
  BY <1>1, FilesAssumption DEF Stays
<1> QED
  BY <1>4, <1>6, <1>7 DEF StepKeeps

\* The steps that write the documents and the commit, and a death.
LEMMA KeepsRest ==
    ASSUME KInv, WriteLock \/ WriteManifest \/ Amend \/ Undirty \/ Crash \/ UNCHANGED vars
    PROVE  StepKeeps
<1>1. UNCHANGED <<local, payload>>
  BY DEF WriteLock, WriteManifest, Amend, Undirty, Crash, vars, disk, ghosts
<1>2. manifest' \in {manifest, mem.manifest} /\ head'.manifest \in {manifest, head.manifest}
      /\ mem'.manifest \in {manifest, mem.manifest}
  BY DEF WriteLock, WriteManifest, Amend, Undirty, Crash, vars, disk, ghosts
<1>3. job' \in {job, NoJob} /\ (pc' = "script" => pc = "script" /\ job' = job)
  BY DEF WriteLock, WriteManifest, Amend, Undirty, Crash, vars, disk, ghosts
<1>4. TreesInv'
  <2>1. << >> \in Seq(Packages) /\ Empty \in Trees
    BY DEF Empty, Trees
  <2>2. temp' \in [Packages -> Trees]
    BY <2>1 DEF WriteLock, WriteManifest, Amend, Undirty, Crash, vars, disk, ghosts, KInv, TreesInv
  <2>3. sofar' \in Seq(Packages) /\ cmd' = cmd /\ deaths' \in Nat
    <3>1. sofar' \in {sofar, << >>} /\ cmd' = cmd /\ (deaths' = deaths \/ deaths' = deaths + 1)
      BY Zenon DEF WriteLock, WriteManifest, Amend, Undirty, Crash, vars, disk, ghosts
    <3>2. sofar \in Seq(Packages) /\ deaths \in Nat
      BY DEF KInv, TreesInv
    <3>3. sofar' \in Seq(Packages)
      BY <2>1, <3>1, <3>2, Zenon
    <3>4. deaths' \in Nat
      BY <3>1, <3>2
    <3> QED
      BY <3>1, <3>3, <3>4
  <2>4. blame' = blame \/ blame' = (blame \/ pc \in {"manifest", "amend"})
    <3>1. CASE Crash
      BY <3>1, Zenon DEF Crash
    <3>2. CASE WriteLock \/ WriteManifest \/ Amend \/ Undirty \/ UNCHANGED vars
      <4>1. UNCHANGED ghosts
        BY <3>2, Zenon DEF WriteLock, WriteManifest, Amend, Undirty, vars, ghosts
      <4> QED
        BY <4>1 DEF ghosts
    <3> QED
      BY <3>1, <3>2
  <2>5. blame' \in BOOLEAN
    <3>1. blame \in BOOLEAN
      BY DEF KInv, TreesInv
    <3> QED
      BY <2>4, <3>1, Zenon
  <2> QED
    BY <1>1, <2>2, <2>3, <2>5 DEF KInv, TreesInv
<1>5. \A p \in Packages : /\ Listed(manifest', p) \cap Foreign = {}
                          /\ Listed(head.manifest', p) \cap Foreign = {}
                          /\ Listed(mem.manifest', p) \cap Foreign = {}
  BY <1>2, ListedFacts
<1>6. job'.todo \cap Foreign = {}
  BY <1>3 DEF NoJob, KInv, ForeignInv
<1>7. pc' = "script" => Found(local') \cap Foreign \subseteq job'.before
  BY <1>1, <1>3 DEF KInv, ForeignInv
<1> QED
  BY <1>1, <1>4, <1>5, <1>6, <1>7, QuietStep

LEMMA KeepsNext == KInv /\ [Next]_vars => StepKeeps
<1> SUFFICES ASSUME KInv, [Next]_vars PROVE StepKeeps
  OBVIOUS
<1>1. ASSUME NEW c \in {"install", "uninstall"}, Start(c) PROVE StepKeeps
  BY <1>1, KeepsStart
<1>2. CASE BackupPackageFiles
  BY <1>2, KeepsBackup
<1>3. CASE StartUninstall
  BY <1>3, KeepsStartUninstall
<1>4. ASSUME NEW f \in Files, DeleteFile(f) PROVE StepKeeps
  BY <1>4, KeepsDeleteFile
<1>5. CASE RemovePackage
  BY <1>5, KeepsRemove
<1>6. CASE NoScript \/ ScriptFails
  BY <1>6, FailingStep DEF NoScript, ScriptFails
<1>7. ASSUME NEW v \in Versions, AddWatch(v) PROVE StepKeeps
  BY <1>7, KeepsAddWatch
<1>8. ASSUME NEW f \in Files, ScriptWrites(f) PROVE StepKeeps
  BY <1>8, KeepsScriptWrites
<1>9. CASE ScriptDone
  BY <1>9, KeepsScriptDone
<1>10. CASE LocalBuild
  BY <1>10, KeepsLocalBuild
<1>11. CASE WriteLock \/ WriteManifest \/ Amend \/ Undirty \/ Crash \/ UNCHANGED vars
  BY <1>11, KeepsRest
<1> QED
  BY <1>1, <1>2, <1>3, <1>4, <1>5, <1>6, <1>7, <1>8, <1>9, <1>10, <1>11 DEF Next

LEMMA KInvariance == Spec => []KInv
<1>1. Init => KInv
  <2> SUFFICES ASSUME Init PROVE KInv
    OBVIOUS
  <2>1. << >> \in Seq(Packages) /\ Empty \in Trees
    BY DEF Empty, Trees
  <2>2. TreesInv
    BY <2>1, DeathAssumption DEF Init, TreesInv
  <2>3. \A p \in Packages : Listed(NoManifest, p) = {}
    BY DEF Listed, NoManifest
  <2>4. ForeignInv
    BY <2>3 DEF Init, ForeignInv, Unlisted, NoJob
  <2> QED
    BY <2>2, <2>4, InitIInv DEF KInv
<1>2. KInv /\ [Next]_vars => KInv'
  BY KeepsNext, Invariance DEF KInv, StepKeeps
<1> QED
  BY <1>1, <1>2, PTL DEF Spec

\* Whatever is moved back after a failure, the tree has files of known owners
\* and the documents name packages and versions.
THEOREM TypeCorrect == Spec => []TypeOK
<1>1. KInv => TypeOK
  BY DEF KInv, IInv, TypeInv, TreesInv, TypeOK, Jobs
<1> QED
  BY <1>1, KInvariance, PTL

\* Neither an install nor an uninstall, nor what a failure moves back, takes
\* away what the local build has made and no package writes; only the reset
\* after an interrupted command does (installSubCmd.c:232).
THEOREM BuiltAlwaysStays == Spec => BuiltStays
<1>1. KInv /\ [Next]_vars =>
          [\A f \in Built :
              /\ local[f] = Project
              /\ \A p \in Packages : \A v \in Versions : f \notin payload[p][v]
              /\ local'[f] # Project
              => dirty /\ pc = "idle"]_vars
  BY KeepsNext DEF StepKeeps, Stays
<1> QED
  BY <1>1, KInvariance, PTL DEF Spec, BuiltStays
==============================================================================
