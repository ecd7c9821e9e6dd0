---------------------------- MODULE ContentsProofs -----------------------------
(***************************************************************************)
(* What is shown of one repository (RepositoryContents), for any number of *)
(* attempts and any checkouts, and what can be found of it (SearchIndex),  *)
(* for texts of any length and windows of any size.                        *)
(***************************************************************************)
EXTENDS RepositoryContents, SearchIndex, FiniteSetTheorems, SequenceTheorems, TLAPS

-----------------------------------------------------------------------------
\* Files with a path of names that is not empty.
Listing(Names, some) == some \subseteq (Seq(Names) \ {<<>>}) \X Nat

-----------------------------------------------------------------------------
(* The tree.                                                               *)

\* A row of the tree is a file or a directory above one: a beginning of its path.
LEMMA TreeRows ==
    ASSUME NEW Names, NEW some, Listing(Names, some),
           NEW row \in IndexTree(some)
    PROVE  \E f \in some : \E i \in 1..Len(Path(f)) :
               row.path = SubSeq(Path(f), 1, i) /\ row.parent = SubSeq(Path(f), 1, i - 1)
<1>1. ASSUME NEW f \in some
      PROVE  Path(f) \in Seq(Names) /\ Len(Path(f)) \in Nat \ {0}
    BY DEF Path, Listing
<1>2. ASSUME NEW f \in some, NEW i \in 1..Len(Path(f))
      PROVE  Parent(SubSeq(Path(f), 1, i)) = SubSeq(Path(f), 1, i - 1)
    <2> DEFINE p == Path(f)
               q == SubSeq(p, 1, i)
    <2>1. p \in Seq(Names) /\ Len(p) \in Nat \ {0}
        BY <1>1
    <2>2. q \in Seq(Names) /\ Len(q) = i
        BY <2>1
    <2>3. CASE i = 1
        BY <2>2, <2>3, SubSeqEmpty DEF Parent
    <2>4. CASE i # 1
        <3> HIDE DEF p
        <3>1. SubSeq(q, 1, i - 1) = SubSeq(p, 1, i - 1)
            BY <2>1, <2>2, <2>4, SubSeqOfSubSeq
        <3> QED
            BY <2>2, <3>1 DEF Parent, p
    <2> QED
        BY <2>3, <2>4
<1>3. ASSUME NEW f \in some, row = Row(Path(f), "file")
      PROVE  \E i \in 1..Len(Path(f)) :
               row.path = SubSeq(Path(f), 1, i) /\ row.parent = SubSeq(Path(f), 1, i - 1)
    <2>1. SubSeq(Path(f), 1, Len(Path(f))) = Path(f) /\ Len(Path(f)) \in 1..Len(Path(f))
        BY <1>1, SubSeqFull
    <2> QED
        BY <1>2, <1>3, <2>1 DEF Row
<1>4. ASSUME NEW f \in some, NEW d \in Ancestors(Path(f)), row = Row(d, "directory")
      PROVE  \E i \in 1..Len(Path(f)) :
               row.path = SubSeq(Path(f), 1, i) /\ row.parent = SubSeq(Path(f), 1, i - 1)
    <2>1. PICK i \in 1..(Len(Path(f)) - 1) : d = SubSeq(Path(f), 1, i)
        BY DEF Ancestors
    <2> QED
        BY <1>1, <1>2, <1>4, <2>1 DEF Row
<1> QED
    BY <1>3, <1>4 DEF IndexTree

\* Above every row that has a parent there is a directory.
LEMMA TreeIsClosed ==
    ASSUME NEW Names, NEW some, Listing(Names, some),
           NEW row \in IndexTree(some), row.parent # <<>>
    PROVE  \E g \in IndexTree(some) : g.path = row.parent /\ g.node = "directory"
<1>1. PICK f \in some : \E i \in 1..Len(Path(f)) :
               row.path = SubSeq(Path(f), 1, i) /\ row.parent = SubSeq(Path(f), 1, i - 1)
    BY TreeRows
<1> PICK i \in 1..Len(Path(f)) : row.parent = SubSeq(Path(f), 1, i - 1)
    BY <1>1
<1>2. Path(f) \in Seq(Names) /\ Len(Path(f)) \in Nat
    BY DEF Path, Listing
<1>3. i # 1
    BY <1>1, <1>2, SubSeqEmpty
<1>4. row.parent \in Ancestors(Path(f))
    BY <1>1, <1>2, <1>3 DEF Ancestors
<1>5. Row(row.parent, "directory") \in IndexTree(some)
    BY <1>4 DEF IndexTree
<1> QED
    BY <1>5 DEF Row

-----------------------------------------------------------------------------
(* The packages.                                                           *)

\* A list without repetitions has as many packages as entries.
LEMMA PackagesCount ==
    ASSUME NEW Names, NEW found \in Seq(Names \X {"npm", "pip"}), IsInjective(found), NEW a
    PROVE  Cardinality({[attempt |-> a, name |-> d[1], ecosystem |-> d[2]] : d \in ToSet(found)})
               = Len(found)
<1> DEFINE rows == {[attempt |-> a, name |-> d[1], ecosystem |-> d[2]] : d \in ToSet(found)}
           row == [i \in 1..Len(found) |->
                      [attempt |-> a, name |-> found[i][1], ecosystem |-> found[i][2]]]
<1>1. Len(found) \in Nat /\ DOMAIN found = 1..Len(found)
    OBVIOUS
<1>2. \A i \in 1..Len(found) : found[i] \in Names \X {"npm", "pip"}
    OBVIOUS
<1>3. \A i, j \in 1..Len(found) : row[i] = row[j] => i = j
    <2> SUFFICES ASSUME NEW i \in 1..Len(found), NEW j \in 1..Len(found), row[i] = row[j]
                 PROVE  i = j
        OBVIOUS
    <2>1. found[i][1] = found[j][1] /\ found[i][2] = found[j][2]
        OBVIOUS
    <2>2. found[i] = found[j]
        BY <1>2, <2>1
    <2> QED
        BY <1>1, <2>2 DEF IsInjective
<1>4. row \in Bijection(1..Len(found), rows)
    BY <1>1, <1>3 DEF Bijection, Injection, Surjection, IsInjective, ToSet
<1>5. IsFiniteSet(1..Len(found)) /\ Cardinality(1..Len(found)) = Len(found)
    BY <1>1, FS_Interval
<1> QED
    BY <1>4, <1>5, FS_Bijection DEF ExistsBijection

\* The packages of a checkout are names with an ecosystem.
LEMMA PackagesType ==
    ASSUME NEW c \in Checkouts
    PROVE  ParseDependencies(c) \in Seq(STRING \X {"npm", "pip"})
<1>1. c.npm \in Seq(STRING) /\ c.dev \in Seq(STRING) /\ c.pip \in Seq(STRING) /\ c.pyproject \in Seq(STRING)
    BY CheckoutsAssumption DEF CheckoutsAssumption
<1>2. ASSUME NEW e \in {"npm", "pip"}, NEW names \in Seq(STRING)
      PROVE  [i \in DOMAIN names |-> <<names[i], e>>] \in Seq(STRING \X {"npm", "pip"})
    OBVIOUS
<1> QED
    <2> DEFINE in(e, names) == [i \in DOMAIN names |-> <<names[i], e>>]
               S == Seq(STRING \X {"npm", "pip"})
    <2>1. /\ in("npm", c.npm) \in S /\ in("npm", c.dev) \in S
          /\ in("pip", c.pip) \in S /\ in("pip", c.pyproject) \in S
        BY <1>1, <1>2
    <2>2. \A s, t \in S : s \o t \in S
        OBVIOUS
    <2>3. ParseDependencies(c) =
              in("npm", c.npm) \o in("npm", c.dev) \o in("pip", c.pip) \o in("pip", c.pyproject)
        BY DEF ParseDependencies
    <2> HIDE DEF in, S
    <2>4. ParseDependencies(c) \in S
        BY <2>1, <2>2, <2>3
    <2> QED
        BY <2>4 DEF S

-----------------------------------------------------------------------------
(* The inductive invariant.                                                *)

ClonedInv ==
    /\ stage \in [Attempts -> Stages]
    /\ checkout \in [Attempts -> Checkouts \cup {None}]
    /\ listed \in [Attempts -> SUBSET UNION {c.files : c \in Checkouts}]
    /\ \A a \in Attempts : stage[a] # "new" => checkout[a] \in Checkouts

\* Above every row of the tree that has a parent there is a directory.
TreeInv ==
    \A f \in files :
        /\ f # None
        /\ f.parent # <<>> => \E g \in files : g.path = f.parent /\ g.node = "directory"

\* The attempt whose architecture is stored: the only one that gets beyond it.
Owner(a) == architecture # None /\ architecture.attempt = a

OwnerInv ==
    /\ architecture # None =>
          /\ architecture.attempt \in Attempts
          /\ stage[architecture.attempt] \notin {"new", "index", "structure"}
    /\ \A a \in Attempts :
          stage[a] \in {"dependencies", "security", "metrics", "done"} => Owner(a)
    /\ \A d \in dependencies : Owner(d.attempt)
    /\ \A r \in reports : Owner(r.attempt)
    /\ metrics # None => Owner(metrics.attempt) /\ stage[metrics.attempt] = "done"

\* What its stages have left.
LeftInv ==
    /\ \A a \in Attempts : stage[a] = "dependencies" => dependencies = {}
    /\ \A a \in Attempts : stage[a] \in {"security", "metrics", "done"} =>
          Cardinality(dependencies) = Len(ParseDependencies(checkout[a]))
    /\ \A r \in reports : r.score = Score(r.findings)
    /\ \A a \in Attempts : stage[a] \in {"metrics", "done"} =>
          \E r \in reports : r.findings = SecurityScan(listed[a])
    /\ metrics # None =>
          metrics.code_smells = Cardinality(SecurityScan(listed[metrics.attempt]))

ContentsInv == ClonedInv /\ TreeInv /\ OwnerInv /\ LeftInv

-----------------------------------------------------------------------------
(* The steps.                                                              *)

\* The listing of a checkout is a part of it.
LEMMA ListingsAreParts ==
    ASSUME NEW c, NEW some \in Listings(c)
    PROVE  some \subseteq c.files
BY DEF Listings, IterRepoFiles, kSubset

\* What an attempt has listed is a listing.
LEMMA ListedIsListing ==
    ASSUME ClonedInv, NEW a \in Attempts
    PROVE  Listing(STRING, listed[a])
<1>1. listed[a] \subseteq UNION {c.files : c \in Checkouts}
    BY DEF ClonedInv
<1>2. \A c \in Checkouts : c.files \subseteq (Seq(STRING) \ {<<>>}) \X Nat
    BY CheckoutsAssumption DEF CheckoutsAssumption, Path
<1> QED
    BY <1>1, <1>2 DEF Listing

\* The transaction of a stage, rolled back.
RollsBack(a) ==
    /\ stage[a] \notin {"new", "done"}
    /\ stage' = [stage EXCEPT ![a] = "raised"]
    /\ UNCHANGED <<checkout, listed, files, stats, architecture, dependencies,
                   reports, metrics>>

\* An attempt that raises leaves what there is.
LEMMA RaiseKeeps ==
    ASSUME ContentsInv, NEW a \in Attempts, RollsBack(a)
    PROVE  ContentsInv'
<1>1. /\ \A b \in Attempts : b # a => stage'[b] = stage[b]
      /\ stage'[a] = "raised" /\ stage' \in [Attempts -> Stages]
      /\ UNCHANGED <<checkout, listed, files, stats, architecture, dependencies, reports, metrics>>
    BY DEF RollsBack, ContentsInv, ClonedInv, Stages
<1>2. stage[a] # "new" /\ stage[a] # "done"
    BY DEF RollsBack
<1>3. ClonedInv' /\ TreeInv'
    BY <1>1, <1>2 DEF ContentsInv, ClonedInv, TreeInv
<1>4. OwnerInv'
    BY <1>1, <1>2 DEF ContentsInv, OwnerInv, Owner
<1>5. LeftInv'
    BY <1>1 DEF ContentsInv, LeftInv
<1> QED
    BY <1>3, <1>4, <1>5 DEF ContentsInv

\* A clone begins with what no artefact has been derived from.
LEMMA CloneKeeps ==
    ASSUME ContentsInv, NEW a \in Attempts, Clone(a)
    PROVE  ContentsInv'
<1>1. PICK c \in Checkouts : \E some \in Listings(c) :
          /\ checkout' = [checkout EXCEPT ![a] = c]
          /\ listed' = [listed EXCEPT ![a] = some]
    BY DEF Clone
<1>2. PICK some \in Listings(c) : listed' = [listed EXCEPT ![a] = some]
    BY <1>1
<1>3. some \subseteq UNION {d.files : d \in Checkouts}
    BY ListingsAreParts
<1>4. /\ stage[a] = "new" /\ stage' = [stage EXCEPT ![a] = "index"]
      /\ UNCHANGED <<files, stats, architecture, dependencies, reports, metrics>>
    BY DEF Clone, At, Advance
<1>5. /\ stage' \in [Attempts -> Stages] /\ stage'[a] = "index"
      /\ \A b \in Attempts : b # a => /\ stage'[b] = stage[b] /\ listed'[b] = listed[b]
                                      /\ checkout'[b] = checkout[b]
    BY <1>1, <1>2, <1>4 DEF ContentsInv, ClonedInv, Stages
<1>6. ClonedInv'
    BY <1>1, <1>2, <1>3, <1>5 DEF ContentsInv, ClonedInv
<1>7. TreeInv'
    BY <1>4 DEF ContentsInv, TreeInv
<1>8. OwnerInv'
    BY <1>4, <1>5 DEF ContentsInv, OwnerInv, Owner
<1>9. LeftInv'
    <2>1. metrics # None => metrics.attempt \in Attempts /\ metrics.attempt # a
        BY <1>4 DEF ContentsInv, OwnerInv, Owner
    <2> QED
        BY <1>4, <1>5, <2>1 DEF ContentsInv, LeftInv
<1> QED
    BY <1>6, <1>7, <1>8, <1>9 DEF ContentsInv

\* The rows of a listing bring the directories above them along.
LEMMA FilesKeep ==
    ASSUME ContentsInv, NEW a \in Attempts, WriteFiles(a)
    PROVE  ContentsInv'
<1> DEFINE new == {[attempt |-> a, path |-> f.path, parent |-> f.parent, node |-> f.node]
                        : f \in IndexTree(listed[a])}
<1>1. /\ stage[a] = "index" /\ stage' = [stage EXCEPT ![a] = "structure"]
      /\ files' = files \cup new
      /\ UNCHANGED <<checkout, listed, architecture, dependencies, reports, metrics>>
    BY DEF WriteFiles, At, Advance
<1>2. /\ stage' \in [Attempts -> Stages] /\ stage'[a] = "structure"
      /\ \A b \in Attempts : b # a => stage'[b] = stage[b]
    BY <1>1 DEF ContentsInv, ClonedInv, Stages
<1>3. ClonedInv'
    BY <1>1, <1>2 DEF ContentsInv, ClonedInv
<1>4. TreeInv'
    <2>0. listed[a] \in SUBSET UNION {c.files : c \in Checkouts}
        BY DEF ContentsInv, ClonedInv
    <2>1. ASSUME NEW f \in new
          PROVE  /\ f # None
                 /\ f.parent # <<>> => \E g \in new : g.path = f.parent /\ g.node = "directory"
        <3>1. PICK row \in IndexTree(listed[a]) :
                  f = [attempt |-> a, path |-> row.path, parent |-> row.parent, node |-> row.node]
            OBVIOUS
        <3>2. f # None
            BY <3>1, <2>0, NoneAssumption DEF NoneAssumption
        <3>3. CASE row.parent # <<>>
            <4>1. Listing(STRING, listed[a])
                BY ListedIsListing DEF ContentsInv
            <4>2. PICK g \in IndexTree(listed[a]) : g.path = row.parent /\ g.node = "directory"
                BY <3>3, <4>1, TreeIsClosed
            <4>3. [attempt |-> a, path |-> g.path, parent |-> g.parent, node |-> g.node] \in new
                OBVIOUS
            <4> QED
                BY <3>1, <3>2, <4>2, <4>3
        <3> QED
            BY <3>1, <3>2, <3>3
    <2> HIDE DEF new
    <2> QED
        BY <1>1, <2>1 DEF ContentsInv, TreeInv
<1>5. OwnerInv'
    BY <1>1, <1>2 DEF ContentsInv, OwnerInv, Owner
<1>6. LeftInv'
    BY <1>1, <1>2 DEF ContentsInv, LeftInv
<1> QED
    BY <1>3, <1>4, <1>5, <1>6 DEF ContentsInv

\* The first architecture finds no other artefact, and makes its attempt the owner.
LEMMA ArchitectureKeeps ==
    ASSUME ContentsInv, NEW a \in Attempts,
           WriteArchitecture(a), architecture = None
    PROVE  ContentsInv'
<1>1. /\ stage[a] = "structure" /\ stage' = [stage EXCEPT ![a] = "dependencies"]
      /\ architecture' = [attempt |-> a, content |-> DetectArchitecture(listed[a])]
      /\ UNCHANGED <<checkout, listed, files, dependencies, reports, metrics>>
    BY DEF WriteArchitecture, At, Advance
<1>0. listed[a] \in SUBSET UNION {c.files : c \in Checkouts}
    BY DEF ContentsInv, ClonedInv
<1>2. /\ stage' \in [Attempts -> Stages] /\ stage'[a] = "dependencies"
      /\ \A b \in Attempts : b # a => stage'[b] = stage[b]
    BY <1>1 DEF ContentsInv, ClonedInv, Stages
<1>3. architecture' # None /\ architecture'.attempt = a
    BY <1>0, <1>1, NoneAssumption DEF NoneAssumption
<1>4. /\ dependencies = {} /\ reports = {} /\ metrics = None
      /\ \A b \in Attempts : stage[b] \notin {"dependencies", "security", "metrics", "done"}
    BY DEF ContentsInv, OwnerInv, Owner
<1>5. ClonedInv' /\ TreeInv'
    BY <1>1, <1>2 DEF ContentsInv, ClonedInv, TreeInv
<1>6. OwnerInv'
    BY <1>1, <1>2, <1>3, <1>4 DEF OwnerInv, Owner
<1>7. LeftInv'
    BY <1>1, <1>2, <1>4 DEF LeftInv
<1> QED
    BY <1>5, <1>6, <1>7 DEF ContentsInv

\* The owner's packages are the only ones.
LEMMA DependenciesKeep ==
    ASSUME ContentsInv, NEW a \in Attempts, WriteDependencies(a),
           stage'[a] # "raised"
    PROVE  ContentsInv'
<1> DEFINE found == ParseDependencies(checkout[a])
           new == {[attempt |-> a, name |-> d[1], ecosystem |-> d[2]] : d \in ToSet(found)}
<1>1. /\ stage[a] = "dependencies" /\ stage' = [stage EXCEPT ![a] = "security"]
      /\ IsInjective(found) /\ dependencies' = dependencies \cup new
      /\ UNCHANGED <<checkout, listed, files, architecture, reports, metrics>>
    BY DEF WriteDependencies, At, Advance, ContentsInv, ClonedInv
<1>2. /\ stage' \in [Attempts -> Stages] /\ stage'[a] = "security"
      /\ \A b \in Attempts : b # a => stage'[b] = stage[b]
    BY <1>1 DEF ContentsInv, ClonedInv, Stages
<1>3. Owner(a) /\ dependencies = {} /\ metrics = None
    BY <1>1 DEF ContentsInv, OwnerInv, LeftInv, Owner
<1>4. \A b \in Attempts : b # a => stage[b] \notin {"dependencies", "security", "metrics", "done"}
    BY <1>3 DEF ContentsInv, OwnerInv, Owner
<1>5. ClonedInv' /\ TreeInv'
    BY <1>1, <1>2 DEF ContentsInv, ClonedInv, TreeInv
<1>6. OwnerInv'
    <2>1. \A d \in new : d.attempt = a
        OBVIOUS
    <2> HIDE DEF new, found
    <2> QED
        BY <1>1, <1>2, <1>3, <1>4, <2>1 DEF ContentsInv, OwnerInv, Owner
<1>7. LeftInv'
    <2>1. found \in Seq(STRING \X {"npm", "pip"})
        BY <1>1, PackagesType DEF ContentsInv, ClonedInv
    <2>2. Cardinality(new) = Len(found)
        <3> HIDE DEF found
        <3> QED
            BY <1>1, <2>1, PackagesCount
    <2>3. dependencies' = new
        BY <1>1, <1>3
    <2> HIDE DEF new
    <2> QED
        BY <1>1, <1>2, <1>3, <1>4, <2>2, <2>3 DEF ContentsInv, LeftInv
<1> QED
    BY <1>5, <1>6, <1>7 DEF ContentsInv

\* The owner's reports are the only ones.
LEMMA ReportKeeps ==
    ASSUME ContentsInv, NEW a \in Attempts, WriteReport(a)
    PROVE  ContentsInv'
<1> DEFINE found == SecurityScan(listed[a])
           new == [attempt |-> a, findings |-> found, score |-> Score(found)]
<1>1. /\ stage[a] = "security" /\ stage' = [stage EXCEPT ![a] = "metrics"]
      /\ reports' = reports \cup {new}
      /\ UNCHANGED <<checkout, listed, files, architecture, dependencies, metrics>>
    BY DEF WriteReport, At, Advance
<1>2. /\ stage' \in [Attempts -> Stages] /\ stage'[a] = "metrics"
      /\ \A b \in Attempts : b # a => stage'[b] = stage[b]
    BY <1>1 DEF ContentsInv, ClonedInv, Stages
<1>3. Owner(a) /\ metrics = None
    BY <1>1 DEF ContentsInv, OwnerInv, Owner
<1>4. \A b \in Attempts : b # a => stage[b] \notin {"dependencies", "security", "metrics", "done"}
    BY <1>3 DEF ContentsInv, OwnerInv, Owner
<1>5. new.attempt = a /\ new.findings = SecurityScan(listed[a]) /\ new.score = Score(new.findings)
    OBVIOUS
<1> HIDE DEF new
<1>6. ClonedInv' /\ TreeInv'
    BY <1>1, <1>2 DEF ContentsInv, ClonedInv, TreeInv
<1>7. OwnerInv'
    BY <1>1, <1>2, <1>3, <1>4, <1>5 DEF ContentsInv, OwnerInv, Owner
<1>8. LeftInv'
    BY <1>1, <1>2, <1>3, <1>4, <1>5 DEF ContentsInv, LeftInv
<1> QED
    BY <1>6, <1>7, <1>8 DEF ContentsInv

\* The owner's metrics count the findings of its report.
LEMMA MetricsKeep ==
    ASSUME ContentsInv, NEW a \in Attempts,
           WriteMetrics(a), metrics = None
    PROVE  ContentsInv'
<1>1. /\ stage[a] = "metrics" /\ stage' = [stage EXCEPT ![a] = "done"]
      /\ metrics' = [attempt |-> a, files |-> Cardinality(listed[a]),
                     code_smells |-> Cardinality(SecurityScan(listed[a]))]
      /\ UNCHANGED <<checkout, listed, files, architecture, dependencies, reports>>
    BY DEF WriteMetrics, At, Advance
<1>0. listed[a] \in SUBSET UNION {c.files : c \in Checkouts}
    BY DEF ContentsInv, ClonedInv
<1>2. /\ stage' \in [Attempts -> Stages] /\ stage'[a] = "done"
      /\ \A b \in Attempts : b # a => stage'[b] = stage[b]
    BY <1>1 DEF ContentsInv, ClonedInv, Stages
<1>3. /\ metrics' # None /\ metrics'.attempt = a
      /\ metrics'.code_smells = Cardinality(SecurityScan(listed[a]))
    BY <1>0, <1>1, NoneAssumption DEF NoneAssumption
<1>4. ClonedInv' /\ TreeInv'
    BY <1>1, <1>2 DEF ContentsInv, ClonedInv, TreeInv
<1>5. OwnerInv'
    BY <1>1, <1>2, <1>3 DEF ContentsInv, OwnerInv, Owner
<1>6. LeftInv'
    BY <1>1, <1>2, <1>3 DEF ContentsInv, LeftInv
<1> QED
    BY <1>4, <1>5, <1>6 DEF ContentsInv

\* Every step keeps the invariant.
LEMMA StepKeeps ==
    ASSUME ContentsInv, [ContentsNext]_contentsVars
    PROVE  ContentsInv'
<1>1. CASE UNCHANGED contentsVars
    BY <1>1 DEF contentsVars, ContentsInv, ClonedInv, TreeInv, OwnerInv, Owner, LeftInv
<1>2. ASSUME NEW a \in Attempts, Clone(a) PROVE ContentsInv'
    BY <1>2, CloneKeeps
<1>3. ASSUME NEW a \in Attempts, WriteFiles(a) PROVE ContentsInv'
    BY <1>3, FilesKeep
<1>4. ASSUME NEW a \in Attempts, WriteArchitecture(a) PROVE ContentsInv'
    <2>1. CASE architecture # None
        <3>1. RollsBack(a)
            BY <1>4, <2>1 DEF WriteArchitecture, RollsBack, At, Advance
        <3> QED
            BY <3>1, RaiseKeeps
    <2> QED
        BY <1>4, <2>1, ArchitectureKeeps
<1>5. ASSUME NEW a \in Attempts, WriteDependencies(a) PROVE ContentsInv'
    <2>1. CASE stage'[a] = "raised"
        <3>1. stage[a] = "dependencies" /\ stage' # [stage EXCEPT ![a] = "security"]
            BY <1>5, <2>1 DEF WriteDependencies, At, ContentsInv, ClonedInv
        <3>2. RollsBack(a)
            BY <1>5, <3>1 DEF WriteDependencies, RollsBack, At, Advance
        <3> QED
            BY <3>2, RaiseKeeps
    <2> QED
        BY <1>5, <2>1, DependenciesKeep
<1>6. ASSUME NEW a \in Attempts, WriteReport(a) PROVE ContentsInv'
    BY <1>6, ReportKeeps
<1>7. ASSUME NEW a \in Attempts, WriteMetrics(a) PROVE ContentsInv'
    <2>1. CASE metrics # None
        <3>1. RollsBack(a)
            BY <1>7, <2>1 DEF WriteMetrics, RollsBack, At, Advance
        <3> QED
            BY <3>1, RaiseKeeps
    <2> QED
        BY <1>7, <2>1, MetricsKeep
<1>8. ASSUME NEW a \in Attempts, Raise(a) PROVE ContentsInv'
    <2>1. RollsBack(a)
        BY <1>8 DEF Raise, RollsBack
    <2> QED
        BY <2>1, RaiseKeeps
<1> QED
    BY <1>1, <1>2, <1>3, <1>4, <1>5, <1>6, <1>7, <1>8 DEF ContentsNext

-----------------------------------------------------------------------------
(* The theorems.                                                           *)

\* The inductive invariant holds in every state, whatever is cloned.
THEOREM ContentsInvariance ==
    ContentsSpec => []ContentsInv
<1>1. ContentsInit => ContentsInv
    BY DEF ContentsInit, ContentsInv, ClonedInv, Stages, TreeInv, OwnerInv, Owner, LeftInv
<1>2. ContentsInv /\ [ContentsNext]_contentsVars => ContentsInv'
    BY StepKeeps
<1> QED
    BY <1>1, <1>2, PTL DEF ContentsSpec

\* No directory and no file is lost from the tree of GET .../tree
\* (RepositoryContents!TreeIsWhole), however many attempts have indexed it.
THEOREM TreesAreWhole ==
    ContentsSpec => []TreeIsWhole
<1>1. ContentsInv => TreeIsWhole
    <2> SUFFICES ASSUME ContentsInv, KindsAgree, NEW f \in files, f.parent # <<>>
                 PROVE  None \notin GetTreeParents(f)
        BY DEF TreeIsWhole
    <2> DEFINE above == {g \in files : g.path = f.parent}
    <2>1. above # {} /\ None \notin above
        BY DEF ContentsInv, TreeInv
    <2>2. \A g \in above : g.node = "directory"
        <3>1. PICK d \in files : d.path = f.parent /\ d.node = "directory"
            BY DEF ContentsInv, TreeInv
        <3> QED
            BY <3>1 DEF KindsAgree
    <2>3. GetTreeParents(f) = {IF g.node = "directory" THEN g ELSE None : g \in above}
        BY <2>1 DEF GetTreeParents
    <2> HIDE DEF above
    <2> QED
        BY <2>1, <2>2, <2>3
<1> QED
    BY <1>1, ContentsInvariance, PTL

\* What is listed of a checkout, and found in it, is finite, so that it can be
\* counted: at most max_files files, and a score between 0 and 100.
ShapeInv ==
    /\ \A a \in Attempts : IsFiniteSet(listed[a]) /\ Cardinality(listed[a]) <= MaxFiles
    /\ \A f \in files : f.attempt \in Attempts /\ f.node \in {"file", "directory"}
    /\ stats.file_count <= MaxFiles
    /\ \A d \in dependencies : d.ecosystem \in {"npm", "pip"}
    /\ \A r \in reports : IsFiniteSet(r.findings)

\* What _iter_repo_files lists of a checkout are max_files files at most.
LEMMA ListingsAreBounded ==
    ASSUME NEW c \in Checkouts, NEW some, some \in Listings(c)
    PROVE  IsFiniteSet(some) /\ Cardinality(some) <= MaxFiles
<1>1. some \subseteq c.files /\ IsFiniteSet(c.files)
    BY ListingsAreParts, CheckoutsAssumption DEF CheckoutsAssumption
<1>2. PICK part : /\ some = part \ c.unreadable /\ part \subseteq c.files
                 /\ Cardinality(part) <= MaxFiles
    <2> DEFINE walked == IterRepoFiles(c.files)
               first  == IF Cardinality(walked) <= MaxFiles THEN {walked}
                         ELSE kSubset(MaxFiles, walked)
    <2>1. PICK part \in first : some = part \ c.unreadable
        BY DEF Listings
    <2>2. walked \subseteq c.files
        BY DEF IterRepoFiles
    <2>3. part \subseteq walked /\ Cardinality(part) <= MaxFiles
        <3>1. CASE Cardinality(walked) <= MaxFiles
            BY <2>1, <3>1
        <3>2. CASE ~(Cardinality(walked) <= MaxFiles)
            BY <2>1, <3>2, MaxFilesAssumption DEF kSubset, MaxFilesAssumption
        <3> QED
            BY <3>1, <3>2
    <2> QED
        BY <2>1, <2>2, <2>3
<1>3. IsFiniteSet(part) /\ Cardinality(some) <= Cardinality(part)
    BY <1>1, <1>2, FS_Subset
<1>4. Cardinality(some) \in Nat /\ Cardinality(part) \in Nat
    BY <1>1, <1>3, FS_Subset, FS_CardinalityType
<1> QED
    BY <1>1, <1>2, <1>3, <1>4, MaxFilesAssumption, FS_Subset DEF MaxFilesAssumption

\* The number of files in the statistics is that of the files listed.
LEMMA StatsCount ==
    ASSUME NEW some, NEW s \in LanguageStats(some)
    PROVE  s.file_count = Cardinality(some)
<1> DEFINE known == {f \in some : LanguageOf(f) # None}
           bytes == [l \in {LanguageOf(f) : f \in known} |->
                        BytesOf({f \in known : LanguageOf(f) = l})]
           most  == {l \in DOMAIN bytes : \A m \in DOMAIN bytes : bytes[m] <= bytes[l]}
           all   == BytesOf(known)
           count == Cardinality(some)
<1>1. LanguageStats(some) =
          {[file_count |-> count, primary |-> p, languages |-> bytes, size |-> all] :
              p \in IF known = {} THEN {None} ELSE most}
    BY DEF LanguageStats
<1> HIDE DEF known, bytes, most, all, count
<1>2. PICK p : s = [file_count |-> count, primary |-> p, languages |-> bytes, size |-> all]
    BY <1>1
<1> QED
    BY <1>2 DEF count

\* Every stage keeps what is listed and found within its bounds.
LEMMA ShapeStep ==
    ClonedInv /\ ShapeInv /\ [ContentsNext]_contentsVars => ShapeInv'
<1> SUFFICES ASSUME ClonedInv, ShapeInv, [ContentsNext]_contentsVars
             PROVE  ShapeInv'
    OBVIOUS
<1>1. CASE UNCHANGED contentsVars
    BY <1>1 DEF contentsVars, ShapeInv
<1>2. ASSUME NEW a \in Attempts, Clone(a)
      PROVE  ShapeInv'
    <2>1. PICK c \in Checkouts : \E some \in Listings(c) :
              listed' = [listed EXCEPT ![a] = some]
        BY <1>2 DEF Clone
    <2>2. PICK some \in Listings(c) : listed' = [listed EXCEPT ![a] = some]
        BY <2>1
    <2>3. IsFiniteSet(some) /\ Cardinality(some) <= MaxFiles
        BY ListingsAreBounded
    <2>4. \A b \in Attempts : IsFiniteSet(listed'[b]) /\ Cardinality(listed'[b]) <= MaxFiles
        BY <2>2, <2>3 DEF ClonedInv, ShapeInv
    <2> QED
        BY <1>2, <2>4 DEF Clone, ShapeInv
<1>3. ASSUME NEW a \in Attempts, WriteFiles(a)
      PROVE  ShapeInv'
    <2>1. \A row \in IndexTree(listed[a]) : row.node \in {"file", "directory"}
        BY DEF IndexTree, Row
    <2>2. \A f \in files' : f.attempt \in Attempts /\ f.node \in {"file", "directory"}
        BY <1>3, <2>1 DEF WriteFiles, ShapeInv
    <2>3. stats'.file_count = Cardinality(listed[a])
        BY <1>3, StatsCount DEF WriteFiles
    <2> QED
        BY <1>3, <2>2, <2>3 DEF WriteFiles, ShapeInv
<1>4. ASSUME NEW a \in Attempts, WriteArchitecture(a)
      PROVE  ShapeInv'
    BY <1>4 DEF WriteArchitecture, ShapeInv
<1>5. ASSUME NEW a \in Attempts, WriteDependencies(a)
      PROVE  ShapeInv'
    <2> DEFINE found == ParseDependencies(checkout[a])
    <2>1. found \in Seq(STRING \X {"npm", "pip"})
        BY <1>5, PackagesType DEF WriteDependencies, At, ClonedInv
    <2> HIDE DEF found
    <2>2. \A d \in ToSet(found) : d[2] \in {"npm", "pip"}
        BY <2>1 DEF ToSet
    <2>3. \A d \in dependencies' : d.ecosystem \in {"npm", "pip"}
        BY <1>5, <2>2 DEF WriteDependencies, ShapeInv, found
    <2> QED
        BY <1>5, <2>3 DEF WriteDependencies, ShapeInv
<1>6. ASSUME NEW a \in Attempts, WriteReport(a)
      PROVE  ShapeInv'
    <2>1. IsFiniteSet(SecurityScan(listed[a]))
        <3>1. IsFiniteSet({g \in listed[a] : Name(Path(g)) \in SecretNames})
            BY FS_Subset DEF ShapeInv
        <3> DEFINE secrets == {g \in listed[a] : Name(Path(g)) \in SecretNames}
                   path    == [g \in secrets |-> Path(g)]
        <3>2. SecurityScan(listed[a]) = {path[g] : g \in secrets}
            BY DEF SecurityScan
        <3> HIDE DEF secrets
        <3>3. path \in Surjection(secrets, {path[g] : g \in secrets})
            BY DEF Surjection
        <3> QED
            BY <3>1, <3>2, <3>3, FS_Surjection DEF secrets
    <2> QED
        BY <1>6, <2>1 DEF WriteReport, ShapeInv
<1>7. ASSUME NEW a \in Attempts, WriteMetrics(a)
      PROVE  ShapeInv'
    BY <1>7 DEF WriteMetrics, ShapeInv
<1>8. ASSUME NEW a \in Attempts, Raise(a)
      PROVE  ShapeInv'
    BY <1>8 DEF Raise, ShapeInv
<1> QED
    BY <1>1, <1>2, <1>3, <1>4, <1>5, <1>6, <1>7, <1>8 DEF ContentsNext

\* What is stored about a repository has its type, whatever is cloned: the files
\* counted are max_files at most, and the score of a report is one of 0 to 100.
THEOREM ContentsAreTyped ==
    ContentsSpec => []ContentsOK
<1>1. ContentsInit => ShapeInv
    <2>1. IsFiniteSet({}) /\ Cardinality({}) = 0
        BY FS_EmptySet
    <2> QED
        BY <2>1, MaxFilesAssumption DEF ContentsInit, ShapeInv, MaxFilesAssumption
<1>2. ContentsInv /\ ShapeInv /\ [ContentsNext]_contentsVars => ShapeInv'
    BY ShapeStep DEF ContentsInv
<1>3. ContentsInv /\ ShapeInv => ContentsOK
    <2> SUFFICES ASSUME ContentsInv, ShapeInv
                 PROVE  ContentsOK
        OBVIOUS
    <2>1. ASSUME NEW r \in reports
          PROVE  r.attempt \in Attempts /\ r.score \in 0..100
        <3>1. Cardinality(r.findings) \in Nat
            BY FS_CardinalityType DEF ShapeInv
        <3>2. Score(r.findings) \in 0..100
            BY <3>1 DEF Score
        <3> QED
            BY <3>2 DEF ContentsInv, OwnerInv, Owner, LeftInv
    <2>2. \A a \in Attempts : listed[a] \subseteq UNION {c.files : c \in Checkouts}
        BY DEF ContentsInv, ClonedInv
    <2>3. /\ \A d \in dependencies : d.attempt \in Attempts
          /\ metrics # None => metrics.attempt \in Attempts
        BY DEF ContentsInv, OwnerInv, Owner
    <2> QED
        BY <2>1, <2>2, <2>3 DEF ContentsInv, ClonedInv, ShapeInv, ContentsOK
<1> QED
    BY <1>1, <1>2, <1>3, ContentsInvariance, PTL DEF ContentsSpec

\* Architecture, packages, findings and metrics come from one checkout
\* (RepositoryContents!OneSnapshot), however many attempts overlap.
THEOREM SnapshotsAreOne ==
    ContentsSpec => []OneSnapshot
<1>1. ContentsInv => OneSnapshot
    <2> SUFFICES ASSUME ContentsInv PROVE OneSnapshot
        OBVIOUS
    <2> DEFINE made == {d.attempt : d \in GetDependencies} \cup {r.attempt : r \in reports}
                       \cup (IF metrics = None THEN {} ELSE {metrics.attempt})
    <2>1. \A e \in GetDependencies : \E d \in dependencies : e.attempt = d.attempt
        BY DEF GetDependencies
    <2>2. made # {} => architecture # None /\ made = {architecture.attempt}
        <3>1. \A a \in made : Owner(a)
            BY <2>1 DEF ContentsInv, OwnerInv
        <3> HIDE DEF made
        <3> QED
            BY <3>1 DEF Owner
    <2>3. \A shown \in GetSecurity : shown.score = Score(shown.findings)
        <3>1. Score({}) = 100
            BY FS_EmptySet DEF Score
        <3>2. CASE reports = {}
            BY <3>1, <3>2 DEF GetSecurity
        <3>3. CASE reports # {}
            BY <3>3 DEF GetSecurity, ContentsInv, LeftInv
        <3> QED
            BY <3>2, <3>3
    <2>4. ASSUME metrics # None
          PROVE  /\ \E shown \in GetSecurity :
                        GetMetrics.code_smells = Cardinality(shown.findings)
                 /\ Cardinality(dependencies)
                        = Len(ParseDependencies(checkout[architecture.attempt]))
        <3> DEFINE a == metrics.attempt
        <3>1. a \in Attempts /\ stage[a] = "done" /\ a = architecture.attempt
            BY <2>4 DEF ContentsInv, OwnerInv, Owner
        <3>2. PICK r \in reports : r.findings = SecurityScan(listed[a])
            BY <3>1 DEF ContentsInv, LeftInv
        <3>3. GetMetrics.code_smells = Cardinality(SecurityScan(listed[a]))
            BY <2>4 DEF GetMetrics, ContentsInv, LeftInv
        <3>4. [score |-> r.score, findings |-> r.findings] \in GetSecurity
            BY <3>2 DEF GetSecurity
        <3> QED
            BY <3>1, <3>2, <3>3, <3>4 DEF ContentsInv, LeftInv
    <2> QED
        BY <2>2, <2>3, <2>4 DEF OneSnapshot
<1> QED
    BY <1>1, ContentsInvariance, PTL

-----------------------------------------------------------------------------
(* The windows of chunk_text.                                              *)

\* From the beginning of a window to that of the next.
Stride == MaxTokens - TokenOverlap

\* The last window of a text of n tokens, counted from 0, reaches its end, and
\* the one before does not.
Ends(n, m) ==
    /\ m * Stride < n /\ n <= m * Stride + MaxTokens
    /\ m = 0 \/ (m - 1) * Stride + MaxTokens < n

\* Windows advance, and no further than a window is long.
LEMMA StepType == Stride \in Nat /\ Stride > 0 /\ Stride <= MaxTokens /\ MaxTokens \in Nat
BY SearchAssumption DEF SearchAssumption, Stride

\* Of two multiples of a number, the one with the smaller factor is smaller.
LEMMA Monotone ==
    ASSUME NEW d \in Nat, NEW i \in Nat, NEW j \in Nat, i < j
    PROVE  i * d + d <= j * d
<1>1. PICK k \in Nat : j = i + 1 + k
    <2>1. j - i - 1 \in Nat /\ j = i + 1 + (j - i - 1)
        OBVIOUS
    <2> QED
        BY <2>1
<1>2. j * d = i * d + d + k * d
    BY <1>1
<1>3. k * d \in Nat
    OBVIOUS
<1> QED
    BY <1>2, <1>3

\* Division with remainder.
LEMMA Quotient ==
    ASSUME NEW a \in Nat, NEW d \in Nat \ {0}
    PROVE  \E q \in Nat : a = q * d + (a % d) /\ a % d \in 0..(d - 1)
<1>1. a \div d \in Nat /\ a % d \in 0..(d - 1) /\ a = (a \div d) * d + (a % d)
    OBVIOUS
<1> QED
    BY <1>1

\* A multiple leaves no remainder.
LEMMA Remainder ==
    ASSUME NEW q \in Nat, NEW d \in Nat \ {0}
    PROVE  (q * d) % d = 0
OBVIOUS

\* The loop of chunk_text ends: a text that is not empty has a last window.
LEMMA LastWindow ==
    ASSUME NEW n \in Nat \ {0}
    PROVE  \E m \in Nat : Ends(n, m)
<1>1. CASE n <= MaxTokens
    <2>1. Ends(n, 0)
        BY <1>1, StepType DEF Ends
    <2> QED
        BY <2>1
<1>2. CASE n > MaxTokens
    <2> DEFINE a == n - MaxTokens + Stride - 1
    <2>1. a \in Nat /\ Stride \in Nat \ {0} /\ MaxTokens \in Nat
        BY <1>2, StepType
    <2>2. PICK m \in Nat : a = m * Stride + (a % Stride) /\ a % Stride \in 0..(Stride - 1)
        BY <2>1, Quotient
    <2> HIDE DEF a
    <2>3. m * Stride <= a /\ a < m * Stride + Stride /\ m * Stride \in Nat
        BY <2>1, <2>2
    <2>4. (m - 1) * Stride = m * Stride - Stride
        BY <2>1
    <2>5. Ends(n, m)
        BY <2>1, <2>3, <2>4, <1>2, StepType DEF Ends, a
    <2> QED
        BY <2>5
<1> QED
    BY <1>1, <1>2, StepType

\* The window chunk_text makes of a text of n tokens in its i-th turn.
Window(n, i) == <<(i - 1) * Stride, Least((i - 1) * Stride + MaxTokens, n)>>

\* What chunk_text returns: every window up to the last one, in order.
LEMMA Windows ==
    ASSUME NEW n \in Nat, NEW m \in Nat, Ends(n, m)
    PROVE  ChunkText(n) = [i \in 1..(m + 1) |-> Window(n, i)]
<1> DEFINE starts  == {s \in 0..(n - 1) : s % Stride = 0}
           reaches == {s \in starts : s + MaxTokens >= n}
           used    == {s \in starts : \A e \in reaches : s <= e}
           start   == [i \in 1..(m + 1) |-> (i - 1) * Stride]
<1>1. Stride \in Nat \ {0} /\ MaxTokens \in Nat
    BY StepType
<1>2. \A j \in Nat : j * Stride \in Nat /\ (j * Stride) % Stride = 0
    BY <1>1, Remainder
<1>3. ASSUME NEW s \in starts
      PROVE  \E j \in Nat : s = j * Stride
    <2>1. s \in Nat /\ s % Stride = 0
        OBVIOUS
    <2> HIDE DEF starts
    <2>2. PICK j \in Nat : s = j * Stride + (s % Stride)
        BY <1>1, <2>1, Quotient
    <2>3. s = j * Stride
        BY <1>1, <1>2, <2>1, <2>2
    <2> QED
        BY <2>3
<1>4. m * Stride \in reaches
    <2>1. m * Stride \in 0..(n - 1) /\ m * Stride + MaxTokens >= n
        BY <1>1, <1>2 DEF Ends
    <2> QED
        BY <1>2, <2>1
<1>5. ASSUME NEW s \in reaches
      PROVE  m * Stride <= s
    <2>1. PICK j \in Nat : s = j * Stride
        BY <1>3
    <2>2. CASE m = 0
        BY <1>1, <2>1, <2>2
    <2>3. CASE m # 0 /\ j < m
        <3>1. j * Stride + Stride <= m * Stride
            BY <1>1, <2>3, Monotone
        <3>2. (m - 1) * Stride = m * Stride - Stride
            BY <1>1
        <3>3. (m - 1) * Stride + MaxTokens < n
            BY <2>3 DEF Ends
        <3> QED
            BY <1>1, <1>2, <2>1, <3>1, <3>2, <3>3
    <2>4. CASE m = j
        BY <1>2, <2>1, <2>4
    <2>5. CASE m < j
        <3>1. m * Stride + Stride <= j * Stride
            BY <1>1, <2>5, Monotone
        <3> QED
            BY <1>1, <1>2, <2>1, <3>1
    <2> QED
        BY <2>2, <2>3, <2>4, <2>5
<1>6. used = {s \in starts : s <= m * Stride}
    <2>1. \A s \in starts : (\A e \in reaches : s <= e) <=> s <= m * Stride
        <3> SUFFICES ASSUME NEW s \in starts, s <= m * Stride, NEW e \in reaches
                     PROVE  s <= e
            BY <1>4
        <3>1. m * Stride <= e /\ s \in Int /\ e \in Int /\ m * Stride \in Int
            BY <1>2, <1>5
        <3> QED
            BY <3>1
    <2> QED
        BY <2>1
<1>7. start \in Bijection(1..(m + 1), used)
    <2>1. ASSUME NEW i \in 1..(m + 1)
          PROVE  start[i] \in used
        <3>1. i - 1 \in Nat /\ start[i] = (i - 1) * Stride
            OBVIOUS
        <3>2. (i - 1) * Stride <= m * Stride
            <4>1. CASE i - 1 = m
                BY <1>2, <4>1
            <4>2. CASE i - 1 < m
                BY <1>1, <1>2, <3>1, <4>2, Monotone
            <4> QED
                BY <4>1, <4>2
        <3>3. m * Stride < n
            BY DEF Ends
        <3>4. (i - 1) * Stride \in starts
            BY <1>2, <3>1, <3>2, <3>3
        <3> QED
            BY <1>6, <3>1, <3>2, <3>4
    <2>2. ASSUME NEW i \in 1..(m + 1), NEW j \in 1..(m + 1), start[i] = start[j]
          PROVE  i = j
        <3>1. ~ (i < j)
            BY <1>1, <1>2, <2>2, Monotone
        <3>2. ~ (j < i)
            BY <1>1, <1>2, <2>2, Monotone
        <3> QED
            BY <3>1, <3>2
    <2>3. ASSUME NEW s \in used
          PROVE  \E i \in 1..(m + 1) : start[i] = s
        <3>1. PICK j \in Nat : s = j * Stride
            BY <1>3
        <3>2. j <= m
            <4>1. s <= m * Stride
                BY <1>6
            <4> QED
                BY <1>1, <1>2, <3>1, <4>1, Monotone
        <3> QED
            BY <3>1, <3>2
    <2> HIDE DEF used
    <2>4. start \in [1..(m + 1) -> used]
        BY <2>1
    <2> QED
        BY <2>2, <2>3, <2>4 DEF Bijection, Injection, Surjection, IsInjective
<1>8. Cardinality(used) = m + 1
    <2>1. IsFiniteSet(1..(m + 1)) /\ Cardinality(1..(m + 1)) = m + 1
        BY FS_Interval
    <2> HIDE DEF used
    <2> QED
        BY <1>7, <2>1, FS_Bijection DEF ExistsBijection
<1> QED
    <2>1. ChunkText(n) = [i \in 1..Cardinality(used) |->
                            <<(i - 1) * Stride, Least((i - 1) * Stride + MaxTokens, n)>>]
        BY DEF ChunkText, Stride
    <2> HIDE DEF used
    <2> QED
        BY <1>8, <2>1 DEF Window

\* A text without tokens has no window.
LEMMA NoWindow == ChunkText(0) = <<>>
<1> DEFINE starts  == {s \in 0..(0 - 1) : s % Stride = 0}
           reaches == {s \in starts : s + MaxTokens >= 0}
           used    == {s \in starts : \A e \in reaches : s <= e}
<1>1. used = {}
    OBVIOUS
<1>2. Cardinality(used) = 0
    BY <1>1, FS_EmptySet
<1>3. ChunkText(0) = [i \in 1..Cardinality(used) |->
                            <<(i - 1) * Stride, Least((i - 1) * Stride + MaxTokens, 0)>>]
    BY DEF ChunkText, Stride
<1> HIDE DEF used
<1>4. ChunkText(0) = [i \in 1..0 |-> <<(i - 1) * Stride, Least((i - 1) * Stride + MaxTokens, 0)>>]
    BY <1>2, <1>3
<1> QED
    BY <1>4

\* The windows of a text cover it; no two of them are the same, two neighbours
\* share TokenOverlap tokens, and none lies within the next one.
LEMMA ChunksOf ==
    ASSUME NEW n \in Nat
    PROVE  LET c == ChunkText(n) IN
           /\ c \in Seq(Nat \X Nat)
           /\ \A t \in 0..(n - 1) : \E i \in 1..Len(c) : c[i][1] <= t /\ t < c[i][2]
           /\ \A i, j \in 1..Len(c) : c[i] = c[j] => i = j
           /\ \A i, j \in 1..Len(c) : i + 1 = j =>
                 c[i][2] - c[j][1] = TokenOverlap /\ c[i][2] < c[j][2]
<1>1. CASE n = 0
    <2> DEFINE c == ChunkText(n)
    <2>1. c \in Seq(Nat \X Nat) /\ Len(c) = 0
        <3>1. c = <<>>
            BY <1>1, NoWindow
        <3> HIDE DEF c
        <3> QED
            BY <3>1
    <2> HIDE DEF c
    <2>2. 0..(n - 1) = {} /\ 1..Len(c) = {}
        BY <1>1, <2>1
    <2>3. \A t \in 0..(n - 1) : \E i \in 1..Len(c) : c[i][1] <= t /\ t < c[i][2]
        BY <2>2
    <2>4. \A i, j \in 1..Len(c) : c[i] = c[j] => i = j
        BY <2>2
    <2>5. \A i, j \in 1..Len(c) : i + 1 = j =>
              c[i][2] - c[j][1] = TokenOverlap /\ c[i][2] < c[j][2]
        BY <2>2
    <2> QED
        BY <2>1, <2>3, <2>4, <2>5 DEF c
<1>2. CASE n # 0
    <2>1. PICK m \in Nat : Ends(n, m)
        BY <1>2, LastWindow
    <2> DEFINE c == [i \in 1..(m + 1) |-> Window(n, i)]
    <2>2. ChunkText(n) = c /\ Len(c) = m + 1
        BY <2>1, Windows
    <2>3. Stride \in Nat \ {0} /\ MaxTokens \in Nat /\ Stride <= MaxTokens
          /\ TokenOverlap = MaxTokens - Stride /\ TokenOverlap \in Nat
        BY StepType, SearchAssumption DEF SearchAssumption, Stride
    <2>4. \A i \in 1..(m + 1) : (i - 1) * Stride \in Nat
        BY <2>3
    <2>5. \A i \in 1..(m + 1) :
              /\ c[i][1] = (i - 1) * Stride
              /\ c[i][2] = Least((i - 1) * Stride + MaxTokens, n)
        BY DEF Window
    <2>6. m * Stride < n /\ n <= m * Stride + MaxTokens /\ m * Stride \in Nat
        BY <2>1, <2>3 DEF Ends
    <2>7. c \in Seq(Nat \X Nat)
        <3>1. \A i \in 1..(m + 1) : Window(n, i) \in Nat \X Nat
            BY <2>3, <2>4 DEF Window, Least
        <3> QED
            BY <3>1
    \* Before the last window, a window ends before the text does.
    <2>8. ASSUME NEW i \in 1..m
          PROVE  (i - 1) * Stride + MaxTokens < n /\ i * Stride = (i - 1) * Stride + Stride
        <3>1. (m - 1) * Stride + MaxTokens < n
            BY <2>1 DEF Ends
        <3>2. i * Stride = (i - 1) * Stride + Stride /\ (i - 1) * Stride \in Nat
              /\ m * Stride = (m - 1) * Stride + Stride /\ (m - 1) * Stride \in Nat /\ i * Stride \in Nat
            BY <2>3
        <3>3. i * Stride <= m * Stride
            BY <2>3, <3>2, Monotone
        <3> QED
            BY <2>3, <3>1, <3>2, <3>3
    <2>9. ASSUME NEW t \in 0..(n - 1)
          PROVE  \E i \in 1..(m + 1) : c[i][1] <= t /\ t < c[i][2]
        <3>0. t \in Nat
            OBVIOUS
        <3>1. PICK q \in Nat : t = q * Stride + (t % Stride) /\ t % Stride \in 0..(Stride - 1)
            BY <2>3, <3>0, Quotient
        <3>2. q * Stride \in Nat /\ q * Stride <= t /\ t < q * Stride + Stride
            BY <2>3, <3>1
        <3>3. CASE q <= m
            <4>1. q + 1 \in 1..(m + 1) /\ c[q + 1][1] = q * Stride
                  /\ c[q + 1][2] = Least(q * Stride + MaxTokens, n)
                BY <2>5, <3>3
            <4> HIDE DEF c
            <4>2. t < Least(q * Stride + MaxTokens, n)
                BY <2>3, <3>2 DEF Least
            <4> QED
                BY <3>2, <4>1, <4>2
        <3>4. CASE q > m
            <4>1. m + 1 \in 1..(m + 1) /\ c[m + 1][1] = m * Stride
                  /\ c[m + 1][2] = Least(m * Stride + MaxTokens, n)
                BY <2>5
            <4> HIDE DEF c
            <4>2. m * Stride + Stride <= q * Stride
                BY <2>3, <3>4, Monotone
            <4>3. t < Least(m * Stride + MaxTokens, n) /\ m * Stride <= t
                BY <2>3, <2>6, <3>2, <4>2 DEF Least
            <4> QED
                BY <4>1, <4>3
        <3> QED
            BY <3>3, <3>4
    <2>10. ASSUME NEW i \in 1..(m + 1), NEW j \in 1..(m + 1), c[i] = c[j]
           PROVE  i = j
        <3>1. (i - 1) * Stride = (j - 1) * Stride /\ i - 1 \in Nat /\ j - 1 \in Nat
            BY <2>5, <2>10
        <3>2. ~ (i < j) /\ ~ (j < i)
            BY <2>3, <2>4, <3>1, Monotone
        <3> QED
            BY <3>2
    <2>11. ASSUME NEW i \in 1..(m + 1), NEW j \in 1..(m + 1), i + 1 = j
           PROVE  c[i][2] - c[j][1] = TokenOverlap /\ c[i][2] < c[j][2]
        <3>1. i \in 1..m /\ j - 1 = i
            BY <2>11
        <3>2. c[i][2] = (i - 1) * Stride + MaxTokens /\ c[i][2] < n
            <4>1. (i - 1) * Stride + MaxTokens < n
                BY <2>8, <3>1
            <4> QED
                BY <2>3, <2>4, <2>5, <4>1 DEF Least
        <3>3. c[j][1] = (i - 1) * Stride + Stride
              /\ c[j][2] = Least((i - 1) * Stride + Stride + MaxTokens, n)
            BY <2>5, <2>8, <3>1
        <3> HIDE DEF c
        <3> QED
            BY <2>3, <2>4, <3>2, <3>3 DEF Least
    <2> HIDE DEF c
    <2> QED
        BY <2>2, <2>7, <2>9, <2>10, <2>11
<1> QED
    BY <1>1, <1>2

-----------------------------------------------------------------------------
\* The chunks of a path are its windows, numbered from 0.
LEMMA PiecesOf ==
    ASSUME NEW p \in Paths
    PROVE  LET c == ChunkText(EntryTokens(p)) IN
           /\ Pieces(p) \in Seq([index : Nat, window : Nat \X Nat])
           /\ Len(Pieces(p)) = Len(c) /\ Len(c) \in Nat
           /\ \A i \in 1..Len(c) : Pieces(p)[i] = [index |-> i - 1, window |-> c[i]]
<1> DEFINE c == ChunkText(EntryTokens(p))
<1>1. c \in Seq(Nat \X Nat)
    BY ChunksOf, SearchAssumption DEF SearchAssumption
<1>2. Pieces(p) = [i \in 1..Len(c) |-> [index |-> i - 1, window |-> c[i]]]
    BY DEF Pieces
<1> HIDE DEF c
<1>3. Len(c) \in Nat /\ \A i \in 1..Len(c) : c[i] \in Nat \X Nat
    BY <1>1
<1>4. \A i \in 1..Len(c) : [index |-> i - 1, window |-> c[i]] \in [index : Nat, window : Nat \X Nat]
    BY <1>3
<1>5. Pieces(p) \in Seq([index : Nat, window : Nat \X Nat]) /\ Len(Pieces(p)) = Len(c)
    BY <1>2, <1>3, <1>4
<1>6. \A i \in 1..Len(c) : Pieces(p)[i] = [index |-> i - 1, window |-> c[i]]
    BY <1>2
<1> QED
    BY <1>3, <1>5, <1>6 DEF c

-----------------------------------------------------------------------------
(* The inductive invariant.                                                *)

\* What a delivery has stored of a path.
Mine(p, d) == {v \in vectors : v.path = p /\ v.delivery = d}

\* A path's chunk, and its first ones, as they are stored by a delivery.
Chunk(p, d, i) ==
    [path |-> p, delivery |-> d, index |-> Pieces(p)[i].index, window |-> Pieces(p)[i].window]

FirstChunks(p, d, n) == {Chunk(p, d, i) : i \in 1..n}

\* A delivery has a path to do, or in hand.
Waiting(p, d) == task # None /\ d = Len(deliveries) /\ p \in task.todo
InHand(p, d)  == task # None /\ d = Len(deliveries) /\ task.path = p

\* A process has a delivery of a message that is taken; the path in hand is not to
\* be done again, and some of its pieces are still to be inserted.
TaskInv ==
    task # None =>
        /\ deliveries # <<>> /\ mail[Last(deliveries)] = "taken"
        /\ task.path \notin task.todo
        /\ task.path # None => task.pieces # <<>>

\* What is to be done, and what is stored, is of the paths in the message.
MessageInv ==
    /\ task # None => /\ task.todo \subseteq message[Last(deliveries)]
                      /\ task.path # None => task.path \in message[Last(deliveries)]
    /\ \A r \in Repositories : \A q \in message[r] : q \in Paths /\ q[1] = r
    /\ \A r \in Repositories : mail[r] = "unpublished" => message[r] = {}
    /\ \A v \in vectors : v.path \in message[v.path[1]]

\* As long as no error has cost a path a chunk, the delivery in progress has stored
\* nothing of it while it waits, its first pieces while it is in hand, all of them
\* afterwards.
Progress(p, d) ==
    /\ Waiting(p, d) => Mine(p, d) = {}
    /\ InHand(p, d) =>
          \E n \in 0..Len(Pieces(p)) :
              /\ Mine(p, d) = FirstChunks(p, d, n)
              /\ n + Len(task.pieces) = Len(Pieces(p))
              /\ \A i \in 1..Len(task.pieces) : task.pieces[i] = Pieces(p)[n + i]
    /\ ~Waiting(p, d) /\ ~InHand(p, d) =>
          Mine(p, d) = FirstChunks(p, d, Len(Pieces(p)))

ProgressInv ==
    task # None =>
        \A p \in message[Last(deliveries)] :
            <<p, Len(deliveries)>> \notin failed => Progress(p, Len(deliveries))

\* The last delivery of a repository's message.
LastOf(r, d) ==
    deliveries[d] = r /\ \A e \in DOMAIN deliveries : deliveries[e] = r => e <= d

\* What the last delivery of a message has stored, once it is acknowledged.
DoneInv ==
    \A r \in Repositories : mail[r] = "acknowledged" =>
        \E d \in DOMAIN deliveries :
            /\ LastOf(r, d)
            /\ \A p \in message[r] : <<p, d>> \notin failed =>
                  Mine(p, d) = FirstChunks(p, d, Len(Pieces(p)))

SearchInv == SearchOK /\ TaskInv /\ MessageInv /\ ProgressInv /\ DoneInv

\* Before the first delivery, nothing has been stored.
LEMMA SearchInitInv == SearchInit => SearchInv
BY SearchAssumption DEF SearchInit, SearchInv, SearchOK, MailStates, TaskInv, MessageInv,
    ProgressInv, DoneInv, SearchAssumption

\* What is left of a sequence without its first element.
LEMMA TailOf ==
    ASSUME NEW S, NEW s \in Seq(S), s # <<>>
    PROVE  /\ Tail(s) \in Seq(S) /\ Len(Tail(s)) = Len(s) - 1 /\ Len(s) \in Nat \ {0}
           /\ Len(s) # 1 => Tail(s) # <<>>
           /\ \A i \in 1..(Len(s) - 1) : Tail(s)[i] = s[i + 1]
           /\ Head(s) = s[1]
<1>1. Len(s) \in Nat \ {0}
    OBVIOUS
<1>2. Tail(s) \in Seq(S) /\ Len(Tail(s)) = Len(s) - 1
    BY <1>1
<1>3. Len(s) # 1 => Tail(s) # <<>>
    <2> DEFINE t == Tail(s)
    <2>1. ASSUME t = <<>> PROVE Len(t) = 0
        <3> HIDE DEF t
        <3> QED
            BY <2>1
    <2>2. Len(t) = Len(s) - 1
        BY <1>2
    <2> HIDE DEF t
    <2>3. Len(s) # 1 => t # <<>>
        BY <1>1, <2>1, <2>2
    <2> QED
        BY <2>3 DEF t
<1>4. \A i \in 1..(Len(s) - 1) : Tail(s)[i] = s[i + 1]
    OBVIOUS
<1> QED
    BY <1>1, <1>2, <1>3, <1>4

\* A delivery in progress is not None.
LEMMA DeliveryIsSome ==
    ASSUME NEW T \in SUBSET Paths, NEW p \in Paths \cup {None},
           NEW s \in Seq([index : Nat, window : Nat \X Nat])
    PROVE  [todo |-> T, path |-> p, pieces |-> s] \in Deliveries
           /\ [todo |-> T, path |-> p, pieces |-> s] # None
<1>1. [todo |-> T, path |-> p, pieces |-> s] \in Deliveries
    BY DEF Deliveries
<1> QED
    BY <1>1, SearchAssumption DEF SearchAssumption

\* What is known of a state, and of the delivery in progress.
LEMMA SearchFacts ==
    ASSUME SearchInv
    PROVE  LET last == Len(deliveries) IN
           /\ deliveries \in Seq(Repositories) /\ last \in Nat /\ last <= MaxDeliveries
           /\ DOMAIN deliveries = 1..last
           /\ mail \in [Repositories -> MailStates] /\ message \in [Repositories -> SUBSET Paths]
           /\ failed \subseteq Paths \X (1..MaxDeliveries)
           /\ \A v \in vectors : v.path \in Paths /\ v.delivery \in 1..last
           /\ None \notin Paths
           /\ task # None =>
                 /\ task = [todo |-> task.todo, path |-> task.path, pieces |-> task.pieces]
                 /\ task.pieces \in Seq([index : Nat, window : Nat \X Nat])
                 /\ task.todo \in SUBSET Paths /\ task.path \in Paths \cup {None}
                 /\ task.path \notin task.todo
                 /\ task.path # None => task.path \in Paths /\ task.pieces # <<>>
                 /\ last \in 1..MaxDeliveries /\ Last(deliveries) = deliveries[last]
                 /\ Last(deliveries) \in Repositories /\ mail[Last(deliveries)] = "taken"
                 /\ task.todo \subseteq message[Last(deliveries)]
                 /\ task.path # None => task.path \in message[Last(deliveries)]
<1> DEFINE last == Len(deliveries)
<1>1. /\ deliveries \in Seq(Repositories) /\ last \in Nat /\ last <= MaxDeliveries
      /\ DOMAIN deliveries = 1..last
      /\ mail \in [Repositories -> MailStates] /\ message \in [Repositories -> SUBSET Paths]
      /\ failed \subseteq Paths \X (1..MaxDeliveries)
      /\ \A v \in vectors : v.path \in Paths /\ v.delivery \in 1..last
      /\ None \notin Paths
    BY SearchAssumption DEF SearchInv, SearchOK, SearchAssumption
<1>2. ASSUME task # None
      PROVE  /\ task = [todo |-> task.todo, path |-> task.path, pieces |-> task.pieces]
             /\ task.pieces \in Seq([index : Nat, window : Nat \X Nat])
             /\ task.todo \in SUBSET Paths /\ task.path \in Paths \cup {None}
    BY <1>2 DEF SearchInv, SearchOK, Deliveries
<1>3. ASSUME task # None
      PROVE  /\ task.path \notin task.todo /\ (task.path # None => task.pieces # <<>>)
             /\ mail[Last(deliveries)] = "taken" /\ deliveries # <<>>
             /\ task.todo \subseteq message[Last(deliveries)]
             /\ task.path # None => task.path \in message[Last(deliveries)]
    BY <1>3 DEF SearchInv, TaskInv, MessageInv
<1>4. ASSUME task # None
      PROVE  /\ last \in 1..MaxDeliveries /\ Last(deliveries) = deliveries[last]
             /\ Last(deliveries) \in Repositories
    <2>1. last # 0
        BY <1>1, <1>3, <1>4
    <2> QED
        BY <1>1, <2>1, SearchAssumption DEF Last, SearchAssumption
<1> QED
    BY <1>1, <1>2, <1>3, <1>4

-----------------------------------------------------------------------------
(* The steps, in three groups.                                             *)

\* The document is put, a message is published or delivered.
Begins ==
    \E r \in Repositories : IndexRepository(r) \/ Publish(r) \/ Deliver(r)

\* The delivery in progress goes on: what is stored is of the path in hand.
GoesOn ==
    (\E p \in Paths : EmbedPath(p)) \/ InsertChunk \/ GiveUpPath

\* What every step of the delivery in progress does.
LEMMA GoingOn ==
    ASSUME SearchInv, GoesOn
    PROVE  /\ task # None /\ task' # None /\ task' \in Deliveries
           /\ UNCHANGED <<mail, message, deliveries, document>>
           /\ failed \subseteq failed' /\ failed' \subseteq Paths \X (1..MaxDeliveries)
           /\ task'.todo \subseteq task.todo
           /\ task'.path # None => /\ task'.path \in task.todo \cup {task.path}
                                   /\ task'.pieces # <<>>
           /\ task'.path \notin task'.todo
           /\ \A v \in vectors' : v \in vectors
                 \/ (v.delivery = Len(deliveries) /\ v.path = task.path /\ task.path # None)
           /\ vectors \subseteq vectors'
<1> USE SearchFacts
<1>1. ASSUME NEW p \in Paths, EmbedPath(p)
      PROVE  /\ task' = [todo |-> task.todo \ {p}, path |-> task'.path, pieces |-> task'.pieces]
             /\ task'.path \in {None, p} /\ (task'.path # None => task'.pieces # <<>>)
             /\ task'.pieces \in Seq([index : Nat, window : Nat \X Nat])
    <2>1. task # None /\ task.path = None /\ p \in task.todo
        BY <1>1 DEF EmbedPath
    <2>2. Pieces(p) \in Seq([index : Nat, window : Nat \X Nat])
        BY PiecesOf
    <2>3. CASE task' = [todo |-> task.todo \ {p}, pieces |-> Pieces(p),
                        path |-> IF Pieces(p) = <<>> THEN None ELSE p]
        BY <2>1, <2>2, <2>3
    <2>4. CASE task' = [task EXCEPT !.todo = @ \ {p}]
        BY <2>1, <2>4
    <2> QED
        BY <1>1, <2>3, <2>4 DEF EmbedPath
<1>2. ASSUME InsertChunk
      PROVE  /\ task' = [todo |-> task.todo, path |-> task'.path, pieces |-> task'.pieces]
             /\ task'.path \in {None, task.path} /\ (task'.path # None => task'.pieces # <<>>)
             /\ task'.pieces \in Seq([index : Nat, window : Nat \X Nat])
    <2>1. task # None /\ task.path # None
        BY <1>2 DEF InsertChunk
    <2>2. /\ Tail(task.pieces) \in Seq([index : Nat, window : Nat \X Nat])
          /\ Len(task.pieces) # 1 => Tail(task.pieces) # <<>>
        BY <2>1, TailOf
    <2>3. task' = [todo |-> task.todo, pieces |-> Tail(task.pieces),
                   path |-> IF Len(task.pieces) = 1 THEN None ELSE task.path]
        BY <1>2, <2>1 DEF InsertChunk
    <2> QED
        BY <2>1, <2>2, <2>3
<1>3. ASSUME GiveUpPath
      PROVE  task' = [todo |-> task.todo, path |-> None, pieces |-> <<>>]
    BY <1>3 DEF GiveUpPath
<1>4. CASE \E p \in Paths : EmbedPath(p)
    <2> PICK p \in Paths : EmbedPath(p)
        BY <1>4
    <2>1. /\ task # None /\ task.path = None /\ p \in task.todo
          /\ UNCHANGED <<mail, message, deliveries, vectors, document>>
          /\ failed' = failed \/ failed' = failed \cup {<<p, Len(deliveries)>>}
        BY DEF EmbedPath
    <2> DEFINE path == task'.path
               rest == task'.pieces
    <2>2. /\ task' = [todo |-> task.todo \ {p}, path |-> path, pieces |-> rest]
          /\ path \in {None, p} /\ (path # None => rest # <<>>)
          /\ rest \in Seq([index : Nat, window : Nat \X Nat])
        BY <1>1
    <2> HIDE DEF path, rest
    <2>3. task' \in Deliveries /\ task' # None
        BY <2>1, <2>2, DeliveryIsSome
    <2> QED
        BY <2>1, <2>2, <2>3 DEF path, rest
<1>5. CASE InsertChunk
    <2>1. /\ task # None /\ task.path # None
          /\ UNCHANGED <<mail, message, deliveries, document>>
          /\ failed' = failed \/ failed' = failed \cup {<<task.path, Len(deliveries)>>}
          /\ \A v \in vectors' : v \in vectors
                 \/ (v.delivery = Len(deliveries) /\ v.path = task.path)
          /\ vectors \subseteq vectors'
        BY <1>5 DEF InsertChunk
    <2> DEFINE path == task'.path
               rest == task'.pieces
    <2>2. /\ task' = [todo |-> task.todo, path |-> path, pieces |-> rest]
          /\ path \in {None, task.path} /\ (path # None => rest # <<>>)
          /\ rest \in Seq([index : Nat, window : Nat \X Nat])
        BY <1>2, <1>5
    <2> HIDE DEF path, rest
    <2>3. task' \in Deliveries /\ task' # None
        BY <2>1, <2>2, DeliveryIsSome
    <2>4. /\ failed \subseteq failed' /\ failed' \subseteq Paths \X (1..MaxDeliveries)
        <3>1. /\ task.path \in Paths /\ Len(deliveries) \in 1..MaxDeliveries
              /\ failed \subseteq Paths \X (1..MaxDeliveries)
            BY <2>1
        <3> QED
            BY <2>1, <3>1
    <2>5. task'.todo = task.todo
        BY <2>2
    <2>6. /\ task'.path # None => /\ task'.path \in task.todo \cup {task.path}
                                  /\ task'.pieces # <<>>
          /\ task'.path \notin task'.todo
        <3>1. task.path \notin task.todo /\ None \notin task.todo
            BY <2>1
        <3> QED
            BY <2>2, <2>5, <3>1 DEF path, rest
    <2> QED
        BY <2>1, <2>3, <2>4, <2>5, <2>6
<1>6. CASE GiveUpPath
    <2>1. /\ task # None /\ task.path # None
          /\ UNCHANGED <<mail, message, deliveries, vectors, document>>
          /\ failed' = failed \cup {<<task.path, Len(deliveries)>>}
        BY <1>6 DEF GiveUpPath
    <2>2. <<>> \in Seq([index : Nat, window : Nat \X Nat])
        OBVIOUS
    <2> DEFINE rest == <<>>
               new  == [todo |-> task.todo, path |-> None, pieces |-> rest]
    <2>3. task.todo \in SUBSET Paths /\ None \in Paths \cup {None}
          /\ rest \in Seq([index : Nat, window : Nat \X Nat])
        BY <2>1, <2>2
    <2> HIDE DEF rest
    <2>4. new \in Deliveries /\ new # None
        BY <2>3, DeliveryIsSome
    <2>5. task' \in Deliveries /\ task' # None
        BY <1>3, <1>6, <2>4 DEF rest
    <2> QED
        BY <1>3, <1>6, <2>1, <2>5
<1> QED
    BY <1>4, <1>5, <1>6 DEF GoesOn

\* What a delivery does: the message is taken, with all its paths to do.
LEMMA Delivering ==
    ASSUME SearchInv, NEW r \in Repositories, Deliver(r)
    PROVE  LET last == Len(deliveries) IN
           /\ task = None /\ mail[r] = "queued"
           /\ task' # None /\ task' \in Deliveries
           /\ task'.todo = message[r] /\ task'.path = None
           /\ deliveries' \in Seq(Repositories) /\ Len(deliveries') = last + 1
           /\ last + 1 <= MaxDeliveries
           /\ DOMAIN deliveries' = 1..(last + 1) /\ Last(deliveries') = r
           /\ deliveries'[last + 1] = r /\ \A e \in 1..last : deliveries'[e] = deliveries[e]
           /\ mail' \in [Repositories -> MailStates] /\ mail'[r] = "taken"
           /\ \A o \in Repositories : o # r => mail'[o] = mail[o]
           /\ UNCHANGED <<message, failed, vectors, document>>
<1>1. <<>> \in Seq([index : Nat, window : Nat \X Nat]) /\ message[r] \in SUBSET Paths
    BY SearchFacts
<1>2. task' \in Deliveries /\ task' # None /\ task'.todo = message[r] /\ task'.path = None
    BY <1>1, DeliveryIsSome DEF Deliver
<1>3. /\ deliveries' \in Seq(Repositories) /\ Len(deliveries') = Len(deliveries) + 1
      /\ DOMAIN deliveries' = 1..(Len(deliveries) + 1)
      /\ deliveries'[Len(deliveries) + 1] = r
      /\ \A e \in 1..Len(deliveries) : deliveries'[e] = deliveries[e]
      /\ Len(deliveries) + 1 <= MaxDeliveries
    BY SearchFacts, SearchAssumption DEF Deliver, SearchAssumption
<1>4. /\ mail' \in [Repositories -> MailStates] /\ mail'[r] = "taken"
      /\ \A o \in Repositories : o # r => mail'[o] = mail[o]
    BY SearchFacts DEF Deliver, MailStates
<1>5. Last(deliveries') = r
    BY <1>3 DEF Last
<1> QED
    BY <1>2, <1>3, <1>4, <1>5 DEF Deliver

\* What the publication of a message does.
LEMMA Publishing ==
    ASSUME SearchInv, NEW r \in Repositories, Publish(r)
    PROVE  /\ mail' \in [Repositories -> MailStates] /\ mail'[r] = "queued"
           /\ message' \in [Repositories -> SUBSET Paths]
           /\ \A q \in message'[r] : q[1] = r
           /\ \A o \in Repositories : o # r => mail'[o] = mail[o] /\ message'[o] = message[o]
           /\ mail[r] = "unpublished" /\ message[r] = {}
           /\ UNCHANGED <<task, deliveries, failed, vectors, document>>
<1>1. PICK some \in Messages(r) : message' = [message EXCEPT ![r] = some]
    BY DEF Publish
<1>2. some \in SUBSET Paths /\ \A q \in some : q[1] = r
    BY DEF Messages
<1> QED
    BY <1>1, <1>2, SearchFacts DEF Publish, MailStates, SearchInv, MessageInv

\* What the end of a delivery does.
LEMMA LettingGo ==
    ASSUME SearchInv, Finish \/ TimeLimit \/ LoseProcess
    PROVE  /\ task # None /\ task' = None
           /\ mail' \in [Repositories -> MailStates]
           /\ mail'[Last(deliveries)] \in {"queued", "acknowledged"}
           /\ mail'[Last(deliveries)] = "acknowledged" =>
                 \A p \in task.todo \cup {task.path} :
                     p # None => <<p, Len(deliveries)>> \in failed'
           /\ failed \subseteq failed' /\ failed' \subseteq Paths \X (1..MaxDeliveries)
           /\ \A o \in Repositories : o # Last(deliveries) => mail'[o] = mail[o]
           /\ UNCHANGED <<message, deliveries, vectors, document>>
<1>1. CASE UNCHANGED failed
    BY <1>1, SearchFacts DEF Finish, TimeLimit, LoseProcess, LetGo, MailStates
<1>2. CASE TimeLimit
    BY <1>2, SearchFacts DEF TimeLimit, LetGo, MailStates
<1> QED
    BY <1>1, <1>2 DEF Finish, LoseProcess

-----------------------------------------------------------------------------
\* Every step of the task keeps the types; while a path is in hand, some of its
\* chunks are still to be inserted, and it is not to be done again.
LEMMA SearchTypeStep == SearchInv /\ [SearchNext]_searchVars => SearchOK' /\ TaskInv'
<1> SUFFICES ASSUME SearchInv, [SearchNext]_searchVars
             PROVE  SearchOK' /\ TaskInv'
    OBVIOUS
<1>1. CASE UNCHANGED searchVars
    BY <1>1 DEF searchVars, SearchInv, SearchOK, TaskInv
<1>2. ASSUME NEW r \in Repositories, IndexRepository(r)
      PROVE  SearchOK' /\ TaskInv'
    BY <1>2 DEF IndexRepository, SearchInv, SearchOK, TaskInv
<1>3. ASSUME NEW r \in Repositories, Publish(r)
      PROVE  SearchOK' /\ TaskInv'
    <2>1. SearchOK'
        BY <1>3, Publishing DEF SearchInv, SearchOK
    <2>2. TaskInv'
        BY <1>3, Publishing, SearchFacts DEF SearchInv, TaskInv
    <2> QED
        BY <2>1, <2>2
<1>4. ASSUME NEW r \in Repositories, Deliver(r)
      PROVE  SearchOK' /\ TaskInv'
    <2>1. SearchOK'
        BY <1>4, Delivering, SearchFacts DEF SearchInv, SearchOK
    <2>2. deliveries' # <<>>
        <3> DEFINE n == Len(deliveries')
        <3>1. n # 0
            BY <1>4, Delivering, SearchFacts
        <3>2. deliveries' = <<>> => n = 0
            OBVIOUS
        <3> QED
            BY <3>1, <3>2
    <2>3. TaskInv'
        <3>1. /\ mail'[Last(deliveries')] = "taken"
              /\ task'.path = None /\ task'.todo = message[r]
            BY <1>4, Delivering
        <3>2. None \notin message[r]
            BY SearchFacts
        <3> QED
            BY <2>2, <3>1, <3>2 DEF TaskInv
    <2> QED
        BY <2>1, <2>3
<1>5. CASE GoesOn
    <2>1. \A v \in vectors' : v.path \in Paths /\ v.delivery \in DOMAIN deliveries
        BY <1>5, GoingOn, SearchFacts
    <2>2. SearchOK'
        BY <1>5, <2>1, GoingOn DEF SearchInv, SearchOK
    <2>3. TaskInv'
        BY <1>5, GoingOn, SearchFacts DEF SearchInv, TaskInv
    <2> QED
        BY <2>2, <2>3
<1>6. CASE Finish \/ TimeLimit \/ LoseProcess
    BY <1>6, LettingGo DEF SearchInv, SearchOK, TaskInv
<1> QED
    BY <1>1, <1>2, <1>3, <1>4, <1>5, <1>6 DEF SearchNext, GoesOn

\* Every step keeps to the paths in the message.
LEMMA MessageStep == SearchInv /\ [SearchNext]_searchVars => MessageInv'
<1> SUFFICES ASSUME SearchInv, [SearchNext]_searchVars
             PROVE  MessageInv'
    OBVIOUS
<1>0. MessageInv
    BY DEF SearchInv
<1>1. CASE UNCHANGED searchVars
    BY <1>0, <1>1 DEF searchVars, MessageInv
<1>2. ASSUME NEW r \in Repositories, IndexRepository(r)
      PROVE  MessageInv'
    BY <1>0, <1>2 DEF IndexRepository, MessageInv
<1>3. ASSUME NEW r \in Repositories, Publish(r)
      PROVE  MessageInv'
    <2>1. \A o \in Repositories : message[o] \subseteq message'[o]
        BY <1>3, Publishing
    <2>2. \A v \in vectors : v.path[1] \in Repositories
        BY SearchFacts DEF Repositories
    <2>3. \A v \in vectors : v.path \in message'[v.path[1]]
        BY <1>0, <2>1, <2>2 DEF MessageInv
    <2>4. \A o \in Repositories : \A q \in message'[o] : q \in Paths /\ q[1] = o
        BY <1>0, <1>3, Publishing DEF MessageInv
    <2>5. \A o \in Repositories : mail'[o] = "unpublished" => message'[o] = {}
        BY <1>0, <1>3, Publishing DEF MessageInv
    <2>6. task # None => /\ task.todo \subseteq message'[Last(deliveries)]
                         /\ task.path # None => task.path \in message'[Last(deliveries)]
        BY <2>1, SearchFacts
    <2> QED
        BY <1>3, <2>3, <2>4, <2>5, <2>6, Publishing DEF MessageInv
<1>4. ASSUME NEW r \in Repositories, Deliver(r)
      PROVE  MessageInv'
    <2>1. \A o \in Repositories : mail'[o] = "unpublished" => mail[o] = "unpublished"
        BY <1>4, Delivering
    <2> QED
        BY <1>0, <1>4, <2>1, Delivering DEF MessageInv
<1>5. CASE GoesOn
    <2>1. \A v \in vectors' : v.path \in message[v.path[1]]
        <3> SUFFICES ASSUME NEW v \in vectors', v \notin vectors
                     PROVE  v.path \in message[v.path[1]]
            BY <1>0 DEF MessageInv
        <3>1. v.path \in message[Last(deliveries)] /\ Last(deliveries) \in Repositories
            BY <1>5, GoingOn, SearchFacts
        <3>2. v.path[1] = Last(deliveries)
            BY <1>0, <3>1 DEF MessageInv
        <3> QED
            BY <3>1, <3>2
    <2>2. /\ task'.todo \subseteq message[Last(deliveries)]
          /\ task'.path # None => task'.path \in message[Last(deliveries)]
        BY <1>5, GoingOn, SearchFacts
    <2> QED
        BY <1>0, <1>5, <2>1, <2>2, GoingOn DEF MessageInv
<1>6. CASE Finish \/ TimeLimit \/ LoseProcess
    <2>1. \A o \in Repositories : mail'[o] = "unpublished" => mail[o] = "unpublished"
        BY <1>6, LettingGo
    <2> QED
        BY <1>0, <1>6, <2>1, LettingGo DEF MessageInv
<1> QED
    BY <1>1, <1>2, <1>3, <1>4, <1>5, <1>6 DEF SearchNext, GoesOn

\* What a path has stored, and what the delivery in progress has to do, is read off
\* these variables.
LEMMA SameProgress ==
    ASSUME NEW p, NEW d, UNCHANGED <<task, deliveries, vectors>>
    PROVE  /\ Mine(p, d)' = Mine(p, d) /\ (Progress(p, d)' <=> Progress(p, d))
BY DEF Progress, Mine, Waiting, InHand

\* Every step keeps account of the chunks: none of a path that waits, the first
\* ones of the path in hand, all of one that is done, unless an error cost it one.
LEMMA ProgressStep == SearchInv /\ [SearchNext]_searchVars => ProgressInv'
<1> SUFFICES ASSUME SearchInv, [SearchNext]_searchVars, NEW d, d = Len(deliveries)
             PROVE  ProgressInv'
    OBVIOUS
<1>1. CASE UNCHANGED <<task, deliveries, failed, vectors>> /\
           (task # None => message'[Last(deliveries)] = message[Last(deliveries)])
    BY <1>1, SameProgress DEF ProgressInv, SearchInv
<1>2. ASSUME NEW r \in Repositories, IndexRepository(r)
      PROVE  ProgressInv'
    BY <1>1, <1>2 DEF IndexRepository
<1>3. ASSUME NEW r \in Repositories, Publish(r)
      PROVE  ProgressInv'
    <2>1. task # None => Last(deliveries) # r /\ Last(deliveries) \in Repositories
        BY <1>3, Publishing, SearchFacts
    <2> QED
        BY <1>1, <1>3, <2>1, Publishing
<1>4. ASSUME NEW r \in Repositories, Deliver(r)
      PROVE  ProgressInv'
    <2> SUFFICES ASSUME NEW p \in message[r]
                 PROVE  Progress(p, d + 1)'
        BY <1>4, Delivering DEF ProgressInv
    <2>1. Waiting(p, d + 1)' /\ ~InHand(p, d + 1)'
        <3>1. task' # None /\ task'.todo = message[r] /\ task'.path = None
              /\ Len(deliveries') = d + 1 /\ p # None
            BY <1>4, Delivering, SearchFacts
        <3> QED
            BY <3>1 DEF Waiting, InHand
    <2>2. Mine(p, d + 1)' = {}
        BY <1>4, Delivering, SearchFacts DEF Mine
    <2> QED
        BY <2>1, <2>2 DEF Progress
<1>5. ASSUME GoesOn
      PROVE  ProgressInv'
    <2> SUFFICES ASSUME NEW p \in message[Last(deliveries)], <<p, d>> \notin failed'
                 PROVE  Progress(p, d)'
        BY <1>5, GoingOn DEF ProgressInv
    <2>1. /\ task # None /\ task' # None /\ deliveries' = deliveries
          /\ p \in Paths /\ p # None /\ <<p, d>> \notin failed
        BY <1>5, GoingOn, SearchFacts
    <2>2. Progress(p, d)
        BY <2>1 DEF SearchInv, ProgressInv
    <2>3. Pieces(p) \in Seq([index : Nat, window : Nat \X Nat]) /\ Len(Pieces(p)) \in Nat
        BY <2>1, PiecesOf
    \* A path that the delivery neither begins nor ends with this step.
    <2>4. ASSUME Mine(p, d)' = Mine(p, d), task.path # p, task'.path # p,
                 p \in task'.todo <=> p \in task.todo
          PROVE  Progress(p, d)'
        <3>1. /\ ~InHand(p, d) /\ ~InHand(p, d)' /\ (Waiting(p, d)' <=> Waiting(p, d))
            BY <2>1, <2>4 DEF InHand, Waiting
        <3> QED
            BY <2>2, <2>4, <3>1 DEF Progress
    <2>5. ASSUME NEW q \in Paths, EmbedPath(q)
          PROVE  Progress(p, d)'
        <3>1. /\ task.path = None /\ q \in task.todo /\ vectors' = vectors
            BY <2>5 DEF EmbedPath
        <3>2. Mine(p, d)' = Mine(p, d)
            BY <3>1 DEF Mine
        <3>3. CASE /\ task' = [todo |-> task.todo \ {q}, pieces |-> Pieces(q),
                               path |-> IF Pieces(q) = <<>> THEN None ELSE q]
            <4>1. CASE p # q
                BY <2>1, <2>4, <3>1, <3>2, <3>3, <4>1
            <4>2. CASE p = q
                <5>1. Waiting(p, d) /\ ~Waiting(p, d)' /\ task'.pieces = Pieces(p)
                      /\ task'.path = IF Pieces(p) = <<>> THEN None ELSE p
                    BY <2>1, <3>1, <3>3, <4>2 DEF Waiting
                <5>2. Mine(p, d)' = {} /\ FirstChunks(p, d, 0) = {}
                    BY <2>2, <3>2, <5>1 DEF Progress, FirstChunks
                <5>3. CASE Pieces(p) = <<>>
                    <6>1. Len(Pieces(p)) = 0 /\ ~InHand(p, d)'
                        BY <2>1, <5>1, <5>3 DEF InHand
                    <6> QED
                        BY <5>1, <5>2, <6>1 DEF Progress
                <5>4. CASE Pieces(p) # <<>>
                    <6>1. /\ Mine(p, d)' = FirstChunks(p, d, 0) /\ 0 \in 0..Len(Pieces(p))
                          /\ 0 + Len(task'.pieces) = Len(Pieces(p))
                          /\ \A i \in 1..Len(task'.pieces) :
                                task'.pieces[i] = Pieces(p)[0 + i]
                        BY <2>3, <5>1, <5>2
                    <6>2. InHand(p, d)'
                        BY <2>1, <5>1, <5>4 DEF InHand
                    <6> QED
                        BY <5>1, <6>1, <6>2 DEF Progress
                <5> QED
                    BY <5>3, <5>4
            <4> QED
                BY <4>1, <4>2
        <3>4. CASE /\ task' = [task EXCEPT !.todo = @ \ {q}]
                   /\ failed' = failed \cup {<<q, Len(deliveries)>>}
            <4>1. p # q
                BY <3>4
            <4>2. task'.todo = task.todo \ {q} /\ task'.path = None
                BY <2>1, <3>1, <3>4, SearchFacts
            <4> QED
                BY <2>1, <2>4, <3>1, <3>2, <4>1, <4>2
        <3> QED
            BY <2>5, <3>3, <3>4 DEF EmbedPath
    <2>6. ASSUME InsertChunk
          PROVE  Progress(p, d)'
        <3> DEFINE q   == task.path
                   new == [path |-> q, delivery |-> d, index |-> Head(task.pieces).index,
                           window |-> Head(task.pieces).window]
        <3>1. /\ q \in Paths /\ q # None /\ task.pieces # <<>> /\ q \notin task.todo
              /\ task.pieces \in Seq([index : Nat, window : Nat \X Nat])
            BY <2>1, <2>6, SearchFacts DEF InsertChunk
        <3>2. /\ task'.todo = task.todo /\ task'.pieces = Tail(task.pieces)
              /\ task'.path = IF Len(task.pieces) = 1 THEN None ELSE q
            BY <2>1, <2>6, SearchFacts DEF InsertChunk
        <3>3. /\ Len(Tail(task.pieces)) = Len(task.pieces) - 1 /\ Len(task.pieces) \in Nat \ {0}
              /\ \A i \in 1..(Len(task.pieces) - 1) : Tail(task.pieces)[i] = task.pieces[i + 1]
              /\ Head(task.pieces) = task.pieces[1]
            BY <3>1, TailOf
        <3>4. CASE p # q
            <4>1. Mine(p, d)' = Mine(p, d)
                BY <2>6, <3>4 DEF InsertChunk, Mine
            <4> QED
                BY <2>1, <2>4, <3>2, <3>4, <4>1
        <3>5. CASE p = q
            <4>1. vectors' = vectors \cup {new}
                BY <2>6, <3>5 DEF InsertChunk
            <4>2. InHand(p, d) /\ ~Waiting(p, d)'
                BY <2>1, <3>1, <3>2, <3>5 DEF InHand, Waiting
            <4>3. PICK n \in 0..Len(Pieces(p)) :
                      /\ Mine(p, d) = FirstChunks(p, d, n)
                      /\ n + Len(task.pieces) = Len(Pieces(p))
                      /\ \A i \in 1..Len(task.pieces) : task.pieces[i] = Pieces(p)[n + i]
                BY <2>2, <4>2 DEF Progress
            <4>4. n \in Nat /\ n + 1 \in 0..Len(Pieces(p))
                BY <2>3, <3>3, <4>3
            <4>5. Head(task.pieces) = Pieces(p)[n + 1]
                BY <3>3, <4>3
            <4>6. Mine(p, d)' = FirstChunks(p, d, n + 1)
                <5>1. Mine(p, d)' = Mine(p, d) \cup {Chunk(p, d, n + 1)}
                    BY <3>5, <4>1, <4>5 DEF Mine, Chunk
                <5>2. 1..(n + 1) = (1..n) \cup {n + 1}
                    BY <4>4
                <5> QED
                    BY <4>3, <5>1, <5>2 DEF FirstChunks
            <4>7. CASE Len(task.pieces) = 1
                <5>1. n + 1 = Len(Pieces(p)) /\ ~InHand(p, d)'
                    BY <2>1, <2>3, <3>2, <4>3, <4>4, <4>7 DEF InHand
                <5> QED
                    BY <4>2, <4>6, <5>1 DEF Progress
            <4>8. CASE Len(task.pieces) # 1
                <5>1. InHand(p, d)'
                    BY <2>1, <3>2, <3>5, <4>8 DEF InHand
                <5>2. (n + 1) + Len(task'.pieces) = Len(Pieces(p))
                    <6> DEFINE was == Len(task.pieces)
                               now == Len(task'.pieces)
                               all == Len(Pieces(p))
                    <6>1. now = was - 1 /\ n + was = all /\ was \in Nat /\ n \in Nat
                        BY <3>2, <3>3, <4>3, <4>4
                    <6> HIDE DEF was, now, all
                    <6>2. (n + 1) + now = all
                        BY <6>1
                    <6> QED
                        BY <6>2 DEF now, all
                <5>3. ASSUME NEW i \in 1..Len(task'.pieces)
                      PROVE  task'.pieces[i] = Pieces(p)[(n + 1) + i]
                    <6>1. i \in 1..(Len(task.pieces) - 1) /\ i + 1 \in 1..Len(task.pieces)
                        BY <3>2, <3>3
                    <6>2. task'.pieces[i] = task.pieces[i + 1]
                        BY <3>2, <3>3, <6>1
                    <6>3. task.pieces[i + 1] = Pieces(p)[n + (i + 1)]
                        BY <4>3, <6>1
                    <6>4. n + (i + 1) = (n + 1) + i
                        BY <4>4, <6>1
                    <6> QED
                        BY <6>2, <6>3, <6>4
                <5> QED
                    BY <4>2, <4>4, <4>6, <5>1, <5>2, <5>3 DEF Progress
            <4> QED
                BY <4>7, <4>8
        <3> QED
            BY <3>4, <3>5
    <2>7. ASSUME GiveUpPath
          PROVE  Progress(p, d)'
        <3>1. /\ task.path # None /\ vectors' = vectors
              /\ failed' = failed \cup {<<task.path, d>>}
              /\ task' = [task EXCEPT !.path = None, !.pieces = <<>>]
            BY <2>7 DEF GiveUpPath
        <3>2. task'.todo = task.todo /\ task'.path = None
            BY <2>1, <3>1, SearchFacts
        <3>3. task.path # p /\ Mine(p, d)' = Mine(p, d)
            BY <3>1 DEF Mine
        <3> QED
            BY <2>1, <2>4, <3>2, <3>3
    <2> QED
        BY <1>5, <2>5, <2>6, <2>7 DEF GoesOn
<1>6. CASE Finish \/ TimeLimit \/ LoseProcess
    BY <1>6, LettingGo DEF ProgressInv
<1> QED
    BY <1>1, <1>2, <1>3, <1>4, <1>5, <1>6 DEF SearchNext, GoesOn, searchVars

\* Once a message is acknowledged, its last delivery stays, with what it has stored.
LEMMA DoneStep == SearchInv /\ [SearchNext]_searchVars => DoneInv'
<1> SUFFICES ASSUME SearchInv, [SearchNext]_searchVars,
                    NEW r \in Repositories, mail'[r] = "acknowledged"
             PROVE  \E d \in DOMAIN deliveries' :
                        /\ LastOf(r, d)'
                        /\ \A p \in message'[r] : <<p, d>> \notin failed' =>
                              Mine(p, d)' = FirstChunks(p, d, Len(Pieces(p)))
    BY DEF DoneInv
<1> DEFINE Goal == \E d \in DOMAIN deliveries' :
                        /\ LastOf(r, d)'
                        /\ \A p \in message'[r] : <<p, d>> \notin failed' =>
                              Mine(p, d)' = FirstChunks(p, d, Len(Pieces(p)))
\* A message that was acknowledged before.
<1>1. ASSUME NEW d \in DOMAIN deliveries, LastOf(r, d)', message'[r] = message[r],
             d \in DOMAIN deliveries', failed \subseteq failed',
             \A p \in message[r] : <<p, d>> \notin failed =>
                 Mine(p, d) = FirstChunks(p, d, Len(Pieces(p))),
             \A p \in message[r] : Mine(p, d)' = Mine(p, d)
      PROVE  Goal
    BY <1>1
<1>2. ASSUME mail[r] = "acknowledged"
      PROVE  \E d \in DOMAIN deliveries :
                 /\ LastOf(r, d)
                 /\ \A p \in message[r] : <<p, d>> \notin failed =>
                       Mine(p, d) = FirstChunks(p, d, Len(Pieces(p)))
    BY <1>2 DEF SearchInv, DoneInv
<1>3. CASE /\ UNCHANGED <<deliveries, vectors>> /\ failed \subseteq failed'
           /\ mail[r] = "acknowledged" /\ message'[r] = message[r]
    <2>1. \A p, d : Mine(p, d)' = Mine(p, d) /\ (LastOf(r, d)' <=> LastOf(r, d))
        BY <1>3 DEF Mine, LastOf
    <2> QED
        BY <1>2, <1>3, <2>1
<1>4. ASSUME NEW o \in Repositories, IndexRepository(o)
      PROVE  Goal
    BY <1>3, <1>4 DEF IndexRepository
<1>5. ASSUME NEW o \in Repositories, Publish(o)
      PROVE  Goal
    <2>1. r # o /\ mail[r] = "acknowledged" /\ message'[r] = message[r]
        BY <1>5, Publishing
    <2> QED
        BY <1>3, <1>5, <2>1, Publishing
<1>6. ASSUME NEW o \in Repositories, Deliver(o)
      PROVE  Goal
    <2>1. r # o /\ mail[r] = "acknowledged"
        BY <1>6, Delivering
    <2>2. PICK d \in DOMAIN deliveries :
              /\ LastOf(r, d)
              /\ \A p \in message[r] : <<p, d>> \notin failed =>
                    Mine(p, d) = FirstChunks(p, d, Len(Pieces(p)))
        BY <1>2, <2>1
    <2>3. LastOf(r, d)' /\ d \in DOMAIN deliveries'
        BY <1>6, <2>1, <2>2, Delivering, SearchFacts DEF LastOf
    <2>4. \A p : Mine(p, d)' = Mine(p, d)
        BY <1>6, Delivering DEF Mine
    <2> QED
        BY <1>1, <1>6, <2>2, <2>3, <2>4, Delivering
<1>7. CASE GoesOn
    <2>1. mail[r] = "acknowledged" /\ deliveries' = deliveries /\ message' = message
        BY <1>7, GoingOn
    <2>2. PICK d \in DOMAIN deliveries :
              /\ LastOf(r, d)
              /\ \A p \in message[r] : <<p, d>> \notin failed =>
                    Mine(p, d) = FirstChunks(p, d, Len(Pieces(p)))
        BY <1>2, <2>1
    <2>3. d # Len(deliveries)
        BY <1>7, <2>1, <2>2, GoingOn, SearchFacts DEF LastOf
    <2>4. \A p : Mine(p, d)' = Mine(p, d)
        BY <1>7, <2>3, GoingOn DEF Mine
    <2>5. LastOf(r, d)'
        BY <2>1, <2>2 DEF LastOf
    <2> QED
        BY <1>1, <1>7, <2>1, <2>2, <2>4, <2>5, GoingOn
<1>8. CASE Finish \/ TimeLimit \/ LoseProcess
    <2>1. CASE r # Last(deliveries)
        BY <1>3, <1>8, <2>1, LettingGo
    <2>2. CASE r = Last(deliveries)
        <3> DEFINE d == Len(deliveries)
        <3>1. /\ task # None
              /\ \A p \in task.todo \cup {task.path} : p # None => <<p, d>> \in failed'
              /\ failed \subseteq failed' /\ UNCHANGED <<message, deliveries, vectors>>
            BY <1>8, <2>2, LettingGo
        <3>2. d \in DOMAIN deliveries /\ deliveries[d] = r
            BY <2>2, <3>1, SearchFacts
        <3>3. LastOf(r, d)'
            BY <3>1, <3>2, SearchFacts DEF LastOf
        <3>4. ASSUME NEW p \in message[r], <<p, d>> \notin failed'
              PROVE  Mine(p, d) = FirstChunks(p, d, Len(Pieces(p)))
            <4>1. Progress(p, d)
                BY <2>2, <3>1, <3>4 DEF SearchInv, ProgressInv
            <4>2. ~Waiting(p, d) /\ ~InHand(p, d)
                BY <3>1, <3>4, SearchFacts DEF Waiting, InHand
            <4> QED
                BY <4>1, <4>2 DEF Progress
        <3>5. \A p : Mine(p, d)' = Mine(p, d)
            BY <3>1 DEF Mine
        <3> QED
            BY <3>1, <3>2, <3>3, <3>4, <3>5
    <2> QED
        BY <2>1, <2>2
<1> QED
    BY <1>3, <1>4, <1>5, <1>6, <1>7, <1>8 DEF SearchNext, GoesOn, searchVars

-----------------------------------------------------------------------------
\* What has been stored of every path is known in every state, whatever fails or dies.
THEOREM SearchInvariance == SearchSpec => []SearchInv
<1>1. SearchInv /\ [SearchNext]_searchVars => SearchInv'
    BY SearchTypeStep, MessageStep, ProgressStep, DoneStep DEF SearchInv
<1> QED
    BY <1>1, SearchInitInv, PTL DEF SearchSpec

\* The chunks of a path that is done have its windows, one window each.
LEMMA FirstChunksCount ==
    ASSUME NEW p \in Paths, NEW d, NEW mine, NEW W,
           mine = FirstChunks(p, d, Len(Pieces(p))), W = {v.window : v \in mine}
    PROVE  LET c == ChunkText(EntryTokens(p)) IN
           /\ \A v \in mine : \E i \in 1..Len(c) : v.index = i - 1 /\ v.window = c[i]
           /\ \A i \in 1..Len(c) : c[i] \in W
           /\ Cardinality(W) = Cardinality(mine)
<1> DEFINE c      == ChunkText(EntryTokens(p))
           chunk  == [i \in 1..Len(c) |-> Chunk(p, d, i)]
           window == [i \in 1..Len(c) |-> c[i]]
<1>1. Len(Pieces(p)) = Len(c) /\ Len(c) \in Nat
      /\ \A i \in 1..Len(c) : Pieces(p)[i] = [index |-> i - 1, window |-> c[i]]
    BY PiecesOf
<1>2. \A i, j \in 1..Len(c) : c[i] = c[j] => i = j
    BY ChunksOf, SearchAssumption DEF SearchAssumption
<1> HIDE DEF c
<1>3. \A i \in 1..Len(c) :
          Chunk(p, d, i) = [path |-> p, delivery |-> d, index |-> i - 1, window |-> c[i]]
    <2> TAKE i \in 1..Len(c)
    <2> DEFINE piece == Pieces(p)[i]
    <2>1. piece = [index |-> i - 1, window |-> c[i]]
        BY <1>1
    <2> HIDE DEF piece
    <2>2. piece.index = i - 1 /\ piece.window = c[i]
        BY <2>1
    <2> QED
        BY <2>2 DEF Chunk, piece
<1>4. mine = {Chunk(p, d, i) : i \in 1..Len(c)}
    BY <1>1 DEF FirstChunks
<1>5. W = {c[i] : i \in 1..Len(c)}
    BY <1>3, <1>4
<1>6. chunk \in Bijection(1..Len(c), mine)
    <2>1. \A i, j \in 1..Len(c) : chunk[i] = chunk[j] => i = j
        BY <1>2, <1>3
    <2> QED
        BY <1>4, <2>1 DEF Bijection, Injection, Surjection, IsInjective
<1>7. window \in Bijection(1..Len(c), W)
    <2> QED
        BY <1>2, <1>5 DEF Bijection, Injection, Surjection, IsInjective
<1>8. Cardinality(W) = Cardinality(mine)
    <2>1. IsFiniteSet(1..Len(c))
        BY <1>1, FS_Interval
    <2> QED
        BY <1>6, <1>7, <2>1, FS_Bijection DEF ExistsBijection
<1> QED
    BY <1>3, <1>4, <1>5, <1>8 DEF c

\* Once a message is acknowledged, a search can find the whole index entry of every
\* path in it, unless an error cost it a chunk, and of other paths it finds nothing
\* (SearchIndex!EntriesAreCovered), whatever process dies on the way.
THEOREM EntriesAreWhole == SearchSpec => []EntriesAreCovered
<1>1. ASSUME SearchInv, NEW p \in Paths, NEW d \in DOMAIN deliveries
      PROVE  Found(p, d) = Mine(p, d)
    BY DEF Found, SemanticHits, Mine
<1>2. ASSUME NEW p \in Paths, NEW d, NEW mine, mine = FirstChunks(p, d, Len(Pieces(p)))
      PROVE  Whole(mine, p)
    <2> DEFINE W == {v.window : v \in mine}
               c == ChunkText(EntryTokens(p))
    <2>1. /\ \A v \in mine : \E i \in 1..Len(c) : v.index = i - 1 /\ v.window = c[i]
          /\ \A i \in 1..Len(c) : c[i] \in W
          /\ Cardinality(W) = Cardinality(mine)
        BY <1>2, FirstChunksCount
    <2>2. /\ \A t \in 0..(EntryTokens(p) - 1) : \E i \in 1..Len(c) : c[i][1] <= t /\ t < c[i][2]
          /\ \A i, j \in 1..Len(c) : i + 1 = j =>
                 c[i][2] - c[j][1] = TokenOverlap /\ c[i][2] < c[j][2]
        BY ChunksOf, SearchAssumption DEF SearchAssumption
    <2> HIDE DEF W, c
    <2>3. Cover(W, EntryTokens(p))
        BY <2>1, <2>2 DEF Cover
    <2>4. ASSUME NEW v \in mine, NEW w \in mine, v.index + 1 = w.index
          PROVE  v.window[2] - w.window[1] = TokenOverlap /\ v.window[2] < w.window[2]
        <3>1. PICK i \in 1..Len(c) : v.index = i - 1 /\ v.window = c[i]
            BY <2>1
        <3>2. PICK j \in 1..Len(c) : w.index = j - 1 /\ w.window = c[j]
            BY <2>1
        <3>3. i + 1 = j
            BY <2>4, <3>1, <3>2
        <3> QED
            BY <2>2, <3>1, <3>2, <3>3
    <2> QED
        BY <2>1, <2>3, <2>4 DEF W, Whole
<1>3. SearchInv => EntriesAreCovered
    <2> SUFFICES ASSUME SearchInv, NEW p \in Paths
                 PROVE  /\ p \notin message[p[1]] => \A d \in DOMAIN deliveries : Found(p, d) = {}
                        /\ p \in message[p[1]] /\ mail[p[1]] = "acknowledged" =>
                              \E d \in DOMAIN deliveries :
                                  /\ LastOf(p[1], d)
                                  /\ <<p, d>> \in failed \/ Whole(Found(p, d), p)
        BY DEF EntriesAreCovered, LastOf
    <2>1. p \notin message[p[1]] => \A d \in DOMAIN deliveries : Mine(p, d) = {}
        BY DEF Mine, SearchInv, MessageInv
    <2>2. ASSUME p \in message[p[1]], mail[p[1]] = "acknowledged"
          PROVE  \E d \in DOMAIN deliveries :
                     /\ LastOf(p[1], d)
                     /\ <<p, d>> \in failed \/ Whole(Mine(p, d), p)
        <3>1. p[1] \in Repositories
            BY DEF Repositories
        <3>2. PICK d \in DOMAIN deliveries :
                  /\ LastOf(p[1], d)
                  /\ <<p, d>> \notin failed => Mine(p, d) = FirstChunks(p, d, Len(Pieces(p)))
            BY <2>2, <3>1 DEF SearchInv, DoneInv
        <3> QED
            BY <1>2, <3>2
    <2> QED
        BY <1>1, <2>1, <2>2
<1> QED
    BY <1>3, SearchInvariance, PTL
=============================================================================
