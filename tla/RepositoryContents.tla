------------------------- MODULE RepositoryContents --------------------------
(***************************************************************************)
(* What the stages of the analysis derive from a checkout, what they write *)
(* about one repository, and what the read endpoints make of it.           *)
(*                                                                         *)
(* Each attempt of a task clones the repository anew, so two attempts may  *)
(* see two different checkouts; they may also overlap. How attempts come   *)
(* about is in AnalysisPipeline; here any number of them start and raise.  *)
(* A path is the sequence of its names, <<>> stands for None.              *)
(***************************************************************************)
EXTENDS NullValue, Naturals, FiniteSets, FiniteSetsExt, SequencesExt

CONSTANTS
    Attempts,
    Checkouts,      \* records: files (pairs of a path and a size) and which of them are
                    \* unreadable; npm, dev, pip, pyproject: the packages of a manifest
    MaxFiles,       \* max_files of _index_tree
    IGNORED_DIRS,
    LANG_EXT(_),    \* the language of a file's name, None if it has none
    HasWord(_, _), \* a name contains a word
    EntryPoints,    \* the five paths taken for entry points
    SecretNames

VARIABLES
    stage,          \* where an attempt stands
    checkout,       \* what it has cloned
    listed,         \* the files it has listed
    files,          \* repository_files: rows with the attempt that inserted them
    stats,          \* file_count, primary_language, languages and size of the repository
    architecture,   \* repository_architectures: one row, with its attempt, or None
    dependencies,   \* repository_dependencies, with their attempts
    reports,        \* security reports flagged is_latest, with their attempts
    metrics         \* repository_metrics: one row, with its attempt, or None

contentsVars == <<stage, checkout, listed, files, stats, architecture, dependencies,
                  reports, metrics>>

Stages == {"new", "index", "structure", "dependencies", "security", "metrics",
           "done", "raised"}

ContentsOK ==
    /\ stage \in [Attempts -> Stages]
    /\ \A a \in Attempts : stage[a] # "new" => checkout[a] \in Checkouts
    /\ \A a \in Attempts : listed[a] \subseteq UNION {c.files : c \in Checkouts}
    /\ \A f \in files : f.attempt \in Attempts /\ f.node \in {"file", "directory"}
    /\ stats.file_count <= MaxFiles
    /\ \A d \in dependencies : d.attempt \in Attempts /\ d.ecosystem \in {"npm", "pip"}
    /\ \A r \in reports : r.attempt \in Attempts /\ r.score \in 0..100
    /\ metrics # None => metrics.attempt \in Attempts

ContentsInit ==
    /\ stage = [a \in Attempts |-> "new"]
    /\ checkout = [a \in Attempts |-> None]
    /\ listed = [a \in Attempts |-> {}]
    /\ files = {}
    /\ stats = [file_count |-> 0, primary |-> None, languages |-> <<>>, size |-> 0]
    /\ architecture = None
    /\ dependencies = {}
    /\ reports = {}
    /\ metrics = None

-----------------------------------------------------------------------------
(* What is derived from a checkout.                                        *)

Path(file) == file[1]
Size(file) == file[2]
Name(path)   == path[Len(path)]
Parent(path) == SubSeq(path, 1, Len(path) - 1)

\* Every directory above a path.
Ancestors(path) == {SubSeq(path, 1, i) : i \in 1..(Len(path) - 1)}

\* _iter_repo_files: os.walk without the ignored directories.
IterRepoFiles(all) ==
    {f \in all : \A i \in 1..(Len(Path(f)) - 1) : Path(f)[i] \notin IGNORED_DIRS}

\* Faulty variant: the walk goes on after max_files.
ListingsUnbounded(c) == {IterRepoFiles(c.files) \ c.unreadable}

\* _index_tree: the first max_files of the walk, whose order is the file system's;
\* those of them that stat() refuses are left out, but they count.
Listings(c) ==
    LET walked == IterRepoFiles(c.files)
        first  == IF Cardinality(walked) <= MaxFiles THEN {walked}
                  ELSE kSubset(MaxFiles, walked) IN
    {some \ c.unreadable : some \in first}

Row(path, node) == [path |-> path, parent |-> Parent(path), node |-> node]

\* Faulty variant: only the directories that hold files get a row.
IndexTreeOneLevel(some) ==
    {Row(Path(f), "file") : f \in some}
    \cup {Row(Parent(Path(f)), "directory") : f \in {g \in some : Len(Path(g)) > 1}}

\* _index_tree: a row per file and one per directory above a file.
IndexTree(some) ==
    {Row(Path(f), "file") : f \in some}
    \cup {Row(d, "directory") : d \in UNION {Ancestors(Path(f)) : f \in some}}

LanguageOf(f) == LANG_EXT(Name(Path(f)))

BytesOf(some) == MapThenSumSet(Size, some)

\* _language_stats: bytes per language; files without one count nowhere. Of
\* languages with equally many bytes the walk's order picks the primary one.
LanguageStats(some) ==
    LET known == {f \in some : LanguageOf(f) # None}
        bytes == [l \in {LanguageOf(f) : f \in known} |->
                     BytesOf({f \in known : LanguageOf(f) = l})]
        most  == {l \in DOMAIN bytes : \A m \in DOMAIN bytes : bytes[m] <= bytes[l]} IN
    {[file_count |-> Cardinality(some), primary |-> p, languages |-> bytes,
      size |-> BytesOf(known)] : p \in IF known = {} THEN {None} ELSE most}

\* _parse_dependencies: package.json twice, requirements.txt, pyproject.toml,
\* one after the other. A package in two of them is listed twice. A manifest that
\* cannot be parsed is warned of, and what it has yielded up to there stays: the
\* checkouts' sequences are what a manifest yields.
ParseDependencies(c) ==
    LET in(ecosystem, names) == [i \in DOMAIN names |-> <<names[i], ecosystem>>] IN
    in("npm", c.npm) \o in("npm", c.dev) \o in("pip", c.pip) \o in("pip", c.pyproject)

\* _detect_architecture: from the directories' names, and the files that are
\* entry points by their paths.
DetectArchitecture(some) ==
    LET dirs     == UNION {Ancestors(Path(f)) : f \in some}
        has(word) == \E d \in dirs : \E i \in DOMAIN d : HasWord(d[i], word) IN
    [pattern |-> IF has("controllers") /\ has("services") THEN "Layered Architecture"
                 ELSE IF has("components") THEN "Component-Driven Frontend"
                 ELSE "Component Architecture",
     entry_points |-> {Path(f) : f \in some} \cap EntryPoints]

\* _security_scan: files whose names are those of secrets.
SecurityScan(some) == {Path(f) : f \in {g \in some : Name(Path(g)) \in SecretNames}}

Score(findings) ==
    IF 8 * Cardinality(findings) > 100 THEN 0 ELSE 100 - 8 * Cardinality(findings)

\* A checkout has finitely many files; paths and packages are made of names, and
\* None is no row.
ASSUME CheckoutsAssumption ==
    \A c \in Checkouts :
        /\ IsFiniteSet(c.files)
        /\ \A f \in c.files : f \in Seq(STRING) \X Nat /\ Path(f) # <<>>
        /\ c.npm \in Seq(STRING) /\ c.dev \in Seq(STRING)
        /\ c.pip \in Seq(STRING) /\ c.pyproject \in Seq(STRING)

ASSUME MaxFilesAssumption == MaxFiles \in Nat

ASSUME NoneAssumption ==
    \A a \in Attempts : \A some \in SUBSET UNION {c.files : c \in Checkouts} :
        /\ \A f \in IndexTree(some) :
              None # [attempt |-> a, path |-> f.path, parent |-> f.parent, node |-> f.node]
        /\ None # [attempt |-> a, content |-> DetectArchitecture(some)]
        /\ None # [attempt |-> a, files |-> Cardinality(some),
                   code_smells |-> Cardinality(SecurityScan(some))]

-----------------------------------------------------------------------------
(* The stages.                                                             *)

At(a, s) == stage[a] = s
Advance(a, to) == stage' = [stage EXCEPT ![a] = to]

\* The branch is cloned into a directory of the attempt and listed.
Clone(a) ==
    /\ At(a, "new") /\ Advance(a, "index")
    /\ \E c \in Checkouts : \E some \in Listings(c) :
          /\ checkout' = [checkout EXCEPT ![a] = c]
          /\ listed' = [listed EXCEPT ![a] = some]
    /\ UNCHANGED <<files, stats, architecture, dependencies, reports, metrics>>

\* indexing: branch_id is NULL in every row, so the unique key never matches.
WriteFiles(a) ==
    /\ At(a, "index") /\ Advance(a, "structure")
    /\ files' = files \cup {[attempt |-> a, path |-> f.path, parent |-> f.parent,
                             node |-> f.node] : f \in IndexTree(listed[a])}
    /\ stats' \in LanguageStats(listed[a])
    /\ UNCHANGED <<checkout, listed, architecture, dependencies, reports, metrics>>

\* Faulty variant: the row is replaced, as a refresh would do.
WriteArchitectureAgain(a) ==
    /\ At(a, "structure") /\ Advance(a, "dependencies")
    /\ architecture' = [attempt |-> a, content |-> DetectArchitecture(listed[a])]
    /\ UNCHANGED <<checkout, listed, files, stats, dependencies, reports, metrics>>

\* analyzing_structure: the row is unique per repository.
WriteArchitecture(a) ==
    /\ At(a, "structure")
    /\ IF architecture # None
       THEN Advance(a, "raised") /\ UNCHANGED architecture
       ELSE /\ Advance(a, "dependencies")
            /\ architecture' = [attempt |-> a, content |-> DetectArchitecture(listed[a])]
    /\ UNCHANGED <<checkout, listed, files, stats, dependencies, reports, metrics>>

\* analyzing_dependencies, in one transaction: the rows are unique per
\* repository, name and ecosystem, so a package listed twice, and one an
\* earlier attempt has inserted, make the stage raise.
WriteDependencies(a) ==
    LET found == ParseDependencies(checkout[a])
        taken == {<<d.name, d.ecosystem>> : d \in dependencies} IN
    /\ At(a, "dependencies")
    /\ IF ~IsInjective(found) \/ ToSet(found) \cap taken # {}
       THEN Advance(a, "raised") /\ UNCHANGED dependencies
       ELSE /\ Advance(a, "security")
            /\ dependencies' = dependencies \cup
                  {[attempt |-> a, name |-> d[1], ecosystem |-> d[2]] : d \in ToSet(found)}
    /\ UNCHANGED <<checkout, listed, files, stats, architecture, reports, metrics>>

\* analyzing_security: the report and its findings.
WriteReport(a) ==
    LET found == SecurityScan(listed[a]) IN
    /\ At(a, "security") /\ Advance(a, "metrics")
    /\ reports' = reports \cup {[attempt |-> a, findings |-> found, score |-> Score(found)]}
    /\ UNCHANGED <<checkout, listed, files, stats, architecture, dependencies, metrics>>

\* The metrics, unique per repository: code_smells counts the findings again.
WriteMetrics(a) ==
    /\ At(a, "metrics")
    /\ IF metrics # None
       THEN Advance(a, "raised") /\ UNCHANGED metrics
       ELSE /\ Advance(a, "done")
            /\ metrics' = [attempt |-> a, files |-> Cardinality(listed[a]),
                           code_smells |-> Cardinality(SecurityScan(listed[a]))]
    /\ UNCHANGED <<checkout, listed, files, stats, architecture, dependencies, reports>>

\* Any other exception, a lost process, a time limit.
Raise(a) ==
    /\ stage[a] \notin {"new", "done", "raised"}
    /\ stage' = [stage EXCEPT ![a] = "raised"]
    /\ UNCHANGED <<checkout, listed, files, stats, architecture, dependencies,
                   reports, metrics>>

ContentsNext ==
    \E a \in Attempts :
        \/ Clone(a) \/ WriteFiles(a) \/ WriteArchitecture(a) \/ WriteDependencies(a)
        \/ WriteReport(a) \/ WriteMetrics(a) \/ Raise(a)

ContentsSpec == ContentsInit /\ [][ContentsNext]_contentsVars

-----------------------------------------------------------------------------
(* The read endpoints.                                                     *)

\* get_tree sorts the rows by path, so a directory comes before what is below
\* it, and hangs each row below the last one seen under its parent's path:
\* any of those with that path. Without one, or when it is a file, the row
\* becomes a root (None).
GetTreeParents(row) ==
    LET above == {f \in files : f.path = row.parent} IN
    IF above = {} THEN {None}
    ELSE {IF f.node = "directory" THEN f ELSE None : f \in above}

\* get_metrics, get_security and get_dependencies, with what they answer as
\* long as there is nothing.
GetMetrics == IF metrics = None THEN [files |-> 0, code_smells |-> 0]
              ELSE [files |-> metrics.files, code_smells |-> metrics.code_smells]

GetSecurity ==
    IF reports = {} THEN {[score |-> 100, findings |-> {}]}
    ELSE {[score |-> r.score, findings |-> r.findings] : r \in reports}

GetDependencies == {[attempt |-> d.attempt, label |-> d.name] : d \in dependencies}

\* No path is a file in one checkout and a directory in another.
KindsAgree == \A f, g \in files : f.path = g.path => f.node = g.node

\* The tree is whole: as long as no path has changed from a file to a
\* directory between attempts, a row becomes a root of GET .../tree only if it
\* has no parent, however many attempts have indexed which checkouts, and
\* whichever of several rows of a directory comes last.
TreeIsWhole ==
    KindsAgree => \A f \in files : f.parent # <<>> => None \notin GetTreeParents(f)

\* What is shown together comes from one checkout: architecture, packages,
\* findings and metrics are those of a single attempt, the score and the two
\* counts of findings agree, and once there are metrics every package of that
\* checkout is shown exactly once.
OneSnapshot ==
    LET made == {d.attempt : d \in GetDependencies} \cup {r.attempt : r \in reports}
                \cup (IF metrics = None THEN {} ELSE {metrics.attempt}) IN
    /\ made # {} => architecture # None /\ made = {architecture.attempt}
    /\ \A shown \in GetSecurity : shown.score = Score(shown.findings)
    /\ metrics # None =>
          /\ \E shown \in GetSecurity :
                GetMetrics.code_smells = Cardinality(shown.findings)
          /\ LET found == ParseDependencies(checkout[architecture.attempt]) IN
             Cardinality(dependencies) = Len(found)
=============================================================================
