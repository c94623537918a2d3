------------------------------- MODULE ScanRules -------------------------------
(***************************************************************************)
(* Which files of a project the miner reads: ScanProject's walk            *)
(* (internal/miner/scan.go) with the rules of the .gitignore files on the  *)
(* way (gitignore.go), next to what git does with the same rules. A path   *)
(* is a sequence of names, the project's root the empty one; a pattern is  *)
(* a sequence of names too, where "*" stands for any name and "**" for any *)
(* number of them.                                                         *)
(***************************************************************************)
EXTENDS Integers, Sequences, FiniteSets, FiniteSetsExt, SequencesExt

CONSTANTS
    Directories,    \* the directories of the project but the root
    Files,
    SkipDirs,       \* the names of skipDirs
    SkipFilenames,  \* the names of skipFilenames
    Unreadable,     \* the names that have no readable extension
    Unfit,          \* files that are too large or symbolic links
    RuleFiles,      \* .gitignore files: functions from directories to rules
    IncludeLists    \* sets of paths

Rule == [pattern : Seq(STRING) \ {<<>>}, anchored : BOOLEAN, dirOnly : BOOLEAN, negated : BOOLEAN]

ASSUME ScanAssumption ==
    /\ Directories \cup Files \subseteq Seq(STRING) \ {<<>>} /\ Directories \cap Files = {}
    /\ \A f \in Directories \cup Files : \A k \in 1..(Len(f) - 1) : SubSeq(f, 1, k) \in Directories
    /\ \A rules \in RuleFiles :
         /\ DOMAIN rules \subseteq Directories \cup {<<>>}
         /\ \A d \in DOMAIN rules : rules[d] \in Seq(Rule)

VARIABLES
    rules, include,     \* never change
    pending,            \* the entries the walk has yet to visit
    files               \* the files found
scanVars == <<rules, include, pending, files>>

ScanTypeOK ==
    /\ pending \subseteq Directories \cup Files /\ files \subseteq Files
    /\ files \cap pending = {}

Name(path) == path[Len(path)]
Parent(path) == Front(path)
IsPrefixOf(d, path) == Len(d) <= Len(path) /\ SubSeq(path, 1, Len(d)) = d

-----------------------------------------------------------------------------
(* gitignore.go *)

Fits(segment, name) == segment \in {"*", "**", name}

\* Mutant: a "**" stands for one name.
MatchFromRootShallow(target, pattern) ==
    /\ Len(target) >= Len(pattern)
    /\ \A k \in DOMAIN pattern : Fits(pattern[k], target[k])

\* The pattern fits the target or a directory it is in.
MatchFromRoot(target, pattern) ==
    LET rec[p \in (1..(Len(target) + 1)) \X (1..(Len(pattern) + 1))] ==
            LET ti == p[1]
                pi == p[2]
            IN  IF pi > Len(pattern) THEN TRUE
                ELSE IF ti > Len(target) THEN \A k \in pi..Len(pattern) : pattern[k] = "**"
                ELSE IF pattern[pi] = "**" THEN rec[<<ti, pi + 1>>] \/ rec[<<ti + 1, pi>>]
                ELSE Fits(pattern[pi], target[ti]) /\ rec[<<ti + 1, pi + 1>>]
    IN  rec[<<1, 1>>]

\* relative is the path below the directory of the .gitignore file.
RuleMatches(r, relative, isDir) ==
    LET target == IF r.dirOnly /\ ~isDir THEN Front(relative) ELSE relative
    IN  /\ target # <<>>
        /\ IF r.anchored \/ Len(r.pattern) > 1
           THEN MatchFromRoot(target, r.pattern)
           ELSE \E k \in DOMAIN target : Fits(r.pattern[1], target[k])

\* The .gitignore files above a path, and their rules, from the first to the
\* last: the last that matches decides.
Above(path) == {d \in DOMAIN rules : IsPrefixOf(d, Parent(path))}
Relative(path, d) == SubSeq(path, Len(d) + 1, Len(path))

IsGitignored(path, isDir) ==
    \E d \in Above(path) :
        LET matching(e) == {k \in DOMAIN rules[e] : RuleMatches(rules[e][k], Relative(path, e), isDir)}
        IN  /\ matching(d) # {} /\ ~rules[d][Max(matching(d))].negated
            /\ \A e \in Above(path) : matching(e) # {} => Len(e) <= Len(d)

-----------------------------------------------------------------------------
(* scan.go *)

\* Above, below or equal to an included path.
IsForceIncluded(path) == \E inc \in include : IsPrefixOf(inc, path) \/ IsPrefixOf(path, inc)

SkipsDir(d) ==
    ~IsForceIncluded(d) /\ (Name(d) \in SkipDirs \/ IsGitignored(d, TRUE))

SkipsFile(f) ==
    \/ ~IsForceIncluded(f) /\ (Name(f) \in SkipFilenames \/ IsGitignored(f, FALSE))
    \/ Name(f) \in Unreadable /\ f \notin include
    \/ f \in Unfit

\* The order of the walk, lexical, decides nothing: an entry is visited after
\* the directories it is in.
IsNext(path) == \A q \in pending : ~(IsPrefixOf(q, path) /\ q # path)

VisitDirectory ==
    \E d \in pending \cap Directories :
        /\ IsNext(d)
        /\ pending' = IF SkipsDir(d) THEN {q \in pending : ~IsPrefixOf(d, q)} ELSE pending \ {d}
        /\ UNCHANGED <<rules, include, files>>

VisitFiles ==
    /\ pending # {} /\ pending \subseteq Files
    /\ files' = {f \in pending : ~SkipsFile(f)} /\ pending' = {}
    /\ UNCHANGED <<rules, include>>

ScanInit ==
    /\ rules \in RuleFiles /\ include \in IncludeLists
    /\ pending = Directories \cup Files /\ files = {}

ScanNext == VisitDirectory \/ VisitFiles

ScanSpec == ScanInit /\ [][ScanNext]_scanVars

-----------------------------------------------------------------------------
(* What git does (gitignore(5)): a "**" is spelt out as so many names, a     *)
(* pattern fits a whole path and not a part of it, and a path is ignored     *)
(* when it, or a directory it is in, is excluded by the last rule that fits. *)

\* Segment k of the pattern stands for the names from reach[k] + 1 to
\* reach[k + 1]: a "**" for any number of them, at least one at the end.
Spelt(pattern, path) ==
    \E reach \in [1..(Len(pattern) + 1) -> 0..Len(path)] :
        /\ reach[1] = 0 /\ reach[Len(pattern) + 1] = Len(path)
        /\ \A k \in DOMAIN pattern :
             IF pattern[k] = "**"
             THEN reach[k] <= reach[k + 1] /\ (k = Len(pattern) => reach[k] < reach[k + 1])
             ELSE reach[k + 1] = reach[k] + 1 /\ Fits(pattern[k], path[reach[k + 1]])

GitFits(r, path, isDir) ==
    /\ r.dirOnly => isDir
    /\ IF r.anchored \/ Len(r.pattern) > 1
       THEN Spelt(r.pattern, path) ELSE Fits(r.pattern[1], Name(path))

GitExcludes(path, isDir) ==
    LET fitting(d) == {k \in DOMAIN rules[d] : GitFits(rules[d][k], Relative(path, d), isDir)}
    IN  \E d \in Above(path) : \E k \in fitting(d) :
            /\ ~rules[d][k].negated
            /\ \A l \in fitting(d) : l <= k
            /\ \A e \in Above(path) : Len(d) < Len(e) => fitting(e) = {}

GitIgnores(f) ==
    GitExcludes(f, FALSE) \/ \E k \in 1..(Len(f) - 1) : GitExcludes(SubSeq(f, 1, k), TRUE)

-----------------------------------------------------------------------------
(* Properties. *)

Readable(f) ==
    /\ Name(f) \notin Unreadable \cup SkipFilenames /\ f \notin Unfit
    /\ \A k \in 1..(Len(f) - 1) : f[k] \notin SkipDirs

\* What is mined is what git does not ignore, of the files it can read. A rule
\* that ends in "**" fits the directory's own name too, and is left out here,
\* and so is a rule with "!": the last rule that fits any part of the path decides
\* in the code, and "b/**" with "!b/x" loses b/x.
PlainRulesAreGits ==
    (/\ pending = {} /\ include = {}
     /\ \A d \in DOMAIN rules : \A k \in DOMAIN rules[d] :
          LET p == rules[d][k].pattern
          IN  ~rules[d][k].negated /\ (p = <<"**">> \/ p[Len(p)] # "**")) =>
        files = {f \in Files : Readable(f) /\ ~GitIgnores(f)}

\* An included path is never filtered, whatever the rules, its directories and
\* its name ("must never be filtered, even if a .gitignore or skip-dir rule
\* would reject them", scan.go:53), but for its size or a symbolic link.
IncludedAreScanned == pending = {} => (include \cap Files) \ Unfit \subseteq files

\* The files that are mined are git's and those that were asked for
\* (scan.go:58-224, gitignore.go:86-189).
RightFilesAreScanned == ScanTypeOK /\ PlainRulesAreGits /\ IncludedAreScanned
=============================================================================
