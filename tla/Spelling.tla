-------------------------------- MODULE Spelling --------------------------------
(***************************************************************************)
(* The spell checker that user turns go through before they are filed      *)
(* (internal/spellcheck/spellcheck.go): candidates one or two edits away,  *)
(* the most frequent of them, and a guard on its distance. Words are       *)
(* sequences of letters; tokens that ShouldSkip passes over, and capitals, *)
(* are words of Skipped.                                                   *)
(***************************************************************************)
EXTENDS Integers, Sequences, FiniteSets, FiniteSetsExt

CONSTANTS
    Alphabet,
    Tokens,         \* words there are in a text
    Skipped,        \* a subset of Tokens
    Frequency,      \* the dictionary: a function from words to frequencies
    LongLength      \* a word that is longer may be three edits away

ASSUME SpellingAssumption ==
    /\ Tokens \subseteq Seq(Alphabet) \ {<<>>} /\ Skipped \subseteq Tokens
    /\ <<>> \notin DOMAIN Frequency
    /\ \A w \in DOMAIN Frequency : Frequency[w] \in Nat \ {0}

VARIABLES
    token,
    passes,         \* how often it was checked, up to 2
    before          \* what it was before the last time
spellingVars == <<token, passes, before>>

SpellingTypeOK ==
    /\ token \in Seq(Alphabet) \ {<<>>} /\ before \in Seq(Alphabet) \ {<<>>} /\ passes \in 0..2

-----------------------------------------------------------------------------
(* EditDistance *)

\* Row by row: delete, insert, or substitute.
EditDistance(a, b) ==
    LET d[p \in (0..Len(a)) \X (0..Len(b))] ==
            LET i == p[1]
                j == p[2]
            IN  IF i = 0 THEN j ELSE IF j = 0 THEN i
                ELSE Min({d[<<i - 1, j>>] + 1, d[<<i, j - 1>>] + 1,
                          d[<<i - 1, j - 1>>] + (IF a[i] = b[j] THEN 0 ELSE 1)})
    IN  d[<<Len(a), Len(b)>>]

-----------------------------------------------------------------------------
(* edits1, correct *)

Without(w, i) == SubSeq(w, 1, i - 1) \o SubSeq(w, i + 1, Len(w))
Deletes(w) == {Without(w, i) : i \in DOMAIN w}
Transposes(w) ==
    {[w EXCEPT ![i] = w[i + 1], ![i + 1] = w[i]] : i \in 1..(Len(w) - 1)}
Replaces(w) == {[w EXCEPT ![i] = c] : i \in DOMAIN w, c \in Alphabet} \ {w}
Inserts(w) ==
    {SubSeq(w, 1, i) \o <<c>> \o SubSeq(w, i + 1, Len(w)) : i \in 0..Len(w), c \in Alphabet}

Edits1(w) == Deletes(w) \cup Transposes(w) \cup Replaces(w) \cup Inserts(w)
Edits2(w) == UNION {Edits1(v) : v \in Edits1(w)}

\* The most frequent word of the dictionary among the candidates for w, if any.
\* Of words that are equally frequent the one that is generated first is taken:
\* any of them, but for one w always the same.
Best(w, candidates) ==
    LET known == candidates \cap DOMAIN Frequency
        best == {v \in known : \A u \in known : Frequency[u] <= Frequency[v]}
    IN  {v \in best : <<w, v>> = CHOOSE pair \in {w} \X best : TRUE}

Known(w) == w \in DOMAIN Frequency

\* Mutant: a word of the dictionary is looked up like any other.
CorrectionsAnyway(w) ==
    IF Best(w, Edits1(w)) # {} THEN Best(w, Edits1(w)) ELSE {w}

Corrections(w) ==
    IF Known(w) THEN {w}
    ELSE IF Best(w, Edits1(w)) # {} THEN Best(w, Edits1(w))
    ELSE IF Best(w, Edits2(w)) # {} THEN Best(w, Edits2(w))
    ELSE {w}

-----------------------------------------------------------------------------
(* SpellcheckUserText *)

MaxEdits(w) == IF Len(w) > LongLength THEN 3 ELSE 2

\* Two transpositions are four edits, which the guard refuses: the word stays,
\* and a rarer candidate that is nearer is not looked for.
Accepted(w) ==
    {IF EditDistance(w, c) > MaxEdits(w) THEN w ELSE c : c \in Corrections(w)}

Spellcheck ==
    /\ passes < 2
    /\ token' \in IF token \in Skipped THEN {token} ELSE Accepted(token)
    /\ passes' = passes + 1 /\ before' = token

SpellingInit == token \in Tokens /\ passes = 0 /\ before = token

SpellingSpec == SpellingInit /\ [][Spellcheck]_spellingVars

-----------------------------------------------------------------------------
(* Properties. *)

\* The words that single insertions, deletions and substitutions make of w.
EditsAway(w, n) ==
    LET ball[k \in 0..n] ==
            IF k = 0 THEN {w}
            ELSE UNION {{v} \cup Deletes(v) \cup Replaces(v) \cup Inserts(v) : v \in ball[k - 1]}
    IN  ball[n]

\* What a word is replaced by is in the dictionary, and no more edits away from
\* it than its length allows: a user's word that has no such neighbour is filed
\* as it was written.
ReplacementsAreNear ==
    token # before => Known(token) /\ ~Known(before) /\ token \in EditsAway(before, MaxEdits(before))

\* A text that was checked comes out of a second check as it is: mining it
\* again files the same drawers.
CheckingTwiceIsOnce == passes = 2 => token = before

\* The distance is the fewest edits that make one word of the other, and it is
\* the same both ways.
DistanceIsFewestEdits ==
    passes = 0 => \A k \in 0..2 :
        LET near == EditsAway(token, k)
        IN  \A w \in Tokens : /\ EditDistance(token, w) = EditDistance(w, token)
                             /\ (w \in near) = (EditDistance(token, w) <= k)

\* What the checker makes of a word is near it and is left alone from then on
\* (spellcheck.go:58-244).
CorrectionsSettle ==
    SpellingTypeOK /\ ReplacementsAreNear /\ CheckingTwiceIsOnce /\ DistanceIsFewestEdits
=============================================================================
