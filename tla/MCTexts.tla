-------------------------------- MODULE MCTexts --------------------------------
(***************************************************************************)
(* What is done with texts, files and rooms on their way in and out of a   *)
(* palace. The parts share nothing: a behaviour is one of one of them,     *)
(* picked at the start, while the others have an empty input, so that      *)
(* their state spaces add up.                                              *)
(***************************************************************************)
EXTENDS Chunking, Transcripts, ScanRules, PalaceGraph, EntityDetection,
        Compressing, Layers, Spelling, TLC

CONSTANTS n1, n2, n3, u1, u2, u3, r1, r2, r3, r4

(* Texts that begin and end with a letter. *)
ChunkedTextsValue ==
    UNION {{s \in [1..n -> Characters] : n = 0 \/ (s[1] = "a" /\ s[n] = "a")} : n \in 0..9}

(* Messages of one to three lines, with a blank, a rule or a ">" in them. *)
Asked == [role : {"user"}, text : {<<"text">>, <<"text", "text">>}]
Answered ==
    [role : {"assistant"},
     text : {<<"text">>, <<"text", "blank", "text">>, <<"text", "rule", "text">>,
             <<"quote">>, <<"text", "text", "text">>}]
Plain == Asked \cup {m \in Answered : m.text \in {<<"text">>, <<"text", "rule", "text">>}}
NoMessages == {[role |-> "other", text |-> <<"text">>], [role |-> "assistant", text |-> <<>>]}
FlatExportsValue ==
    UNION {[1..n -> Asked \cup Answered] : n \in 1..4} \cup [1..5 -> Plain] \cup
    [1..4 -> NoMessages \cup {m \in Plain : Len(m.text) < 3}]
SlackExportsValue == UNION {[1..n -> {u1, u2, u3}] : n \in 1..4}
ChatGPTExportsValue ==
    [{n1, n2, n3} -> [root : BOOLEAN, role : {"bare", "other", "user", "assistant"},
                      child : {n1, n2, n3, NoNode}]]

(* One rule in the root and one in a directory, or two in the root. *)
DirectoriesValue == {<<"a">>, <<"a", "b">>, <<"s">>}
FilesValue ==
    {<<"x">>, <<"y">>, <<"b">>, <<"m">>, <<"a", "x">>, <<"a", "b", "x">>, <<"a", "b", "y">>, <<"s", "x">>}
UnfitValue == {<<"a", "b", "y">>}
Patterns ==
    {<<"a">>, <<"b">>, <<"x">>, <<"*">>, <<"**">>, <<"a", "x">>, <<"a", "b">>, <<"a", "*">>,
     <<"b", "x">>, <<"**", "x">>, <<"**", "b">>, <<"a", "**">>, <<"a", "**", "x">>,
     <<"*", "x">>, <<"**", "b", "x">>}
AllRules == [pattern : Patterns, anchored : BOOLEAN, dirOnly : BOOLEAN, negated : BOOLEAN]
FewRules == {r \in AllRules : r.pattern \in {<<"b">>, <<"x">>, <<"**", "b">>} /\ ~r.anchored}
RuleFilesValue ==
    {<<>> :> <<>>} \cup
    {(<<>> :> <<q>>) @@ (<<"a">> :> <<r>>) : q \in AllRules, r \in FewRules} \cup
    {<<>> :> <<r, q>> : r \in FewRules, q \in AllRules}
IncludeListsValue == {{}, {<<"a", "b", "x">>}, {<<"s", "x">>, <<"m">>}, {<<"a">>, <<"y">>}}

(* Rooms r3 and r4 are alike. *)
WingMapsValue ==
    {f \in [Rooms -> SUBSET Wings] : f[General] \in {{}, Wings} /\ (f[r4] = {} => f[r3] = {})}

Vocabulary == {"Anna", "Acme", "The", "River", "Docker", "url", "uses", "."}
DocumentsValue ==
    UNION {[1..n -> Vocabulary] : n \in 1..4} \cup
    {d \in [1..5 -> {"Anna", "Acme", "Docker", ".", "uses"}] : d[4] = "uses" /\ d[2] # "uses"}
PassesValue == <<<<"url", {"url"}>>, <<"tool", {"Docker", "url"}>>>>
ScoringsValue ==
    [single : {[w \in Vocabulary |-> IF w = "Anna" THEN a ELSE "uncertain"] : a \in {"none", "person"}},
     multi : {"none", "project"}]

(* Drawers in even slots, and newcomers between and behind them. *)
At(n, s) == [i \in 1..n |-> [slot |-> 2 * i, weight |-> s[i].weight, room |-> s[i].room, size |-> s[i].size]]
PalacesValue ==
    UNION {{Range(At(n, s)) : s \in [1..n -> [weight : {1, 3}, room : {1, 2}, size : {1, 2}]]} : n \in 0..3} \cup
    {Range(At(4, s)) : s \in [1..4 -> [weight : {1, 3}, room : {1, 2}, size : {2}]]}
NewcomersValue ==
    {[slot |-> 1, weight |-> 3, room |-> 1, size |-> 1], [slot |-> 5, weight |-> 1, room |-> 2, size |-> 2]}

TokensValue == UNION {[1..n -> {"a", "b"}] : n \in 1..4} \cup {<<"a", "b", "c", "d">>, <<"a", "a", "a", "a", "a">>}
SkippedValue == [1..1 -> {"a", "b"}]
FrequencyValue ==
    (<<"b", "b">> :> 5) @@ (<<"b", "b", "a", "a">> :> 4) @@ (<<"b", "a", "d", "c">> :> 3) @@ (<<"b", "b", "a">> :> 4)

VARIABLE part
textsVars ==
    <<chunkVars, transcriptVars, scanVars, graphVars, detectionVars, compressVars, layersVars,
      spellingVars, part>>

Init(p, init, idle) == IF part = p THEN init ELSE idle

TextsInit ==
    /\ part \in {"chunk", "transcript", "scan", "graph", "detection", "compress", "layers", "spelling"}
    /\ Init("chunk", ChunkInit, content = <<>> /\ start = 0 /\ end = 0 /\ pieces = <<>>)
    /\ Init("transcript", TranscriptInit,
            /\ form = "flat" /\ export = <<>> /\ at = 1 /\ taken = <<>> /\ roles = <<>>
            /\ talk = <<>> /\ written = 0 /\ lines = <<>> /\ cut = 0 /\ chunk = <<>> /\ filed = <<>>)
    /\ Init("scan", ScanInit, rules = <<>> :> <<>> /\ include = {} /\ pending = Files /\ files = {})
    /\ Init("graph", GraphInit,
            /\ wingsOf = [r \in Rooms |-> {}] /\ maxHops = 0 /\ hop = <<>> /\ queue = <<>> /\ shown = <<>>)
    /\ Init("detection", DetectionInit,
            /\ document = <<>> /\ score \in {s \in ScoringsValue : s.multi = "none" /\ s.single["Anna"] = "none"}
            /\ pass = 1 /\ entities = {} /\ verb = 0 /\ triples = {})
    /\ Init("compress", CompressingInit,
            /\ palace = <<>> /\ offset = 0 /\ page = <<>> /\ stage = "ended" /\ failed = FALSE
            /\ kept = {} /\ arrived = 0 /\ left = 0)
    /\ Init("layers", LayersInit,
            /\ stored = {} /\ stayed = {} /\ came = 0 /\ went = 0 /\ reading = "done" /\ held = <<>>
            /\ top = {} /\ due = <<>> /\ story = <<>> /\ used = 0 /\ long = 0 /\ told = "no")
    /\ Init("spelling", SpellingInit, token = <<"a">> /\ passes = 2 /\ before = <<"a">>)

TextsNext ==
    /\ UNCHANGED part
    /\ \/ part = "chunk" /\ CutChunk
          /\ UNCHANGED <<transcriptVars, scanVars, graphVars, detectionVars, compressVars, layersVars, spellingVars>>
       \/ part = "transcript" /\ TranscriptNext
          /\ UNCHANGED <<chunkVars, scanVars, graphVars, detectionVars, compressVars, layersVars, spellingVars>>
       \/ part = "scan" /\ ScanNext
          /\ UNCHANGED <<chunkVars, transcriptVars, graphVars, detectionVars, compressVars, layersVars, spellingVars>>
       \/ part = "graph" /\ GraphNext
          /\ UNCHANGED <<chunkVars, transcriptVars, scanVars, detectionVars, compressVars, layersVars, spellingVars>>
       \/ part = "detection" /\ DetectionNext
          /\ UNCHANGED <<chunkVars, transcriptVars, scanVars, graphVars, compressVars, layersVars, spellingVars>>
       \/ part = "compress" /\ CompressingNext
          /\ UNCHANGED <<chunkVars, transcriptVars, scanVars, graphVars, detectionVars, layersVars, spellingVars>>
       \/ part = "layers" /\ LayersNext
          /\ UNCHANGED <<chunkVars, transcriptVars, scanVars, graphVars, detectionVars, compressVars, spellingVars>>
       \/ part = "spelling" /\ Spellcheck
          /\ UNCHANGED <<chunkVars, transcriptVars, scanVars, graphVars, detectionVars, compressVars, layersVars>>

\* The fairness of a part is asked of its own behaviours only.
TextsSpec ==
    /\ TextsInit /\ [][TextsNext]_textsVars
    /\ part = "chunk" => ChunkFairness
    /\ part = "transcript" => TranscriptFairness
    /\ part = "compress" => CompressingFairness

\* The loops over a text, an export and a palace come to their end: a window that
\* steps back by its overlap, a walk along links that may be a cycle, an offset into
\* pages others change (chunker.go:38, normalize.go:304, main.go:744).
LoopsEnd == ChunkingEnds /\ ReadingEnds /\ CompressingEnds
=============================================================================
