------------------------------ MODULE Transcripts ------------------------------
(***************************************************************************)
(* What becomes of an exported conversation. The parsers of                *)
(* internal/normalize make messages of it, messagesToTranscript makes one  *)
(* text of them, and convominer.ChunkExchanges cuts that text, with        *)
(* nothing but a ">" at the start of a line to tell who spoke. A line is   *)
(* its kind, the message it is of and its place in it; all lines that are  *)
(* not blank count as equally long.                                        *)
(***************************************************************************)
EXTENDS Integers, Sequences, FiniteSets, FiniteSetsExt

CONSTANTS
    FlatExports,    \* sequences of entries [role, text], of Claude and Codex
    SlackExports,   \* sequences of the users whose messages they are
    ChatGPTExports, \* functions from nodes to [root, role, child]: "bare" without
                    \* a message, "other" with one nobody wrote
    NoNode,         \* not in any mapping
    MaxAILines, MinChunkLines, ManyLines, GroupLines

Text == Seq({"text", "quote", "rule", "blank"})
Message == [role : {"user", "assistant"}, text : Text \ {<<>>}]
Entry == [role : {"user", "assistant", "other"}, text : Text]

ASSUME TranscriptAssumption ==
    /\ FlatExports \subseteq Seq(Entry)
    /\ \A users \in SlackExports : users \in Seq({users[i] : i \in DOMAIN users})
    /\ \A mapping \in ChatGPTExports :
         \A n \in DOMAIN mapping : mapping[n].role \in {"bare", "other", "user", "assistant"}
    /\ MaxAILines \in Nat /\ MinChunkLines \in Nat /\ ManyLines \in Nat /\ GroupLines \in Nat \ {0}

VARIABLES
    form, export,   \* what is read; never change
    at,             \* how far: a position, or the node of ChatGPT to take next
    taken,          \* what was read, each with the messages there were then
    roles,          \* Slack: the role each user was given
    talk,           \* the messages
    written, lines, \* how many of them are in the transcript, and its lines
    cut, chunk,     \* how many of these are cut, and the chunk being made
    filed           \* the chunks, sequences of lines
transcriptVars == <<form, export, at, taken, roles, talk, written, lines, cut, chunk, filed>>
writingVars == <<written, lines>>
cuttingVars == <<cut, chunk, filed>>
readingVars == <<form, export, at, taken, roles, talk>>

Line == [kind : {"text", "quote", "rule", "blank"}, of : Nat, place : Nat]

TranscriptTypeOK ==
    /\ talk \in Seq(Message) /\ lines \in Seq(Line)
    /\ chunk \in Seq(Line) /\ filed \in Seq(Seq(Line))
    /\ written \in 0..Len(talk) /\ cut \in 0..Len(lines)
    /\ \A u \in DOMAIN roles : roles[u] \in {"user", "assistant"}
    /\ \A i \in DOMAIN lines : lines[i].of \in 0..Len(talk)
    /\ \A n \in DOMAIN taken : n \in DOMAIN export /\ taken[n] \in 0..Len(talk)

-----------------------------------------------------------------------------
(* The parsers. *)

\* The first user of a channel is the user; a later one is the assistant when
\* it speaks up after a user.
SlackRole(u) ==
    IF u \in DOMAIN roles THEN roles[u]
    ELSE IF DOMAIN roles # {} /\ talk[Len(talk)].role = "user" THEN "assistant" ELSE "user"

\* Whose the entry is and what it says; a message is a text of one of the two.
RoleOf(n) == IF form = "slack" THEN SlackRole(export[n]) ELSE export[n].role
TextOf(n) == IF form = "flat" THEN export[n].text ELSE <<"text">>
IsMessage(n) == RoleOf(n) \in {"user", "assistant"} /\ TextOf(n) # <<>>

\* An entry that is no message is passed over.
TakeEntry ==
    /\ talk' = IF IsMessage(at) THEN Append(talk, [role |-> RoleOf(at), text |-> TextOf(at)])
               ELSE talk
    /\ taken' = [n \in DOMAIN taken \cup {at} |-> IF n = at THEN Len(talk') ELSE taken[n]]

\* Claude Code, Codex, Claude.ai: the entries as they come. Those of a privacy
\* export's conversations come one behind the other.
ReadFlat ==
    /\ form = "flat" /\ at <= Len(export)
    /\ TakeEntry /\ at' = at + 1
    /\ UNCHANGED <<form, export, roles, writingVars, cuttingVars>>

ReadSlack ==
    /\ form = "slack" /\ at <= Len(export)
    /\ roles' = [v \in DOMAIN roles \cup {export[at]} |-> SlackRole(v)]
    /\ TakeEntry /\ at' = at + 1
    /\ UNCHANGED <<form, export, writingVars, cuttingVars>>

\* The nodes the walk may start at, a map's order decides which: without a
\* parent and, if there is any such, without a message.
Roots(mapping) ==
    LET orphans == {n \in DOMAIN mapping : mapping[n].root}
        bare == {n \in orphans : mapping[n].role = "bare"}
    IN  IF bare # {} THEN bare ELSE orphans

\* Mutant: the nodes visited are not looked at.
WalkOnRevisits == at \in DOMAIN export

WalkOn == at \in DOMAIN export \ DOMAIN taken

FollowFirstChild ==
    /\ form = "chatgpt" /\ WalkOn
    /\ TakeEntry /\ at' = export[at].child
    /\ UNCHANGED <<form, export, roles, writingVars, cuttingVars>>

IsRead == CASE form = "chatgpt" -> ~WalkOn [] OTHER -> at > Len(export)

-----------------------------------------------------------------------------
(* messagesToTranscript *)

LinesOf(i) ==
    [j \in DOMAIN talk[i].text |->
        [kind |-> IF talk[i].role = "user" /\ j = 1 THEN "quote" ELSE talk[i].text[j],
         of |-> i, place |-> j]]

BlankLine == [kind |-> "blank", of |-> 0, place |-> 0]

\* An answer follows its question with no blank line between.
IsAnswered(i) ==
    talk[i].role = "user" /\ i < Len(talk) /\ talk[i + 1].role = "assistant"

\* Mutant: no blank line after an answer.
EndOfDense(i) ==
    IF talk[i].role = "assistant" \/ IsAnswered(i) THEN <<>> ELSE <<BlankLine>>

\* The blank lines are taken for the end of message 0.
EndOf(i) == IF IsAnswered(i) THEN <<>> ELSE <<BlankLine>>

\* An export of fewer messages is not of its form and filed as it is.
MessagesToTranscript ==
    /\ IsRead /\ Len(talk) >= 2 /\ written < Len(talk)
    /\ written' = written + 1
    /\ lines' = lines \o LinesOf(written + 1) \o EndOf(written + 1)
    /\ UNCHANGED <<readingVars, cuttingVars>>

IsWritten == written > 0 /\ written = Len(talk)

-----------------------------------------------------------------------------
(* ChunkExchanges *)

Where(kinds) == {i \in DOMAIN lines : lines[i].kind \in kinds}

\* The lines that a paragraph begins with.
Paragraphs == {i \in DOMAIN lines \ Where({"blank"}) : i - 1 \notin DOMAIN lines \ Where({"blank"})}

\* Three ">" make a conversation; a long text of one paragraph is cut into groups.
IsConversation == Cardinality(Where({"quote"})) >= 3
IsLong == Cardinality(Paragraphs) <= 1 /\ Len(lines) - 1 > ManyLines

\* The chunk being made ends before this line.
EndsBefore(i) ==
    \/ IsConversation /\ lines[i].kind \in {"quote", "rule"}
    \/ ~IsConversation /\ IsLong /\ (i - 1) % GroupLines = 0
    \/ ~IsConversation /\ ~IsLong /\ lines[i].kind = "blank"

\* Of an answer so many lines are taken, and none of what follows no question.
Takes(c, i) ==
    /\ lines[i].kind # "blank"
    /\ IsConversation => lines[i].kind = "quote" \/ (c # <<>> /\ Len(c) <= MaxAILines)

FileChunk(c) == filed' = IF Len(c) > MinChunkLines THEN Append(filed, c) ELSE filed

CutLine ==
    /\ IsWritten /\ cut < Len(lines)
    /\ cut' = cut + 1
    /\ LET i == cut + 1
           c == IF EndsBefore(i) THEN <<>> ELSE chunk
       IN  chunk' = IF Takes(c, i) THEN Append(c, lines[i]) ELSE c
    /\ IF EndsBefore(cut + 1) THEN FileChunk(chunk) ELSE UNCHANGED filed
    /\ UNCHANGED <<readingVars, writingVars>>

CutLast ==
    /\ IsWritten /\ cut = Len(lines) /\ chunk # <<>>
    /\ FileChunk(chunk) /\ chunk' = <<>>
    /\ UNCHANGED <<readingVars, writingVars, cut>>

TranscriptInit ==
    /\ \/ form = "flat" /\ export \in FlatExports /\ at = 1
       \/ form = "slack" /\ export \in SlackExports /\ at = 1
       \/ form = "chatgpt" /\ export \in ChatGPTExports /\ at \in Roots(export)
    /\ taken = <<>> /\ roles = <<>> /\ talk = <<>>
    /\ written = 0 /\ lines = <<>> /\ cut = 0 /\ chunk = <<>> /\ filed = <<>>

TranscriptNext ==
    \/ ReadFlat \/ ReadSlack \/ FollowFirstChild
    \/ MessagesToTranscript \/ CutLine \/ CutLast

TranscriptFairness == WF_transcriptVars(TranscriptNext)
TranscriptSpec == TranscriptInit /\ [][TranscriptNext]_transcriptVars /\ TranscriptFairness

-----------------------------------------------------------------------------
(* Properties. *)

\* The question message i belongs to: itself, or the last one before it.
QuestionOf(i) == {j \in 1..i : talk[j].role = "user"}

\* No chunk mixes two exchanges, however a message is laid out and whichever
\* way the text is cut: the messages its lines are of have the same last
\* question ("one > turn + AI response = one unit", convominer.go:142). The
\* groups of lines are made of one exchange.
ChunksKeepToTheirExchange ==
    \A n \in DOMAIN filed : \A a, b \in DOMAIN filed[n] :
        QuestionOf(filed[n][a].of) = QuestionOf(filed[n][b].of)

IsCut == IsWritten /\ cut = Len(lines) /\ chunk = <<>>

Spoken == UNION {{<<i, j>> : j \in DOMAIN talk[i].text} : i \in DOMAIN talk}

\* What is said in answer to a question.
Said(q) ==
    {p \in Spoken :
        QuestionOf(p[1]) = QuestionOf(q) /\ p # <<q, 1>> /\ talk[p[1]].text[p[2]] # "blank"}

\* When no message has a line that looks like a question or a rule, the chunks
\* of three or more questions are these, each with the first MaxAILines of what
\* was said up to the next one: none is skipped and none is out of order.
EveryExchangeIsFiled ==
    LET questions == {i \in DOMAIN talk : talk[i].role = "user"}
    IN  (/\ IsCut /\ Cardinality(questions) >= 3
         /\ \A p \in Spoken : talk[p[1]].text[p[2]] \in {"text", "blank"}) =>
        /\ \A m, n \in DOMAIN filed : m < n => filed[m][1].of < filed[n][1].of
        /\ \A q \in questions :
             LET size == 1 + Min({Cardinality(Said(q)), MaxAILines})
             IN  size > MinChunkLines =>
                   \E n \in DOMAIN filed :
                     /\ Len(filed[n]) = size /\ filed[n][1].of = q /\ filed[n][1].place = 1
                     /\ \A k \in 2..size : <<filed[n][k].of, filed[n][k].place>> \in Said(q)

\* In a channel of two users one is the user and one the assistant, whatever
\* the order they speak in.
TwoAreToldApart ==
    form = "slack" /\ Cardinality(DOMAIN roles) = 2 =>
        Cardinality({roles[u] : u \in DOMAIN roles}) = 2

\* What is read after this entry.
NextOf(n) == IF form = "chatgpt" THEN export[n].child ELSE n + 1

\* Where the reading begins: at a root without a message if the mapping has one.
Beginnings ==
    IF form # "chatgpt" THEN {1}
    ELSE LET roots == {n \in DOMAIN export : export[n].root}
         IN  {n \in roots : export[n].role = "bare" \/ \A m \in roots : export[m].role # "bare"}

\* The messages are those of the export, from its beginning to its end or, of a
\* mapping, down the first children from the root: every one is there once, with
\* its role and its text, and next to it comes that of the entry behind it, unless
\* a link leads back.
TalkIsTheExport ==
    /\ \A i \in DOMAIN talk : \E n \in DOMAIN taken : IsMessage(n) /\ taken[n] = i
    /\ \A n \in DOMAIN taken : IsMessage(n) =>
         /\ taken[n] > 0 /\ talk[taken[n]] = [role |-> RoleOf(n), text |-> TextOf(n)]
         /\ \A m \in DOMAIN taken : IsMessage(m) /\ taken[m] = taken[n] => m = n
    /\ \A n \in DOMAIN taken : NextOf(n) \in DOMAIN taken =>
         \/ taken[NextOf(n)] = taken[n] + (IF IsMessage(NextOf(n)) THEN 1 ELSE 0)
         \/ form = "chatgpt" /\ taken[NextOf(n)] <= taken[n]
    /\ IsRead /\ DOMAIN export # {} =>
         /\ Beginnings \cap DOMAIN taken # {}
         /\ \A n \in DOMAIN taken : NextOf(n) \in DOMAIN export => NextOf(n) \in DOMAIN taken

\* Every export is read to its end, one whose mapping has a cycle too
\* ("with cycle prevention", normalize.go:300).
ReadingEnds == <>IsRead

\* From the export to the chunks a conversation keeps its speakers, its exchanges
\* and their order (normalize.go:104-456, convominer.go:141-235).
ConversationIsKept ==
    /\ TranscriptTypeOK
    /\ ChunksKeepToTheirExchange /\ EveryExchangeIsFiled
    /\ TwoAreToldApart /\ TalkIsTheExport
=============================================================================
