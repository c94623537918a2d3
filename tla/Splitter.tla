------------------------------- MODULE Splitter -------------------------------
(***************************************************************************)
(* internal/splitter: a directory in which transcripts of many sessions    *)
(* (mega files) are cut into a file per session and then renamed to        *)
(* .mega_backup. A transcript is the sequence of the texts between its     *)
(* session boundaries, of which the first may come before any boundary.    *)
(***************************************************************************)
EXTENDS Integers, Sequences, SequencesExt

CONSTANTS
    Stems,          \* names of transcripts without .txt
    Texts,
    Preambles,      \* texts that start with no boundary, so first in a transcript
    Short,          \* texts of fewer than ten lines
    NameOf,         \* of each text: timestamp, people and subject in its name
    SafeStem,       \* of each stem: its first forty characters
    Transcripts,    \* the sequences of texts that may be exported
    MinSessions,
    NoFile

ASSUME SplitterAssumption ==
    /\ MinSessions \in Nat \ {0, 1} /\ Preambles \union Short \subseteq Texts
    /\ DOMAIN NameOf = Texts /\ DOMAIN SafeStem = Stems
    /\ Transcripts \subseteq Seq(Texts) /\ NoFile \notin Texts \union Transcripts \union Stems
    /\ \A s \in Transcripts : \A i \in 2..Len(s) : s[i] \notin Preambles

VARIABLES
    txt,            \* <stem>.txt
    piece,          \* the files written, by safe stem and name of a text
    backup,         \* <stem>.mega_backup
    job,            \* of the running Split: candidates left, the one at hand,
                    \* its texts left, FilesWritten
    exported,       \* history: texts there have been
    again           \* history: stems that were exported twice
splitterVars == <<txt, piece, backup, job, exported, again>>

PieceNames == {SafeStem[f] : f \in Stems} \X {NameOf[t] : t \in Texts}
Idle == [todo |-> {}, at |-> NoFile, left |-> <<>>, written |-> 0]

SplitterTypeOK ==
    /\ txt \in [Stems -> Transcripts \union {NoFile}]
    /\ backup \in [Stems -> Transcripts \union {NoFile}]
    /\ piece \in [PieceNames -> Texts \union {NoFile}]
    /\ job.todo \subseteq Stems /\ job.at \in Stems \union {NoFile}
    /\ job.left \in Seq(Texts) /\ job.written \in Nat
    /\ exported \subseteq Texts /\ again \subseteq Stems

SplitterInit ==
    /\ txt = [f \in Stems |-> NoFile] /\ backup = [f \in Stems |-> NoFile]
    /\ piece = [n \in PieceNames |-> NoFile]
    /\ job = Idle /\ exported = {} /\ again = {}

-----------------------------------------------------------------------------
\* FindSessionBoundaries: what splitFile cuts out, a preamble being left out.
SessionsOf(s) == IF s # <<>> /\ Head(s) \in Preambles THEN Tail(s) ELSE s

\* Somebody exports sessions nobody exported before to a free name.
Export(f, s) ==
    /\ txt[f] = NoFile /\ ToSet(s) \intersect exported = {}
    /\ txt' = [txt EXCEPT ![f] = s]
    /\ exported' = exported \union ToSet(s)
    /\ again' = IF backup[f] = NoFile THEN again ELSE again \union {f}
    /\ UNCHANGED <<piece, backup, job>>

\* Split, the scan: files that cannot be read or are too big are passed over.
ScanMegaFiles ==
    /\ job = Idle
    /\ \E readable \in SUBSET Stems :
         job' = [Idle EXCEPT !.todo =
             {f \in readable : txt[f] # NoFile /\ Len(SessionsOf(txt[f])) >= MinSessions}]
    /\ UNCHANGED <<txt, piece, backup, exported, again>>

\* splitFile, the read: in the order of the names, here in any.
OpenMegaFile(f) ==
    /\ job.at = NoFile /\ f \in job.todo
    /\ job' = [todo |-> job.todo \ {f}, at |-> f, left |-> SessionsOf(txt[f]), written |-> 0]
    /\ UNCHANGED <<txt, piece, backup, exported, again>>

\* A session of fewer than ten lines is passed over, one of the same name lost.
WritePiece ==
    /\ job.at # NoFile /\ job.left # <<>>
    /\ LET t == Head(job.left)
       IN  IF t \in Short
           THEN UNCHANGED piece /\ job' = [job EXCEPT !.left = Tail(@)]
           ELSE /\ piece' = [piece EXCEPT ![<<SafeStem[job.at], NameOf[t]>>] = t]
                /\ job' = [job EXCEPT !.left = Tail(@), !.written = @ + 1]
    /\ UNCHANGED <<txt, backup, exported, again>>

\* Mutant: no backup is kept.
RemoveMegaFile ==
    /\ job.at # NoFile /\ job.left = <<>>
    /\ txt' = [txt EXCEPT ![job.at] = NoFile]
    /\ job' = [job EXCEPT !.at = NoFile, !.left = <<>>, !.written = 0]
    /\ UNCHANGED <<piece, backup, exported, again>>

\* The rename replaces an older backup. Its error is ignored.
RenameMegaFile ==
    /\ job.at # NoFile /\ job.left = <<>>
    /\ \/ /\ job.written > 0
          /\ backup' = [backup EXCEPT ![job.at] = txt[job.at]]
          /\ txt' = [txt EXCEPT ![job.at] = NoFile]
       \/ UNCHANGED <<txt, backup>>
    /\ job' = [job EXCEPT !.at = NoFile, !.left = <<>>, !.written = 0]
    /\ UNCHANGED <<piece, exported, again>>

\* A crash, or a write that fails: the error ends Split.
SplitBreaks ==
    /\ job # Idle
    /\ job' = Idle
    /\ UNCHANGED <<txt, piece, backup, exported, again>>

SplitterNext ==
    \/ \E f \in Stems, s \in Transcripts : Export(f, s)
    \/ ScanMegaFiles \/ \E f \in Stems : OpenMegaFile(f)
    \/ WritePiece \/ RenameMegaFile \/ SplitBreaks

SplitterSpec == SplitterInit /\ [][SplitterNext]_splitterVars

-----------------------------------------------------------------------------
(* Properties. *)

\* A text is on disk in one form or another.
Kept(t) ==
    \/ \E f \in Stems : \/ txt[f] # NoFile /\ t \in ToSet(txt[f])
                        \/ backup[f] # NoFile /\ t \in ToSet(backup[f])
    \/ \E n \in PieceNames : piece[n] = t

\* No text is lost, crashes and sessions of the same name notwithstanding,
\* unless a second transcript of a name was exported: its backup takes the
\* place of the first's.
NoTextLost == again = {} => \A t \in exported : Kept(t)

\* What a backup holds has been cut out: whatever crashes there were, each of
\* its sessions that is long enough is in a file of its own, or another session
\* is under its name.
BackupIsCut ==
    \A f \in Stems : backup[f] # NoFile =>
        \A t \in ToSet(SessionsOf(backup[f])) \ Short :
            piece[SafeStem[f], NameOf[t]] # NoFile

\* A transcript is never gone before its sessions are in files of their own, and
\* then it is a backup (splitter.go:134-193).
SessionsAreKept == SplitterTypeOK /\ NoTextLost /\ BackupIsCut
=============================================================================
