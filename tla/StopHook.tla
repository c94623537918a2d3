------------------------------- MODULE StopHook -------------------------------
(***************************************************************************)
(* The stop hook (internal/hooks/hooks.go), a process per stop of a        *)
(* harness session: it counts the human messages of the transcript as far  *)
(* as it can read it, reads the count at the last save from a file named   *)
(* for the session, and once SaveInterval more are there writes the new    *)
(* count and blocks the stop with an order to save. The harness may kill   *)
(* it at any point, a write may fail and the transcript may shrink.        *)
(* Sessions whose names reduce to the same identifier share the file.      *)
(***************************************************************************)
EXTENDS Integers

CONSTANTS
    Sessions,
    SanitizedID,    \* of each session: its name with the odd characters out
    SaveInterval,
    MaxMessages     \* bounds what is spoken in a session

ASSUME HookAssumption ==
    /\ DOMAIN SanitizedID = Sessions
    /\ SaveInterval \in Nat \ {0} /\ MaxMessages \in Nat

VARIABLES
    human,          \* of each session: human messages in the transcript
    lastSave,       \* of each identifier: what its file says, 0 for none or an
                    \* empty one
    stopping,       \* of each session: its hook, or how the last one ended
    seen,           \* history: messages in the transcript the hook counted
    ordered,        \* history: the same when a hook last decided to block
    spoken,         \* history: messages there ever were
    blocks,         \* history: stops blocked
    disowned        \* history: sessions one of whose saves was not recorded
hookVars == <<human, lastSave, stopping, seen, ordered, spoken, blocks, disowned>>

Ids == {SanitizedID[s] : s \in Sessions}
Messages == 0..MaxMessages

\* No hook runs: none has yet, or the last one let the stop through, blocked it
\* or died.
Over == {"none", "passed", "blocked", "dead"}
Stages == Over \cup {"counted", "read", "truncated", "saved"}
Quiet(stage) == [stage |-> stage, count |-> 0, saved |-> 0]

HookTypeOK ==
    /\ human \in [Sessions -> Messages]
    /\ lastSave \in [Ids -> Messages]
    /\ stopping \in [Sessions -> [stage : Stages, count : Messages, saved : Messages]]
    /\ seen \in [Sessions -> Messages] /\ ordered \in [Sessions -> Messages]
    /\ spoken \in [Sessions -> Messages] /\ blocks \in [Sessions -> Nat]
    /\ disowned \subseteq Sessions

HookInit ==
    /\ human = [s \in Sessions |-> 0]
    /\ lastSave = [i \in Ids |-> 0]
    /\ stopping = [s \in Sessions |-> Quiet("none")]
    /\ seen = [s \in Sessions |-> 0] /\ ordered = [s \in Sessions |-> 0]
    /\ spoken = [s \in Sessions |-> 0] /\ blocks = [s \in Sessions |-> 0]
    /\ disowned = {}

-----------------------------------------------------------------------------
\* The harness appends to the transcript, or goes on with a shorter one, whether
\* or not a hook is reading it.
Speak(s) ==
    /\ spoken[s] < MaxMessages
    /\ human' = [human EXCEPT ![s] = @ + 1]
    /\ spoken' = [spoken EXCEPT ![s] = @ + 1]
    /\ UNCHANGED <<lastSave, stopping, seen, ordered, blocks, disowned>>

Shorten(s) ==
    /\ \E n \in 0..(human[s] - 1) : human' = [human EXCEPT ![s] = n]
    /\ UNCHANGED <<lastSave, stopping, seen, ordered, spoken, blocks, disowned>>

\* hookStop down to the count. A stop while a save is going on (stop_hook_active)
\* is let through with nothing read. The count is of what came before an error or
\* a line of more than a megabyte: none of a transcript that cannot be opened.
StopCounts(s) ==
    /\ stopping[s].stage \in Over
    /\ \E count \in 0..human[s] :
         stopping' = [stopping EXCEPT ![s] =
                        [stage |-> "counted", count |-> count, saved |-> 0]]
    /\ seen' = [seen EXCEPT ![s] = human[s]]
    /\ UNCHANGED <<human, lastSave, ordered, spoken, blocks, disowned>>

\* A file that is missing, or holds no number, is 0.
StopReads(s) ==
    /\ stopping[s].stage = "counted"
    /\ stopping' = [stopping EXCEPT ![s].stage = "read",
                                    ![s].saved = lastSave[SanitizedID[s]]]
    /\ UNCHANGED <<human, lastSave, seen, ordered, spoken, blocks, disowned>>

\* Mutant: one message too many.
DueLate(h) == h.count - h.saved > SaveInterval

Due(h) == h.count - h.saved >= SaveInterval /\ h.count > 0

\* os.WriteFile empties the file, then writes it. Its error is ignored.
SaveOpens(s) ==
    /\ stopping[s].stage = "read" /\ Due(stopping[s])
    /\ ordered' = [ordered EXCEPT ![s] = seen[s]]
    /\ \/ /\ lastSave' = [lastSave EXCEPT ![SanitizedID[s]] = 0]
          /\ stopping' = [stopping EXCEPT ![s].stage = "truncated"]
          /\ UNCHANGED disowned
       \/ /\ stopping' = [stopping EXCEPT ![s].stage = "saved"]
          /\ disowned' = disowned \cup {s}
          /\ UNCHANGED lastSave
    /\ UNCHANGED <<human, seen, spoken, blocks>>

SaveWrites(s) ==
    /\ stopping[s].stage = "truncated"
    /\ stopping' = [stopping EXCEPT ![s].stage = "saved"]
    /\ \/ /\ lastSave' = [lastSave EXCEPT ![SanitizedID[s]] = stopping[s].count]
          /\ UNCHANGED disowned
       \/ disowned' = disowned \cup {s} /\ UNCHANGED lastSave
    /\ UNCHANGED <<human, seen, ordered, spoken, blocks>>

StopBlocks(s) ==
    /\ stopping[s].stage = "saved"
    /\ stopping' = [stopping EXCEPT ![s] = Quiet("blocked")]
    /\ blocks' = [blocks EXCEPT ![s] = @ + 1]
    /\ UNCHANGED <<human, lastSave, seen, ordered, spoken, disowned>>

StopPasses(s) ==
    /\ stopping[s].stage = "read" /\ ~Due(stopping[s])
    /\ stopping' = [stopping EXCEPT ![s] = Quiet("passed")]
    /\ UNCHANGED <<human, lastSave, seen, ordered, spoken, blocks, disowned>>

\* The hook is killed, or its answer does not arrive: the stop goes ahead.
HookDies(s) ==
    /\ stopping[s].stage \notin Over
    /\ stopping' = [stopping EXCEPT ![s] = Quiet("dead")]
    /\ disowned' = IF stopping[s].stage = "truncated" THEN disowned \cup {s} ELSE disowned
    /\ UNCHANGED <<human, lastSave, seen, ordered, spoken, blocks>>

HookNext ==
    \E s \in Sessions : \/ Speak(s) \/ Shorten(s)
                        \/ StopCounts(s) \/ StopReads(s)
                        \/ SaveOpens(s) \/ SaveWrites(s)
                        \/ StopBlocks(s) \/ StopPasses(s) \/ HookDies(s)

HookSpec == HookInit /\ [][HookNext]_hookVars

-----------------------------------------------------------------------------
(* Properties. *)

\* Sessions that have a file of their own.
Owns(s) == \A t \in Sessions \ {s} : SanitizedID[t] # SanitizedID[s]

\* A session is not asked to save before it has spoken for it: every block has
\* SaveInterval messages of its own, whatever part of the transcript was read,
\* however often it shrank and whoever died ("number of human messages between
\* auto-save triggers", hooks.go:19), as long as every save was recorded.
SavesAreEarned ==
    \A s \in Sessions :
      Owns(s) /\ s \notin disowned => blocks[s] * SaveInterval <= spoken[s]

\* A stop whose hook read the whole transcript is let through only if that is by
\* fewer than SaveInterval messages longer than when a block was last decided, so
\* that no more than those and what was taken out since go unsaved: also when the
\* file was lost or cut, the count before was partial or the transcript shrank.
SilenceIsShort ==
    [][\A s \in Sessions :
         /\ Owns(s)
         /\ stopping[s].stage = "read" /\ stopping'[s].stage = "passed"
         /\ stopping[s].count = seen[s]
         => seen[s] - ordered[s] < SaveInterval]_hookVars

\* Saves are neither too close nor too far apart (hooks.go:101-133).
StopsAreCounted == []HookTypeOK /\ []SavesAreEarned /\ SilenceIsShort
=============================================================================
