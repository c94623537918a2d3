----------------------------- MODULE EmbedHelper -----------------------------
(***************************************************************************)
(* PythonSubprocessEmbedder (pkg/embed/python_subprocess.go): goroutines   *)
(* share one helper process, a line of JSON out and a line back, under a   *)
(* mutex. A batch is named by the goroutine it is of. The helper is the    *)
(* script of line 57, which may die, hang, or print a line of its own. The *)
(* process started is Python itself (PythonArgs) or, by default, a         *)
(* launcher, uv run (166): it waits for Python and passes its status on,   *)
(* and a kill ends the launcher alone. Both hold the pipes, the stderr one *)
(* too, which cmd.Wait reads to its end.                                   *)
(***************************************************************************)
EXTENDS Integers, Sequences

CONSTANTS
    Callers,        \* goroutines that embed
    Closers,        \* goroutines that close
    BatchSize,      \* of each caller: how many texts it embeds
    MaxStrays,      \* bounds the lines that answer nothing
    Nobody

ASSUME HelperAssumption ==
    /\ Nobody \notin Callers /\ MaxStrays \in Nat /\ BatchSize \in [Callers -> Nat]
    /\ Callers \intersect {"ready", "bad handshake", "stray", "nothing", "error", "ErrClosed"} = {}

VARIABLES
    embedder,       \* NewPythonSubprocessEmbedder: "reaping" waits for the killed one
    helper,         \* Python
    launcher,       \* uv, "none" where Python was started itself
    requests,       \* in the pipe to it
    answers,        \* in the pipe back
    mutex,          \* mu: the caller that holds it
    closed,
    calling,        \* of each caller: where in Embed
    got,            \* of each caller: what its last Embed returned
    closing,        \* of each closer: where in Close, or what it returned
    strays          \* how many stray lines there were
helperVars == <<embedder, helper, launcher, requests, answers, mutex, closed, calling, got, closing, strays>>

Lines == Callers \union {"ready", "bad handshake", "stray"}
Alive == helper \in {"loading", "serving"}

\* Some process has the other ends of the pipes.
Holds == Alive \/ launcher = "running"

\* How the process started ended, or that it did not.
Started == IF launcher = "none" THEN helper ELSE launcher

EmbedTypeOK ==
    /\ embedder \in {"none", "probing", "ready", "reaping", "failed"}
    /\ helper \in {"none", "loading", "serving", "exited", "failed", "killed"}
    /\ launcher \in {"none", "running", "exited", "failed", "killed"}
    /\ requests \in Seq(Callers) /\ answers \in Seq(Lines)
    /\ mutex \in Callers \union {Nobody}
    /\ closed \in BOOLEAN /\ strays \in 0..MaxStrays
    /\ calling \in [Callers -> {"out", "writing", "reading"}]
    /\ got \in [Callers -> Callers \union {"nothing", "error", "ErrClosed"}]
    /\ closing \in [Closers -> {"out", "locking", "waiting", "killing", "nil", "error"}]

HelperInit ==
    /\ embedder = "none" /\ helper = "none" /\ launcher = "none"
    /\ requests = <<>> /\ answers = <<>>
    /\ mutex = Nobody /\ closed = FALSE /\ strays = 0
    /\ calling = [c \in Callers |-> "out"]
    /\ got = [c \in Callers |-> "nothing"]
    /\ closing = [d \in Closers |-> "out"]

-----------------------------------------------------------------------------
(* The helper. *)

Prints(line) == answers' = Append(answers, line)

HelperLoads ==
    /\ helper = "loading"
    /\ helper' = "serving"
    /\ Prints("ready") \/ Prints("bad handshake")
    /\ UNCHANGED <<embedder, launcher, requests, mutex, closed, calling, got, closing, strays>>

HelperStrays ==
    /\ Alive /\ strays < MaxStrays
    /\ Prints("stray") /\ strays' = strays + 1
    /\ UNCHANGED <<embedder, helper, launcher, requests, mutex, closed, calling, got, closing>>

HelperAnswers ==
    /\ helper = "serving" /\ requests # <<>>
    /\ Prints(Head(requests)) /\ requests' = Tail(requests)
    /\ UNCHANGED <<embedder, helper, launcher, mutex, closed, calling, got, closing, strays>>

\* Its input ends when the embedder is closed, or its probe failed.
InputEnds == closed \/ embedder \in {"reaping", "failed"}

HelperEnds ==
    /\ \/ helper = "serving" /\ requests = <<>> /\ InputEnds /\ helper' = "exited"
       \/ Alive /\ helper' = "failed"
    /\ UNCHANGED <<embedder, launcher, requests, answers, mutex, closed, calling, got,
                   closing, strays>>

\* Python has ended, or the launcher fails and leaves it.
LauncherEnds ==
    /\ launcher = "running"
    /\ launcher' \in {"failed"} \cup (IF helper = "exited" THEN {"exited"} ELSE {})
    /\ UNCHANGED <<embedder, helper, requests, answers, mutex, closed, calling, got,
                   closing, strays>>

-----------------------------------------------------------------------------
(* Its owner. *)

SpawnHelper ==
    /\ embedder = "none"
    /\ embedder' = "probing" /\ helper' = "loading" /\ launcher' \in {"none", "running"}
    /\ UNCHANGED <<requests, answers, mutex, closed, calling, got, closing, strays>>

\* cmd.Process.Kill: the process started, if it has not ended.
Kill ==
    /\ launcher' = IF launcher = "running" THEN "killed" ELSE launcher
    /\ helper' = IF launcher = "none" /\ Alive THEN "killed" ELSE helper

\* What is no JSON is skipped until the handshake comes.
ProbeReads ==
    /\ embedder = "probing" /\ answers # <<>>
    /\ answers' = Tail(answers)
    /\ CASE Head(answers) = "stray" -> UNCHANGED <<embedder, helper, launcher>>
         [] Head(answers) = "ready" -> embedder' = "ready" /\ UNCHANGED <<helper, launcher>>
         [] OTHER -> embedder' = "reaping" /\ Kill
    /\ UNCHANGED <<requests, mutex, closed, calling, got, closing, strays>>

\* End of file, or the timeout.
ProbeFails ==
    /\ embedder = "probing"
    /\ embedder' = "reaping" /\ Kill
    /\ UNCHANGED <<requests, answers, mutex, closed, calling, got, closing, strays>>

\* The constructor returns its error.
ProbeReaps ==
    /\ embedder = "reaping" /\ ~Holds
    /\ embedder' = "failed"
    /\ UNCHANGED <<helper, launcher, requests, answers, mutex, closed, calling, got, closing, strays>>

\* Mutant: no lock.
EmbedUnlocked(c) ==
    /\ embedder = "ready" /\ calling[c] = "out"
    /\ IF closed THEN got' = [got EXCEPT ![c] = "ErrClosed"] /\ UNCHANGED <<mutex, calling>>
                 ELSE /\ calling' = [calling EXCEPT ![c] = "writing"]
                      /\ got' = [got EXCEPT ![c] = "nothing"] /\ UNCHANGED mutex
    /\ UNCHANGED <<embedder, helper, launcher, requests, answers, closed, closing, strays>>

EmbedLocks(c) ==
    /\ embedder = "ready" /\ calling[c] = "out" /\ mutex = Nobody
    /\ IF closed THEN got' = [got EXCEPT ![c] = "ErrClosed"] /\ UNCHANGED <<mutex, calling>>
                 ELSE /\ mutex' = c /\ calling' = [calling EXCEPT ![c] = "writing"]
                      /\ got' = [got EXCEPT ![c] = "nothing"]
    /\ UNCHANGED <<embedder, helper, launcher, requests, answers, closed, closing, strays>>

Returns(c, result) ==
    /\ got' = [got EXCEPT ![c] = result]
    /\ calling' = [calling EXCEPT ![c] = "out"]
    /\ mutex' = Nobody

\* A write that waits for room in the pipe holds the mutex as the read after it
\* does, and is taken for begun.
EmbedWrites(c) ==
    /\ calling[c] = "writing"
    /\ \/ /\ Holds /\ requests' = Append(requests, c)
          /\ calling' = [calling EXCEPT ![c] = "reading"]
          /\ UNCHANGED <<mutex, got>>
       \/ ~Holds /\ Returns(c, "error") /\ UNCHANGED requests
    /\ UNCHANGED <<embedder, helper, launcher, answers, closed, closing, strays>>

\* The line is told from the answer to another batch by its length alone.
EmbedReads(c) ==
    /\ calling[c] = "reading"
    /\ \/ /\ answers # <<>> /\ answers' = Tail(answers)
          /\ LET line == Head(answers)
             IN  Returns(c, IF line \in Callers /\ BatchSize[line] = BatchSize[c]
                            THEN line ELSE "error")
       \/ answers = <<>> /\ ~Holds /\ Returns(c, "error") /\ UNCHANGED answers
    /\ UNCHANGED <<embedder, helper, launcher, requests, closed, closing, strays>>

Close(d) ==
    /\ embedder = "ready" /\ closing[d] = "out"
    /\ closing' = [closing EXCEPT ![d] = "locking"]
    /\ UNCHANGED <<embedder, helper, launcher, requests, answers, mutex, closed, calling, got, strays>>

\* A second Close returns at once. The first takes the input from the helper.
CloseLocks(d) ==
    /\ closing[d] = "locking" /\ mutex = Nobody
    /\ closed' = TRUE
    /\ closing' = [closing EXCEPT ![d] = IF closed THEN "nil" ELSE "waiting"]
    /\ UNCHANGED <<embedder, helper, launcher, requests, answers, mutex, calling, got, strays>>

CloseWaits(d) ==
    /\ closing[d] = "waiting" /\ ~Holds
    /\ closing' = [closing EXCEPT ![d] = IF Started = "exited" THEN "nil" ELSE "error"]
    /\ UNCHANGED <<embedder, helper, launcher, requests, answers, mutex, closed, calling,
                   got, strays>>

\* Mutant: gives up waiting, and kills nothing.
CloseGivesUp(d) ==
    /\ closing[d] = "waiting"
    /\ closing' = [closing EXCEPT ![d] = "killing"]
    /\ UNCHANGED <<embedder, helper, launcher, requests, answers, mutex, closed, calling,
                   got, strays>>

\* After five seconds.
CloseKills(d) ==
    /\ closing[d] = "waiting"
    /\ closing' = [closing EXCEPT ![d] = "killing"]
    /\ Kill
    /\ UNCHANGED <<embedder, requests, answers, mutex, closed, calling, got, strays>>

CloseReaps(d) ==
    /\ closing[d] = "killing" /\ ~Holds
    /\ closing' = [closing EXCEPT ![d] = "error"]
    /\ UNCHANGED <<embedder, helper, launcher, requests, answers, mutex, closed, calling,
                   got, strays>>

HelperNext ==
    \/ SpawnHelper \/ ProbeReads \/ ProbeFails \/ ProbeReaps
    \/ HelperLoads \/ HelperStrays \/ HelperAnswers \/ HelperEnds \/ LauncherEnds
    \/ \E c \in Callers : EmbedLocks(c) \/ EmbedWrites(c) \/ EmbedReads(c)
    \/ \E d \in Closers : Close(d) \/ CloseLocks(d) \/ CloseWaits(d) \/ CloseKills(d)
                          \/ CloseReaps(d)

\* Goroutines run, timers fire, and a mutex that keeps being freed is handed to
\* the one that waits (sync.Mutex hands it over after a millisecond). Nothing
\* makes the helper or its launcher answer or end.
HelperFairness ==
    /\ WF_helperVars(ProbeFails) /\ WF_helperVars(ProbeReaps)
    /\ \A c \in Callers : WF_helperVars(EmbedWrites(c)) /\ WF_helperVars(EmbedReads(c))
    /\ \A d \in Closers : /\ SF_helperVars(CloseLocks(d)) /\ WF_helperVars(CloseWaits(d))
                          /\ WF_helperVars(CloseKills(d)) /\ WF_helperVars(CloseReaps(d))

HelperSpec == HelperInit /\ [][HelperNext]_helperVars /\ HelperFairness

-----------------------------------------------------------------------------
(* Properties. *)

\* As long as the helper prints nothing of its own after the handshake, a
\* goroutine is given the vectors of its own batch, whoever else embeds. (One
\* stray line, and each batch of the same length is given the answer of the
\* batch before for as long as the helper lives.)
AnswersAreOwn ==
    strays = 0 => \A c \in Callers : got[c] \in Callers => got[c] = c

\* When the Close that closed the embedder has returned the helper and its
\* launcher are gone, and nil says that the helper left by itself; nor does the
\* constructor return an error and leave one behind.
CloseLeavesNoHelper ==
    /\ closed /\ (\A d \in Closers : closing[d] \notin {"waiting", "killing"}) => ~Holds
    /\ (\E d \in Closers : closing[d] = "nil") /\ (\A d \in Closers : closing[d] \in {"out", "nil"})
         => helper = "exited"
    /\ embedder = "failed" => ~Holds

\* A goroutine reads and no line comes: Embed has no timeout, and Close needs its
\* mutex.
Unanswered == \E c \in Callers : calling[c] = "reading" /\ answers = <<>> /\ Holds

\* Python goes on without its launcher, whose kill it survived.
Orphaned == Alive /\ launcher \in {"failed", "killed"}

\* The constructor and Close return, whoever goes on embedding and also when
\* Python will not exit ("waits up to 5 seconds before force-killing",
\* python_subprocess.go:262), unless for ever a caller waits for an answer, or
\* Python runs on with its launcher gone.
OwnersReturn ==
    \/ <>[](Unanswered \/ Orphaned)
    \/ /\ embedder = "probing" ~> embedder \in {"ready", "failed"}
       /\ \A d \in Closers : closing[d] = "locking" ~> closing[d] \in {"nil", "error"}

\* The helper serves its callers and no other, and is gone with its embedder
\* (python_subprocess.go:224-310).
HelperIsOwn == EmbedTypeOK /\ AnswersAreOwn /\ CloseLeavesNoHelper
=============================================================================
