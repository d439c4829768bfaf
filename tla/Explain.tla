------------------------------ MODULE Explain ------------------------------
(***************************************************************************)
(* Explain Selection (explain.rs, lib/explain.ts) of one row.  A request   *)
(* is answered by a hidden child that forks the conversation; a follow-up  *)
(* resumes the fork.  The commands run one at a time on the main thread;   *)
(* each child has a reader thread and a watchdog, the panel hears of it by *)
(* events, and the fork is a file that the app must delete itself.         *)
(***************************************************************************)
EXTENDS Naturals, Sequences, FiniteSets

CONSTANTS
    MaxRequests,    \* bound: the requests, numbered from 1
    MaxMoves        \* bound: how often the row's conversation loses or gains its file

ASSUME ExplainAssumption == {MaxRequests, MaxMoves} \subseteq Nat

VARIABLES
    asked,      \* the requests so far
    moves,      \* the changes of hasFile so far
    hasFile,    \* the row's conversation has a transcript (explain_target)
    appUp,      \* before teardown
    panel,      \* Explain of the frontend, or NoPanel
    slot,       \* FORKS: the request that made the fork and whether its uuid is known
    runningChild,    \* RUNNING: the request of the child, or 0
    process,    \* the child of each request
    fork,       \* the fork a request's child writes, by the request that made it
    initLine,   \* the requests whose init line is in the pipe
    timedOut,   \* the requests whose watchdog fired
    forkFiles,      \* the forks on disk
    progress    \* the explain-progress events on their way to the window
childVars == <<process, fork, initLine, timedOut, forkFiles>>
explainVars == <<asked, moves, hasFile, appUp, panel, slot, runningChild, progress, childVars>>

Requests == 1..MaxRequests
NoPanel == [req |-> 0, quote |-> 0, turn |-> "none"]
NoSlot == [req |-> 0, known |-> FALSE]

\* The child: not spawned, alive (its init line printed, its file begun or not), or ended
\* with its reader still to look.
Alive == {"spawned", "started", "writing"}
TurnEnded == {"succeeded", "failed", "killed"}

-----------------------------------------------------------------------------
ExplainInit ==
    /\ asked = 0 /\ moves = 0 /\ hasFile = TRUE /\ appUp = TRUE
    /\ panel = NoPanel /\ slot = NoSlot /\ runningChild = 0 /\ progress = <<>>
    /\ process = [r \in Requests |-> "none"] /\ fork = [r \in Requests |-> 0]
    /\ initLine = {} /\ timedOut = {} /\ forkFiles = {}

\* /clear, or a /resume in the claude itself.
ConversationMoves ==
    /\ appUp /\ moves < MaxMoves /\ moves' = moves + 1 /\ hasFile' = ~hasFile
    /\ UNCHANGED <<asked, appUp, panel, slot, runningChild, progress, childVars>>

-----------------------------------------------------------------------------
(* The commands.                                                            *)

\* cancel
ExplainCancelled == [r \in Requests |-> IF r = runningChild /\ process[r] \in Alive THEN "killed" ELSE process[r]]

\* Mutant: the fork's file stays.
Discarded_Kept == forkFiles

\* discard
Discarded == IF slot.known THEN forkFiles \ {slot.req} ELSE forkFiles

\* spawn, which can fail: then the command fails, and the turn with it.
ForkSpawned(r, root, before) ==
    \/ /\ process' = [before EXCEPT ![r] = "spawned"] /\ fork' = [fork EXCEPT ![r] = root]
       /\ runningChild' = r /\ panel'.turn = "streaming"
    \/ /\ process' = before /\ runningChild' = 0 /\ panel'.turn = "error" /\ UNCHANGED fork

\* startExplain and explain_start
StartFork ==
    /\ appUp /\ asked < MaxRequests /\ asked' = asked + 1
    /\ \/ /\ hasFile
          /\ \E t \in {"streaming", "error"} : panel' = [req |-> asked', quote |-> asked', turn |-> t]
          /\ forkFiles' = Discarded /\ slot' = [req |-> asked', known |-> FALSE]
          /\ ForkSpawned(asked', asked', ExplainCancelled)
       \/ /\ ~hasFile
          /\ panel' = [req |-> asked', quote |-> asked', turn |-> "error"]
          /\ UNCHANGED <<slot, runningChild, process, fork, forkFiles>>
    /\ UNCHANGED <<moves, hasFile, appUp, progress, initLine, timedOut>>

\* askFollowup and explain_followup
Followup ==
    /\ appUp /\ asked < MaxRequests /\ asked' = asked + 1
    /\ panel.turn \in {"done", "error"}
    /\ \/ /\ slot.known
          /\ \E t \in {"streaming", "error"} : panel' = [panel EXCEPT !.req = asked', !.turn = t]
          /\ ForkSpawned(asked', slot.req, ExplainCancelled)
       \/ /\ ~slot.known /\ panel' = [panel EXCEPT !.req = asked', !.turn = "error"]
          /\ UNCHANGED <<runningChild, process, fork>>
    /\ UNCHANGED <<moves, hasFile, appUp, slot, progress, initLine, timedOut, forkFiles>>

DiscardFork ==
    /\ process' = ExplainCancelled /\ runningChild' = 0
    /\ forkFiles' = Discarded /\ slot' = NoSlot

\* closeExplain: Clear, the row's exit or the project's close.
ClosePanel ==
    /\ appUp /\ panel # NoPanel /\ panel' = NoPanel /\ DiscardFork
    /\ UNCHANGED <<asked, moves, hasFile, appUp, fork, initLine, timedOut, progress>>

\* teardown: discard_all, and the readers end with the app.
Teardown ==
    /\ appUp /\ appUp' = FALSE /\ DiscardFork
    /\ panel' = NoPanel /\ progress' = <<>> /\ initLine' = {}
    /\ UNCHANGED <<asked, moves, hasFile, fork, timedOut>>

-----------------------------------------------------------------------------
(* The child.                                                               *)

Prints(r) ==
    /\ process[r] = "spawned" /\ process' = [process EXCEPT ![r] = "started"]
    /\ initLine' = initLine \cup {r}
    /\ UNCHANGED <<asked, moves, hasFile, appUp, panel, slot, runningChild, progress, fork, timedOut, forkFiles>>

Writes(r) ==
    /\ process[r] = "started" /\ process' = [process EXCEPT ![r] = "writing"]
    /\ forkFiles' = forkFiles \cup {fork[r]}
    /\ UNCHANGED <<asked, moves, hasFile, appUp, panel, slot, runningChild, progress, fork, initLine, timedOut>>

Answers(r) ==
    /\ process[r] = "writing"
    /\ \E e \in {"succeeded", "failed"} : process' = [process EXCEPT ![r] = e]
    /\ UNCHANGED <<asked, moves, hasFile, appUp, panel, slot, runningChild, progress, fork, initLine, timedOut, forkFiles>>

WatchdogKill(r) == [process EXCEPT ![r] = "killed"]

Watchdog(r) ==
    /\ appUp /\ process[r] \in Alive /\ timedOut' = timedOut \cup {r} /\ process' = WatchdogKill(r)
    /\ UNCHANGED <<asked, moves, hasFile, appUp, panel, slot, runningChild, progress, fork, initLine, forkFiles>>

-----------------------------------------------------------------------------
(* Its reader, and the window.                                              *)

SlotIs(r) == slot.req = r

\* note_fork, for the child that makes the fork.
ReadsInit(r) ==
    /\ appUp /\ r \in initLine /\ initLine' = initLine \ {r}
    /\ slot' = IF fork[r] = r /\ SlotIs(r) THEN [slot EXCEPT !.known = TRUE] ELSE slot
    /\ forkFiles' = IF fork[r] = r /\ ~SlotIs(r) THEN forkFiles \ {r} ELSE forkFiles
    /\ UNCHANGED <<asked, moves, hasFile, appUp, panel, runningChild, progress, process, fork, timedOut>>

\* take_if_ours
OursRuns(r) == runningChild = r

\* The end of the output, the end of the child, and the last event.
ReaderEnds(r) ==
    /\ appUp /\ process[r] \in TurnEnded /\ r \notin initLine
    /\ process' = [process EXCEPT ![r] = "read"]
    /\ \/ /\ OursRuns(r) /\ runningChild' = 0
          /\ progress' = Append(progress, [req |-> r, kind |->
                IF process[r] = "succeeded" /\ r \notin timedOut THEN "done" ELSE "error"])
       \/ ~OursRuns(r) /\ UNCHANGED <<runningChild, progress>>
    /\ UNCHANGED <<asked, moves, hasFile, appUp, panel, slot, fork, initLine, timedOut, forkFiles>>

IsItsRequest(e) == panel.req = e.req

\* applyExplainProgress
WindowHears ==
    /\ appUp /\ progress # <<>> /\ progress' = Tail(progress)
    /\ panel' = IF IsItsRequest(Head(progress)) THEN [panel EXCEPT !.turn = Head(progress).kind] ELSE panel
    /\ UNCHANGED <<asked, moves, hasFile, appUp, slot, runningChild, childVars>>

-----------------------------------------------------------------------------
ExplainNext ==
    \/ ConversationMoves \/ StartFork \/ Followup \/ ClosePanel \/ Teardown \/ WindowHears
    \/ \E r \in Requests :
          Prints(r) \/ Writes(r) \/ Answers(r) \/ Watchdog(r) \/ ReadsInit(r) \/ ReaderEnds(r)

ExplainFair ==
    /\ WF_explainVars(WindowHears)
    /\ WF_explainVars(\E r \in Requests : Watchdog(r) \/ ReadsInit(r) \/ ReaderEnds(r))

ExplainSpec == ExplainInit /\ [][ExplainNext]_explainVars

ExplainFairSpec == ExplainSpec /\ ExplainFair

-----------------------------------------------------------------------------
\* Every variable is in its range (explain.rs, Running and Fork).
ExplainTypeOK ==
    /\ asked \in 0..MaxRequests /\ moves \in 0..MaxMoves /\ {hasFile, appUp} \subseteq BOOLEAN
    /\ panel \in [req : 0..MaxRequests, quote : 0..MaxRequests,
                  turn : {"none", "streaming", "done", "error"}]
    /\ slot \in [req : 0..MaxRequests, known : BOOLEAN] /\ runningChild \in 0..MaxRequests
    /\ process \in [Requests -> Alive \cup TurnEnded \cup {"none", "read"}]
    /\ fork \in [Requests -> 0..MaxRequests]
    /\ initLine \subseteq Requests /\ timedOut \subseteq Requests /\ forkFiles \subseteq Requests
    /\ progress \in Seq([req : Requests, kind : {"done", "error"}])

\* No request leaves a conversation in the project's list: while the app runs, a fork on disk is
\* the one the panel resumes, or its init line is still to be read and it goes then (docs/explain.md,
\* "Mulpex deletes that fork itself").
NoForkIsLeft == appUp => \A f \in forkFiles : f \in initLine \/ slot = [req |-> f, known |-> TRUE]

\* At most one child answers for a row, and it is the one a close would kill (explain.rs, "The
\* running child per instance, so a new request or a close can kill it").
OneChildRuns == appUp => \A r \in Requests : process[r] \in Alive => runningChild = r

\* An answer that is shown as complete is the answer of the request shown (explain.rs, Progress:
\* "a late event from a replaced request is ignored there").
DoneIsItsOwn == panel.turn = "done" => /\ process[panel.req] = "read" /\ panel.req \notin timedOut
                                       /\ fork[panel.req] # 0

\* A request leaves no fork, no second child and no answer that is another's (explain.rs).
ExplainInv == ExplainTypeOK /\ NoForkIsLeft /\ OneChildRuns /\ DoneIsItsOwn

\* No turn streams for ever: the child answers, fails or is killed by its watchdog, and the window
\* hears of it, unless the panel closes first (explain.rs, TIMEOUT and take_if_ours).
TurnsEnd == []<>(panel.turn # "streaming")

\* What lib/explain.ts says of a new request: "a new one replaces it, and the old fork is killed
\* backend-side", so a follow-up is about the quote on the screen.
FollowupIsOnTopic == runningChild # 0 /\ panel.req = runningChild => fork[runningChild] = panel.quote
=============================================================================
