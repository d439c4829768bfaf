-------------------------------- MODULE Wake --------------------------------
(***************************************************************************)
(* Ringing an idle codex that has hub mail (wake.rs).  The app sees the    *)
(* inbox and the status word once a tick, starts `codex queue`, or has the *)
(* window type the line while the codex has no thread yet, and waits for   *)
(* the ack that the codex's own hook writes when the line begins a turn.   *)
(***************************************************************************)
EXTENDS Naturals

CONSTANTS
    MaxMail,    \* bound: the messages that arrive
    MaxWakes    \* bound: the wake lines in the queue and the box of the codex

ASSUME WakeAssumption == MaxMail \in Nat \ {0} /\ MaxWakes \in Nat \ {0}

VARIABLES
    unread,     \* the files in its inbox
    arrived,    \* the messages that came so far
    codex,      \* its word, and what its TUI is at
    compacting, \* Input.hold: compactreq/<id> has a phase
    ring,       \* Wakes.rows[id]: Row
    queued,     \* the `codex queue` that runs: "none", "running", "ok" or "failed"
    typist,     \* the window has a line to type for this row
    rungFor,      \* the mail there is was rung for, or read, since the last of it came
    hidden      \* the inbox was emptied and filled again between two ticks
wakeVars == <<unread, arrived, codex, compacting, ring, queued, typist, rungFor, hidden>>
appVars == <<ring, queued, typist>>

-----------------------------------------------------------------------------
Phases == {"idle", "queueing", "typing", "acking"}
Warnings == {"unanswered", "refused"}

\* Row::default; acked: wake/<id>.ack is no older than rang_wall; late: the wait of the
\* phase is over; again: RETRY since last_try.
NewRing == [phase |-> "idle", rungFor |-> 0, mark |-> "none", acked |-> FALSE, late |-> FALSE, again |-> TRUE]

\* thread: `codex queue` can reach it; lines: wake lines in its queue or box; blocked: its
\* Stop was blocked for mail; over: the turn ended with no Stop.
NewCodex == [word |-> "waiting", thread |-> FALSE, lines |-> 0, blocked |-> FALSE, over |-> FALSE]

WakeInit ==
    /\ unread = 0 /\ arrived = 0 /\ compacting = FALSE
    /\ codex \in {NewCodex, [NewCodex EXCEPT !.thread = TRUE]}
    /\ ring = NewRing /\ queued = "none" /\ typist = FALSE
    /\ rungFor = TRUE /\ hidden = FALSE

-----------------------------------------------------------------------------
(* The mail and the codex.                                                  *)

Arrive ==
    /\ arrived < MaxMail /\ arrived' = arrived + 1
    /\ unread' = unread + 1 /\ rungFor' = FALSE
    /\ hidden' = (hidden \/ (unread = 0 /\ ring.rungFor > 0))
    /\ UNCHANGED <<codex, compacting, appVars>>

\* userpromptsubmit: a wake line begins a turn, and acks it.
TakesLine ==
    /\ codex.word = "waiting" /\ codex.lines > 0
    /\ codex' = [codex EXCEPT !.word = "working", !.lines = @ - 1, !.thread = TRUE]
    /\ ring' = [ring EXCEPT !.acked = TRUE]
    /\ UNCHANGED <<unread, arrived, compacting, queued, typist, rungFor, hidden>>

\* The user's own prompt, which is no ack.
UserPrompts ==
    /\ codex.word = "waiting"
    /\ codex' = [codex EXCEPT !.word = "working", !.thread = TRUE]
    /\ UNCHANGED <<unread, arrived, compacting, appVars, rungFor, hidden>>

ReadsInbox ==
    /\ codex.word = "working" /\ ~codex.over /\ unread > 0
    /\ unread' = 0 /\ rungFor' = TRUE
    /\ UNCHANGED <<arrived, codex, compacting, appVars, hidden>>

\* stop: mail blocks it once in a turn.
Stops ==
    /\ codex.word = "working" /\ ~codex.over
    /\ codex' = IF unread > 0 /\ ~codex.blocked THEN [codex EXCEPT !.blocked = TRUE]
                ELSE [codex EXCEPT !.word = "waiting", !.blocked = FALSE]
    /\ UNCHANGED <<unread, arrived, compacting, appVars, rungFor, hidden>>

\* A turn that fails or is interrupted fires no Stop.
Fails ==
    /\ codex.word = "working" /\ ~codex.over
    /\ codex' = [codex EXCEPT !.over = TRUE]
    /\ UNCHANGED <<unread, arrived, compacting, appVars, rungFor, hidden>>

\* settle_codex_turns: the rollout says that the turn is over, and is quiet.
Settles ==
    /\ codex.word = "working" /\ codex.over
    /\ codex' = [codex EXCEPT !.word = "waiting", !.over = FALSE, !.blocked = FALSE]
    /\ UNCHANGED <<unread, arrived, compacting, appVars, rungFor, hidden>>

Compacts ==
    /\ compacting' = ~compacting
    /\ UNCHANGED <<unread, arrived, codex, appVars, rungFor, hidden>>

\* The row's process is replaced: its ring is forgotten and its ack removed, and a line
\* in the old one's box is gone with it.
Restarts ==
    /\ ring # NewRing
    /\ ring' = NewRing /\ queued' = "none"
    /\ codex' = [NewCodex EXCEPT !.thread = codex.thread]
    /\ UNCHANGED <<unread, arrived, compacting, typist, rungFor, hidden>>

-----------------------------------------------------------------------------
(* The ring.                                                                *)

\* spawn_queue's thread: codex takes the line, or it answers 0 with no TUI on the thread,
\* or fails, or is killed after QUEUE_TIMEOUT.
QueueEnds ==
    /\ queued = "running"
    /\ \/ codex.lines < MaxWakes /\ queued' = "ok" /\ codex' = [codex EXCEPT !.lines = @ + 1]
       \/ queued' \in {"ok", "failed"} /\ UNCHANGED codex
    /\ UNCHANGED <<unread, arrived, compacting, ring, typist, rungFor, hidden>>

\* wake_typed, for the line of an event that may be of an earlier ring: typed into an
\* empty box, or refused for a draft in it.
WindowTypes(ok) ==
    /\ typist /\ typist' = FALSE
    /\ ok => codex.lines < MaxWakes
    /\ codex' = IF ok THEN [codex EXCEPT !.lines = @ + 1] ELSE codex
    /\ ring' = IF ring.phase # "typing" THEN ring
               ELSE IF ok THEN [ring EXCEPT !.phase = "acking", !.late = FALSE]
               ELSE [ring EXCEPT !.phase = "idle", !.mark = "refused"]
    /\ UNCHANGED <<unread, arrived, compacting, queued, rungFor, hidden>>

\* The event reaches no window.
WindowMisses ==
    /\ typist /\ typist' = FALSE
    /\ UNCHANGED <<unread, arrived, codex, compacting, ring, queued, rungFor, hidden>>

\* TYPED_WAIT, ACK_WAIT or RETRY passes.
TimePasses ==
    /\ \/ ring.phase # "idle" /\ ~ring.late /\ ring' = [ring EXCEPT !.late = TRUE]
       \/ ring.phase = "idle" /\ ~ring.again /\ ring' = [ring EXCEPT !.again = TRUE]
    /\ UNCHANGED <<unread, arrived, codex, compacting, queued, typist, rungFor, hidden>>

\* tick, first half: what is in flight comes to an end.
Landed(r) ==
    IF r.phase = "queueing" /\ queued = "ok" THEN [r EXCEPT !.phase = "acking"]
    ELSE IF r.phase = "queueing" /\ queued = "failed" THEN [r EXCEPT !.phase = "idle", !.mark = "unanswered"]
    ELSE IF r.phase = "typing" /\ r.late THEN [r EXCEPT !.phase = "idle", !.mark = "unanswered"]
    ELSE r

\* Mutant: an exit code of 0 is taken for an ack.
Answered_Queued(r) == IF r.phase = "acking" THEN [r EXCEPT !.phase = "idle", !.mark = "delivered"] ELSE r

Answered(r) ==
    IF r.phase = "acking" /\ r.acked THEN [r EXCEPT !.phase = "idle", !.mark = "delivered"]
    ELSE IF r.phase = "acking" /\ r.late THEN [r EXCEPT !.phase = "idle", !.mark = "unanswered"]
    ELSE r

\* An ack that came late is one all the same.
AnsweredLate(r) ==
    IF r.phase = "idle" /\ r.mark = "unanswered" /\ r.acked THEN [r EXCEPT !.mark = "delivered"] ELSE r

\* tick, of an inbox that is empty.
Moot(r) ==
    [r EXCEPT !.rungFor = 0, !.mark = IF r.phase = "idle" /\ @ \in Warnings THEN "none" ELSE @]

\* Mutant: only more mail rings again.
Due_Grown(r) == unread > r.rungFor

Due(r) == unread > r.rungFor \/ (r.mark \in Warnings /\ r.again)

MayRing(r) == r.phase = "idle" /\ codex.word = "waiting" /\ ~compacting /\ Due(r)

Rung(r) ==
    [r EXCEPT !.rungFor = unread, !.again = FALSE, !.late = FALSE, !.acked = FALSE, !.mark = "rang",
              !.phase = IF codex.thread THEN "queueing" ELSE "typing"]

\* Wakes::tick for one row.
TickWakes ==
    LET r == AnsweredLate(Answered(Landed(ring)))
        rings == unread > 0 /\ MayRing(r)
    IN  /\ ring' = IF unread = 0 THEN Moot(r) ELSE IF rings THEN Rung(r) ELSE r
        /\ queued' = IF rings /\ codex.thread THEN "running"
                     ELSE IF r.phase # ring.phase THEN "none" ELSE queued
        /\ typist' = (typist \/ (rings /\ ~codex.thread))
        /\ rungFor' = (rungFor \/ rings)
        /\ hidden' = (hidden /\ unread > 0 /\ ~rings)
        /\ UNCHANGED <<unread, arrived, codex, compacting>>

-----------------------------------------------------------------------------
WakeNext ==
    \/ Arrive \/ TakesLine \/ UserPrompts \/ ReadsInbox \/ Stops \/ Fails \/ Settles
    \/ Compacts \/ Restarts
    \/ QueueEnds \/ (\E ok \in BOOLEAN : WindowTypes(ok)) \/ WindowMisses \/ TimePasses
    \/ TickWakes

WakeSpec == WakeInit /\ [][WakeNext]_wakeVars

\* The poll loop ticks, spawn_queue's thread answers, and time passes.
WakeFair ==
    /\ WF_wakeVars(TickWakes) /\ WF_wakeVars(QueueEnds) /\ WF_wakeVars(TimePasses) /\ WF_wakeVars(Settles)

WakeFairSpec == WakeSpec /\ WakeFair

-----------------------------------------------------------------------------
\* Every variable keeps its type; codex queue runs only for a ring that waits for it.
WakeTypeOK ==
    /\ unread \in 0 .. arrived /\ arrived \in 0 .. MaxMail
    /\ ring.phase \in Phases /\ ring.rungFor \in 0 .. MaxMail
    /\ ring.mark \in {"none", "rang", "delivered"} \cup Warnings
    /\ {ring.acked, ring.late, ring.again, typist, rungFor, hidden, compacting} \subseteq BOOLEAN
    /\ codex.word \in {"waiting", "working"} /\ codex.lines \in 0 .. MaxWakes
    /\ queued \in {"none", "running", "ok", "failed"}
    /\ queued # "none" <=> ring.phase = "queueing"

\* wake.rs "A ring counts only when the codex acks it": no row shows a ring delivered
\* that no wake line has followed, whatever codex queue answered.
DeliveredWasAcked == ring.mark = "delivered" => ring.acked

\* A codex at its prompt is rung for the mail that came, unless it was all read and more
\* came before the next tick looked (its inbox is then no bigger than it was rung for).
Unheard == unread > 0 /\ ~rungFor /\ ~hidden /\ codex.word = "waiting" /\ ~compacting
MailIsRung == []<>~Unheard

\* An unanswered ring is repeated as long as the mail is there and the codex idle, and the
\* warning goes with the mail.
Warned == ring.mark \in Warnings /\ codex.word = "waiting" /\ ~compacting
RingIsRepeated == []<>~Warned

\* A ring shows as delivered only when codex acknowledged it (wake.rs).
WakeInv == WakeTypeOK /\ DeliveredWasAcked

\* The mail of an idle codex is rung for, and an unanswered ring is repeated (tick_wakes).
WakeLive == MailIsRung /\ RingIsRepeated
=============================================================================
