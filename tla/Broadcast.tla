----------------------------- MODULE Broadcast -----------------------------
(***************************************************************************)
(* Ask All Claudes (broadcast.rs): one question to the picked claudes of   *)
(* every open project.  The round is memory of the app; the questions, the *)
(* open markers and the answers are files the claudes read and write when  *)
(* they like; the summary is a child process with a reader and a timer.    *)
(***************************************************************************)
EXTENDS Naturals, FiniteSets

CONSTANTS
    Picked,         \* the claudes that can be asked
    Home,           \* the project of each
    MaxAsks,        \* bound: the rounds, numbered from 1
    MaxGone,        \* bound: the rows that close, are held or fail, and come back
    MaxSummaries    \* bound: the summaries

ASSUME BroadcastAssumption ==
    IsFiniteSet(Picked) /\ {MaxAsks, MaxGone, MaxSummaries} \subseteq Nat

VARIABLES
    living,     \* live_claude_ids
    status,     \* "waiting", or "working" for every other word
    question,   \* the unread questions in each inbox, by their round
    heard,      \* the rounds each has read the question of
    open,       \* broadcast/<bid> of a project, with its marker
    answers,    \* broadcast/<bid>/<id>.json
    replying,   \* the round whose marker hub_reply_broadcast has just seen, or 0
    round,      \* Broadcast.round
    idle,       \* idle_since of its rows: "no", "since", or "settled" after SETTLE
    found,      \* the answers the pass under way found, or NoPass
    astray,     \* the rounds that broadcast_send began and gave up
    asks,       \* the rounds begun so far
    gone,       \* the rows gone so far
    running,    \* RUNNING: the summary's req_id, or 0
    spawned,    \* the one spawned and not yet in RUNNING, or 0
    children,   \* the summaries whose process lives
    summaries   \* the summaries so far
roundVars == <<question, open, answers, round, idle, astray, asks>>
summaryVars == <<running, spawned, children, summaries>>
broadcastVars == <<living, status, heard, replying, found, gone, roundVars, summaryVars>>

-----------------------------------------------------------------------------
NoRound == [bid |-> 0, done |-> [c \in {} |-> "asked"]]
NoPass == {[id |-> 0, bid |-> 0]}
RowsOf(r) == DOMAIN r.done

BroadcastInit ==
    /\ living = Picked /\ status = [c \in Picked |-> "waiting"]
    /\ question = [c \in Picked |-> {}] /\ heard = [c \in Picked |-> {}]
    /\ open = {} /\ answers = {} /\ replying = [c \in Picked |-> 0]
    /\ round = NoRound /\ idle = [c \in Picked |-> "no"] /\ found = NoPass
    /\ astray = {} /\ asks = 0 /\ gone = 0
    /\ running = 0 /\ spawned = 0 /\ children = {} /\ summaries = 0

-----------------------------------------------------------------------------
(* The claudes.                                                             *)

\* A turn begins, asks the user, or ends.
StatusChanges(c) ==
    /\ c \in living /\ replying[c] = 0
    /\ \E w \in {"waiting", "working"} \ {status[c]} : status' = [status EXCEPT ![c] = w]
    /\ UNCHANGED <<living, heard, replying, found, gone, roundVars, summaryVars>>

ReadsQuestions(c) ==
    /\ c \in living /\ status[c] = "working" /\ question[c] # {}
    /\ heard' = [heard EXCEPT ![c] = @ \cup question[c]]
    /\ question' = [question EXCEPT ![c] = {}]
    /\ UNCHANGED <<living, status, replying, found, gone, open, answers, round, idle, astray, asks, summaryVars>>

\* hub_reply_broadcast: refused unless the marker is there.
ReplySeesMarker(c) ==
    /\ c \in living /\ status[c] = "working" /\ replying[c] = 0
    /\ \E b \in heard[c] : <<Home[c], b>> \in open /\ replying' = [replying EXCEPT ![c] = b]
    /\ UNCHANGED <<living, status, heard, found, gone, roundVars, summaryVars>>

\* The temporary file and its rename, which fail when the directory went meanwhile.
ReplyLands(c) ==
    /\ c \in living /\ replying[c] # 0
    /\ answers' = IF <<Home[c], replying[c]>> \in open
                  THEN answers \cup {[id |-> c, bid |-> replying[c]]} ELSE answers
    /\ replying' = [replying EXCEPT ![c] = 0]
    /\ UNCHANGED <<living, status, heard, found, gone, question, open, round, idle, astray, asks, summaryVars>>

\* The row closes, is held or fails: its inbox goes.
RowGoes(c) ==
    /\ c \in living /\ gone < MaxGone /\ gone' = gone + 1
    /\ living' = living \ {c} /\ question' = [question EXCEPT ![c] = {}]
    /\ replying' = [replying EXCEPT ![c] = 0] /\ status' = [status EXCEPT ![c] = "waiting"]
    /\ UNCHANGED <<heard, found, open, answers, round, idle, astray, asks, summaryVars>>

RowReturns(c) ==
    /\ c \notin living /\ living' = living \cup {c}
    /\ UNCHANGED <<status, heard, replying, found, gone, roundVars, summaryVars>>

-----------------------------------------------------------------------------
(* The round.                                                               *)

\* Mutant: the marker of a claude that has finished stays.
DirsOf_Unfinished(r) == {<<Home[c], r.bid>> : c \in {c \in RowsOf(r) : r.done[c] = "asked"}}

DirsOf(r) == {<<Home[c], r.bid>> : c \in RowsOf(r)}

TakenBack(c) == IF c \in RowsOf(round) THEN question[c] \ {round.bid} ELSE question[c]

\* broadcast_cancel: what is left of the questions, the directories and the answers.
ClosedQuestions == [c \in Picked |-> TakenBack(c)]
ClosedDirs == open \ DirsOf(round)

ClosedAnswers == {a \in answers : a.bid # round.bid}

\* cancel_summary
SummaryKilled == running' = 0 /\ children' = children \ {running}

BroadcastCancel ==
    /\ found = NoPass /\ round # NoRound
    /\ question' = ClosedQuestions /\ open' = ClosedDirs /\ answers' = ClosedAnswers
    /\ round' = NoRound /\ idle' = [c \in Picked |-> "no"] /\ SummaryKilled
    /\ UNCHANGED <<living, status, heard, replying, found, gone, astray, asks, spawned, summaries>>

\* broadcast_send, after the earlier round is ended: some of the picked are asked, or the
\* directory of a later project cannot be made and the call returns at once.
BroadcastSend ==
    /\ found = NoPass /\ asks < MaxAsks /\ asks' = asks + 1
    /\ \E picks \in SUBSET living \ {{}}, failed \in BOOLEAN :
          LET b == asks + 1
              new == IF failed THEN NoRound ELSE [bid |-> b, done |-> [c \in picks |-> "asked"]]
          IN  /\ failed => \A c \in Picked : Home[c] \in {Home[d] : d \in picks} => c \in picks
              /\ question' = [c \in Picked |-> ClosedQuestions[c] \cup (IF c \in picks THEN {b} ELSE {})]
              /\ open' = ClosedDirs \cup {<<Home[c], b>> : c \in picks}
              /\ round' = new /\ astray' = IF failed THEN astray \cup {b} ELSE astray
    /\ answers' = ClosedAnswers /\ idle' = [c \in Picked |-> "no"] /\ SummaryKilled
    /\ UNCHANGED <<living, status, heard, replying, found, gone, spawned, summaries>>

\* broadcast_progress, once a second: the answers, and then everything else of a row.
ProgressReads ==
    /\ found = NoPass /\ round # NoRound /\ \E c \in RowsOf(round) : round.done[c] = "asked"
    /\ found' = {a \in answers : a.bid = round.bid}
    /\ UNCHANGED <<living, status, heard, replying, gone, roundVars, summaryVars>>

Quiet(c) == c \in living /\ round.bid \notin question[c] /\ status[c] = "waiting"

\* With its last text or without any.
Verdict(c) ==
    IF [id |-> c, bid |-> round.bid] \in found THEN {"replied"}
    ELSE IF c \notin living THEN {"gone"}
    ELSE IF Quiet(c) /\ idle[c] = "settled" THEN {"fallback", "noanswer"} ELSE {"asked"}

Since(c) == IF ~Quiet(c) THEN "no" ELSE IF idle[c] = "no" THEN "since" ELSE idle[c]

ProgressJudges ==
    /\ found # NoPass
    /\ \E verdict \in [RowsOf(round) -> {"asked", "replied", "gone", "fallback", "noanswer"}] :
          /\ \A c \in RowsOf(round) :
                verdict[c] \in IF round.done[c] = "asked" THEN Verdict(c) ELSE {round.done[c]}
          /\ round' = [round EXCEPT !.done = verdict]
    /\ idle' = [c \in Picked |->
                   IF c \in RowsOf(round) /\ round.done[c] = "asked" THEN Since(c) ELSE idle[c]]
    /\ found' = NoPass
    /\ UNCHANGED <<living, status, question, heard, open, answers, replying, astray, asks, gone, summaryVars>>

SettleEnds(c) ==
    /\ idle[c] = "since" /\ idle' = [idle EXCEPT ![c] = "settled"]
    /\ UNCHANGED <<living, status, heard, replying, found, gone, question, open, answers, round, astray, asks, summaryVars>>

-----------------------------------------------------------------------------
(* The summary.                                                             *)

\* summarize, with an answer in: the child is spawned, and then put into RUNNING.
SummarySpawns ==
    /\ spawned = 0 /\ summaries < MaxSummaries
    /\ \E c \in RowsOf(round) : round.done[c] \in {"replied", "fallback"}
    /\ summaries' = summaries + 1 /\ spawned' = summaries + 1
    /\ running' = 0 /\ children' = (children \ {running}) \cup {summaries + 1}
    /\ UNCHANGED <<living, status, heard, replying, found, gone, roundVars>>

SummaryRuns ==
    /\ spawned # 0 /\ running' = spawned /\ spawned' = 0
    /\ UNCHANGED <<living, status, heard, replying, found, gone, roundVars, children, summaries>>

\* The child ends, or SUMMARY_TIMEOUT kills it.
ChildEnds(r) ==
    /\ r \in children /\ r # spawned /\ children' = children \ {r}
    /\ UNCHANGED <<living, status, heard, replying, found, gone, roundVars, running, spawned, summaries>>

\* take_if_ours
Ours(r) == running = r

SummaryEnded(r) == r \notin children

\* The reader sees the end of a child: only the one in RUNNING is announced.
SummaryAnnounced(r) ==
    /\ r \in 1 .. summaries /\ r # spawned /\ SummaryEnded(r) /\ Ours(r) /\ running' = 0
    /\ UNCHANGED <<living, status, heard, replying, found, gone, roundVars, spawned, children, summaries>>

-----------------------------------------------------------------------------
BroadcastNext ==
    \/ \E c \in Picked :
          \/ StatusChanges(c) \/ ReadsQuestions(c) \/ ReplySeesMarker(c) \/ ReplyLands(c)
          \/ RowGoes(c) \/ RowReturns(c) \/ SettleEnds(c)
    \/ BroadcastSend \/ BroadcastCancel \/ ProgressReads \/ ProgressJudges
    \/ SummarySpawns \/ SummaryRuns
    \/ \E r \in 1 .. MaxSummaries : ChildEnds(r) \/ SummaryAnnounced(r)

BroadcastSpec == BroadcastInit /\ [][BroadcastNext]_broadcastVars

\* The popup polls, the time passes, a child ends or is killed in time.
BroadcastFair ==
    /\ WF_broadcastVars(ProgressReads) /\ WF_broadcastVars(ProgressJudges)
    /\ \A c \in Picked : WF_broadcastVars(SettleEnds(c))
    /\ WF_broadcastVars(SummaryRuns)
    /\ \A r \in 1 .. MaxSummaries : WF_broadcastVars(ChildEnds(r)) /\ WF_broadcastVars(SummaryAnnounced(r))

BroadcastFairSpec == BroadcastSpec /\ BroadcastFair

-----------------------------------------------------------------------------
\* Every variable keeps its type, and whatever is open, asked or answered has a round.
BroadcastTypeOK ==
    /\ living \subseteq Picked /\ status \in [Picked -> {"waiting", "working"}]
    /\ RowsOf(round) \subseteq Picked /\ round.bid \in 0 .. asks
    /\ idle \in [Picked -> {"no", "since", "settled"}]
    /\ \A c \in Picked : question[c] \cup heard[c] \subseteq 1 .. asks /\ replying[c] \in 0 .. asks
    /\ \A a \in answers : <<Home[a.id], a.bid>> \in open
    /\ running \in 0 .. summaries /\ children \subseteq 1 .. summaries

\* docs/hub.md "a late or guessed answer is refused", and the questions nobody has read are
\* taken back: no question waits and no marker invites an answer of a round that is over,
\* but for the rounds that broadcast_send gave up half-way.
NothingIsLeftOver ==
    /\ \A d \in open : d[2] \in {round.bid} \cup astray
    /\ \A c \in Picked : question[c] \subseteq {round.bid} \cup astray

\* A row is given up only when its answer was not there as the pass began, even if the
\* claude closed or fell silent right after answering; and no verdict is taken back.
NoAnswerOverlooked ==
    [][round.bid = round'.bid => \A c \in RowsOf(round) :
          /\ round'.done[c] \in {"gone", "fallback", "noanswer"} /\ round.done[c] = "asked"
                => [id |-> c, bid |-> round.bid] \notin found
          /\ round.done[c] # "asked" => round'.done[c] = round.done[c]]_broadcastVars

\* docs/hub.md "sat waiting for 1.5 s with no answer file": a round does not wait for ever on
\* a claude that is gone, has answered, or sits idle with the question read.
RowsSettle ==
    \A c \in Picked :
        []<>~(/\ c \in RowsOf(round) /\ round.done[c] = "asked"
              /\ c \notin living \/ Quiet(c) \/ [id |-> c, bid |-> round.bid] \in answers)

\* The popup hears the end of the summary it waits for.
SummaryEnds == []<>(running = 0)

\* No question and no marker of a round that is over is left for a claude to answer
\* (broadcast_close).
BroadcastInv == BroadcastTypeOK /\ NothingIsLeftOver

\* A round ends and misses nobody: no answer is overlooked, no row is waited for for ever,
\* and the summary ends (broadcast_progress).
BroadcastLive == NoAnswerOverlooked /\ RowsSettle /\ SummaryEnds
=============================================================================
