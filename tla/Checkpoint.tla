----------------------------- MODULE Checkpoint -----------------------------
(***************************************************************************)
(* Checkpoint & Quit and the update ordered from another Mulpex            *)
(* (checkpoint.rs, remote_update.rs): every live claude is asked to stop,  *)
(* the round is called off or written to checkpoint.json before the app    *)
(* goes, and the next launch wakes who was asked.  The round is memory;    *)
(* the messages are files that the claudes take when they like.            *)
(***************************************************************************)
EXTENDS Naturals, FiniteSets

CONSTANTS
    Claudes,        \* the rows with a claude
    MaxRounds,      \* bound: the rounds, and the times the user saves one
    MaxLaunches,    \* bound: the launches of the app after the first
    MaxWork         \* bound: the turns that begin without a message

ASSUME CheckpointAssumption ==
    IsFiniteSet(Claudes) /\ {MaxRounds, MaxLaunches, MaxWork} \subseteq Nat

VARIABLES
    app,        \* "up", or "down" between two launches
    alive,      \* live_claude_ids
    rows,       \* the rows the next launch restores
    word,       \* "waiting", "working", or "background" (only_background_work)
    ears,       \* the claudes whose listener is up
    box,        \* the app's messages in the inbox of each
    reading,    \* the message take_inbox has read and not yet removed, or NoMessage
    told,       \* what the last message it read said: "stop" or "go"
    sent,       \* Checkpoint.sent: who was asked in this round, and the file
    saved,      \* checkpoint.json, or NoSaved
    queue,      \* Checkpoint.wake
    waited,     \* those in it who waited WAKE_WAIT
    run,        \* the update ordered from another Mulpex
    letGo,      \* those whose stop the app knowingly or unknowingly dropped
    rounds,     \* the rounds so far
    spent       \* the launches, the turns and the saves so far
checkpointVars ==
    <<app, alive, rows, word, ears, box, reading, told, sent, saved, queue, waited, run, letGo, rounds, spent>>
claudeVars == <<alive, rows, word, ears, reading, told>>

-----------------------------------------------------------------------------
StopMail(n) == [kind |-> "stop", no |-> n]
GoMail(n) == [kind |-> "go", no |-> n]
NoMessage == [kind |-> "none", no |-> 0]
NoSaved == [ids |-> {}, auto |-> FALSE]
NoRun == [phase |-> "none", cancel |-> FALSE]

\* hub_inbox returns them by their time: what was said of a round after its stop.
Later(m, n) == m.no > n.no \/ (m.no = n.no /\ m.kind = "go" /\ n.kind = "stop")

AskedToStop == {s.id : s \in sent}
Unread(s) == StopMail(s.no) \in box[s.id]

CheckpointInit ==
    /\ app = "up" /\ alive = Claudes /\ rows = Claudes
    /\ word = [c \in Claudes |-> "waiting"] /\ ears = Claudes
    /\ box = [c \in Claudes |-> {}] /\ reading = [c \in Claudes |-> NoMessage]
    /\ told = [c \in Claudes |-> "go"]
    /\ sent = {} /\ saved = NoSaved /\ queue = {} /\ waited = {}
    /\ run = NoRun /\ letGo = {} /\ rounds = 0 /\ spent = [launches |-> 0, work |-> 0, commits |-> 0]

-----------------------------------------------------------------------------
(* The claudes.                                                             *)

WordOf(c, w) == word' = [word EXCEPT ![c] = w]

\* The user's prompt, or an event: the turn is the user's, not a stop's.
TurnBegins(c) ==
    /\ c \in alive /\ word[c] # "working" /\ spent.work < MaxWork
    /\ WordOf(c, "working") /\ told' = [told EXCEPT ![c] = "go"]
    /\ spent' = [spent EXCEPT !.work = @ + 1]
    /\ UNCHANGED <<app, alive, rows, ears, box, reading, sent, saved, queue, waited, run, letGo, rounds>>

\* The listener announces the mail, or the Stop hook blocks for it.
MailBegins(c) ==
    /\ c \in alive /\ word[c] # "working" /\ c \in ears /\ box[c] # {}
    /\ WordOf(c, "working")
    /\ UNCHANGED <<app, alive, rows, ears, box, reading, told, sent, saved, queue, waited, run, letGo, rounds, spent>>

\* take_inbox, one file: its content, and then its removal.
Reads(c) ==
    /\ c \in alive /\ word[c] = "working" /\ reading[c] = NoMessage
    /\ \E m \in box[c] : (\A n \in box[c] : n = m \/ Later(n, m)) /\ reading' = [reading EXCEPT ![c] = m]
    /\ UNCHANGED <<app, alive, rows, word, ears, box, told, sent, saved, queue, waited, run, letGo, rounds, spent>>

Removes(c) ==
    /\ c \in alive /\ reading[c] # NoMessage
    /\ box' = [box EXCEPT ![c] = @ \ {reading[c]}]
    /\ told' = [told EXCEPT ![c] = reading[c].kind]
    /\ reading' = [reading EXCEPT ![c] = NoMessage]
    /\ UNCHANGED <<app, alive, rows, word, ears, sent, saved, queue, waited, run, letGo, rounds, spent>>

TurnEnds(c) ==
    /\ c \in alive /\ word[c] = "working" /\ reading[c] = NoMessage
    /\ \E w \in {"waiting", "background"} : WordOf(c, w)
    /\ UNCHANGED <<app, alive, rows, ears, box, reading, told, sent, saved, queue, waited, run, letGo, rounds, spent>>

ListenerStarts(c) ==
    /\ c \in alive \ ears /\ ears' = ears \cup {c}
    /\ UNCHANGED <<app, alive, rows, word, box, reading, told, sent, saved, queue, waited, run, letGo, rounds, spent>>
ListenerDies(c) ==
    /\ c \in ears /\ ears' = ears \ {c}
    /\ UNCHANGED <<app, alive, rows, word, box, reading, told, sent, saved, queue, waited, run, letGo, rounds, spent>>

\* Its row is closed: the inbox goes with it.
Exits(c) ==
    /\ c \in alive /\ app = "up"
    /\ alive' = alive \ {c} /\ rows' = rows \ {c} /\ ears' = ears \ {c}
    /\ box' = [box EXCEPT ![c] = {}] /\ reading' = [reading EXCEPT ![c] = NoMessage]
    /\ UNCHANGED <<app, word, told, sent, saved, queue, waited, run, letGo, rounds, spent>>

-----------------------------------------------------------------------------
(* The round.                                                               *)

Round(n) == {[id |-> c, no |-> n] : c \in alive}

\* checkpoint_stop: everyone alive is asked, and an earlier round is forgotten, with the
\* files of it that nobody has read: which of the two it was is not remembered.
Asks ==
    /\ rounds < MaxRounds /\ rounds' = rounds + 1
    /\ box' = [c \in Claudes |-> IF c \in alive THEN box[c] \cup {StopMail(rounds + 1)} ELSE box[c]]
    /\ sent' = Round(rounds + 1)
    /\ letGo' = letGo \cup AskedToStop

\* Mutant: a claude that has read it is not told to carry on.
Released_Unread(c) == box[c] \ {StopMail(s.no) : s \in {s \in sent : s.id = c}}

\* checkpoint_cancel, for one claude: what it has not read is taken back, else it is told
\* to carry on.
Released(c) ==
    LET mine == {s \in sent : s.id = c}
    IN  IF \E s \in mine : Unread(s) THEN box[c] \ {StopMail(s.no) : s \in mine}
        ELSE IF mine # {} /\ c \in alive THEN box[c] \cup {GoMail(rounds)} ELSE box[c]

\* checkpoint_cancel; who was just reading the file is told nothing.
CallsOff ==
    /\ box' = [c \in Claudes |-> Released(c)] /\ sent' = {}
    /\ letGo' = letGo \cup {c \in Claudes : \E s \in sent : s.id = c /\ reading[c] = StopMail(s.no)}

Entries == AskedToStop \cap alive

\* checkpoint_commit: an earlier file is written over.
Commits(auto) ==
    /\ saved' = IF Entries = {} THEN NoSaved ELSE [ids |-> Entries, auto |-> auto]
    /\ letGo' = letGo \cup (saved.ids \ Entries)

\* The panel of this window, or of another Mulpex on this one.
UserAsks ==
    /\ app = "up" /\ Asks
    /\ UNCHANGED <<app, claudeVars, saved, queue, waited, run, spent>>
UserCallsOff ==
    /\ app = "up" /\ sent # {} /\ CallsOff
    /\ UNCHANGED <<app, claudeVars, saved, queue, waited, run, rounds, spent>>
UserCommits ==
    /\ app = "up" /\ sent # {} /\ spent.commits < MaxRounds /\ \E auto \in BOOLEAN : Commits(auto)
    /\ spent' = [spent EXCEPT !.commits = @ + 1]
    /\ UNCHANGED <<app, claudeVars, box, sent, queue, waited, run, rounds>>

\* finishCheckpoint, after an update that failed, and "Not now".
Dismisses ==
    /\ app = "up" /\ saved # NoSaved /\ saved' = NoSaved
    /\ letGo' = letGo \cup saved.ids
    /\ UNCHANGED <<app, claudeVars, box, sent, queue, waited, run, rounds, spent>>

-----------------------------------------------------------------------------
(* The update ordered from another Mulpex, when no claude survives it:      *)
(* remote_update.rs drive.                                                  *)

\* stopped_rule
Stopped(s) ==
    IF Unread(s) THEN word[s.id] = "waiting" /\ s.id \notin ears
    ELSE word[s.id] \in {"waiting", "background"}

\* checkpoint_not_stopped
Left == {s \in sent : s.id \in alive /\ ~Stopped(s)}

Ordered ==
    /\ app = "up" /\ run.phase = "none" /\ Asks
    /\ run' = [NoRun EXCEPT !.phase = "stopping"]
    /\ UNCHANGED <<app, claudeVars, saved, queue, waited, spent>>

OrderCancelled ==
    /\ app = "up" /\ run.phase # "none" /\ ~run.cancel
    /\ run' = [run EXCEPT !.cancel = TRUE]
    /\ UNCHANGED <<app, claudeVars, box, sent, saved, queue, waited, letGo, rounds, spent>>

\* undo: any way out that does not restart un-stops them.
Undone == CallsOff /\ run' = NoRun

Cancelled == run.cancel

\* One pass of the loop; two in a row without anyone left end it (SETTLE).
RunPolls ==
    /\ app = "up" /\ run.phase \in {"stopping", "clear"}
    /\ IF Cancelled THEN Undone
       ELSE /\ run' = [run EXCEPT !.phase = IF Left # {} THEN "stopping"
                                            ELSE IF @ = "clear" THEN "loading" ELSE "clear"]
            /\ UNCHANGED <<box, sent, letGo>>
    /\ UNCHANGED <<app, claudeVars, saved, queue, waited, rounds, spent>>

\* download and install, or their failure; then checkpoint_commit(true).
RunInstalls ==
    /\ app = "up" /\ run.phase = "loading"
    /\ \/ Undone /\ UNCHANGED saved
       \/ /\ ~run.cancel /\ Commits(TRUE)
          /\ run' = [run EXCEPT !.phase = "restarting"]
          /\ UNCHANGED <<box, sent>>
    /\ UNCHANGED <<app, claudeVars, queue, waited, rounds, spent>>

-----------------------------------------------------------------------------
(* The app ends and comes back.                                             *)

\* What only the memory knew is forgotten.
Forgotten == (AskedToStop \cup queue) \ saved.ids

AppEnds(unread) ==
    /\ app = "up" /\ spent.launches < MaxLaunches
    /\ app' = "down" /\ sent' = {} /\ queue' = {} /\ waited' = {} /\ run' = NoRun
    /\ letGo' = letGo \cup Forgotten \cup unread
    /\ UNCHANGED <<rows, told, saved, rounds, spent>>

\* teardown_all: the claudes end, and the scratch root with every inbox goes.
Quits ==
    /\ AppEnds({c \in Claudes : box[c] # {}})
    /\ alive' = {} /\ ears' = {} /\ word' = [c \in Claudes |-> "waiting"]
    /\ box' = [c \in Claudes |-> {}] /\ reading' = [c \in Claudes |-> NoMessage]

\* The app dies; the daemon keeps the claudes, and the inboxes stay.
Crashes == AppEnds({}) /\ UNCHANGED <<alive, ears, word, box, reading>>

\* match_saved
Back == saved.ids \cap alive

\* checkpoint_wake forgets the file.
Kept == NoSaved

\* checkpoint_wake: who is not back yet will not be woken when it is.
QueuesBack(woken) ==
    /\ queue' = queue \cup woken /\ waited' = waited \ woken
    /\ saved' = Kept /\ letGo' = letGo \cup (saved.ids \ woken)

\* Core::open restores the rows (some fail to start), and checkpoint_auto_wake.
Launches ==
    /\ app = "down" /\ app' = "up"
    /\ spent' = [spent EXCEPT !.launches = @ + 1]
    /\ \E started \in SUBSET (rows \ alive) :
          /\ alive' = alive \cup started
          /\ LET woken == saved.ids \cap (alive \cup started)
             IN  IF saved.auto THEN QueuesBack(woken) ELSE UNCHANGED <<queue, waited, saved, letGo>>
    /\ UNCHANGED <<rows, word, ears, box, reading, told, sent, run, rounds>>

\* A row that failed to start is tried again.
Retries(c) ==
    /\ app = "up" /\ c \in rows \ alive /\ alive' = alive \cup {c}
    /\ UNCHANGED <<app, rows, word, ears, box, reading, told, sent, saved, queue, waited, run, letGo, rounds, spent>>

\* "Wake all"
WakesAll ==
    /\ app = "up" /\ saved # NoSaved /\ Back # {} /\ QueuesBack(Back)
    /\ UNCHANGED <<app, claudeVars, box, sent, run, rounds, spent>>

WaitEnds(c) ==
    /\ app = "up" /\ c \in queue \ waited /\ waited' = waited \cup {c}
    /\ UNCHANGED <<app, claudeVars, box, sent, saved, queue, run, letGo, rounds, spent>>

\* Mutant: it waits for the listener however long.
Hears_Listener(c) == c \in ears

Hears(c) == c \in ears \cup waited

\* drain_wake_queue
Drains ==
    /\ app = "up" /\ queue # {}
    /\ LET heard == {c \in queue \cap alive : Hears(c)}
       IN  /\ box' = [c \in Claudes |-> IF c \in heard THEN box[c] \cup {GoMail(rounds)} ELSE box[c]]
           /\ queue' = (queue \cap alive) \ heard
    /\ letGo' = letGo \cup (queue \ alive)
    /\ UNCHANGED <<app, claudeVars, sent, saved, waited, run, rounds, spent>>

-----------------------------------------------------------------------------
CheckpointNext ==
    \/ \E c \in Claudes :
          \/ TurnBegins(c) \/ MailBegins(c) \/ Reads(c) \/ Removes(c) \/ TurnEnds(c)
          \/ ListenerStarts(c) \/ ListenerDies(c) \/ Exits(c) \/ Retries(c) \/ WaitEnds(c)
    \/ UserAsks \/ UserCallsOff \/ UserCommits \/ Dismisses \/ WakesAll
    \/ Ordered \/ OrderCancelled \/ RunPolls \/ RunInstalls
    \/ Quits \/ Crashes \/ Launches \/ Drains

CheckpointSpec == CheckpointInit /\ [][CheckpointNext]_checkpointVars

\* The poll loop and the update's thread run, the wait for a listener ends.
CheckpointFair ==
    /\ WF_checkpointVars(Drains) /\ WF_checkpointVars(RunPolls) /\ WF_checkpointVars(RunInstalls)
    /\ \A c \in Claudes : WF_checkpointVars(WaitEnds(c))

CheckpointFairSpec == CheckpointSpec /\ CheckpointFair

-----------------------------------------------------------------------------
\* Every variable keeps its type, a round asks a claude once, and nothing but the file
\* outlives the app.
CheckpointTypeOK ==
    /\ app \in {"up", "down"} /\ alive \subseteq rows /\ rows \subseteq Claudes /\ ears \subseteq alive
    /\ word \in [Claudes -> {"waiting", "working", "background"}]
    /\ told \in [Claudes -> {"stop", "go"}]
    /\ \A s \in sent : s.id \in Claudes /\ s.no \in 1 .. rounds /\ \A t \in sent : t.id = s.id => t = s
    /\ saved.ids \subseteq Claudes /\ saved.auto \in BOOLEAN
    /\ queue \cup waited \cup letGo \subseteq Claudes
    /\ run.phase \in {"none", "stopping", "clear", "loading", "restarting"}
    /\ app = "down" => sent = {} /\ queue = {} /\ run = NoRun

Remembered == AskedToStop \cup saved.ids \cup queue \cup letGo

\* docs/sessions.md "tells the ones that read it to carry on": a live claude that was told
\* to stop is in the round, in the file, on its way to be woken, or told otherwise; but
\* for the ones that were let go: by "Not now", with an app that ended in the round or before the mail was read, by a
\* second round over an earlier one, while they were just reading, or not back in time.
StoppedIsRemembered ==
    app = "up" => \A c \in alive :
        told[c] = "stop" => c \in Remembered \/ \E m \in box[c] : m.kind = "go"

\* docs/sessions.md "Cancel takes back every stop message still unread": no message of a
\* round that is over waits to stop a claude for nothing.
NoStopIsLeft ==
    \A c \in Claudes : \A m \in box[c] :
        m.kind = "stop" => c \in Remembered \/ \E n \in box[c] : n.kind = "go" /\ Later(n, m)

\* Who is queued is woken or gone in the end, whether or not its listener comes up.
WakeComes == []<>(queue = {})

\* An order that was called off ends, whoever is still at work.
CancelEndsTheRun == []<>~(run.cancel /\ run.phase \in {"stopping", "clear"})

\* Whoever was told to stop is remembered until it is told to go on, and no message waits
\* to stop a claude for a round that is over (checkpoint.rs).
CheckpointInv == CheckpointTypeOK /\ StoppedIsRemembered /\ NoStopIsLeft

\* The queue of those to be woken empties, and an order that was called off ends.
CheckpointLive == WakeComes /\ CancelEndsTheRun
=============================================================================
