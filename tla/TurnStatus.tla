----------------------------- MODULE TurnStatus -----------------------------
(***************************************************************************)
(* The status word of one claude: the file state_dir/<id> that the sidebar,*)
(* its peers and the app's own decisions read, and the flags beside it     *)
(* (bg, compacting, quiet turn).                                           *)
(*                                                                         *)
(* Nobody owns the word.  The claude runs a hook process (hook.rs) at each *)
(* event of its turn and waits for it; a background agent's tool calls run *)
(* hooks of their own at the same time; so does a notification, whenever   *)
(* the runtime sends one; and the app's poll loop clears a dialog that was *)
(* escaped.  Each reads files, decides, and writes later, so that one may  *)
(* overwrite a word it never read.                                         *)
(*                                                                         *)
(* Abstracted: of the background work, whether there is any; of the inbox, *)
(* what a Stop finds in it; the notes a hook prints; locks (FileLocks); a  *)
(* requested compaction's phases; the watching, relisten and peers files,  *)
(* which no status depends on.  Codex rows are not modelled.               *)
(***************************************************************************)
EXTENDS Naturals, FiniteSets

CONSTANT Overlap    \* bound: the hook processes that run at a time

ASSUME OverlapAssumption == Overlap \in Nat \ {0}

VARIABLES
    word,       \* state_dir/<id>, "none" if there is no such file
    bg,         \* bg/<id> exists
    newer,      \* ... and was written after the word
    compacting, \* compacting/<id>: its trigger
    quiet,      \* quietturn/<id> exists
    turn,       \* what the claude is doing
    acted,      \* the turn is the user's, or did more than re-arm its listener
    work,       \* the background work: "over" until the claude has been told of it
    continued,  \* a Stop of this turn was blocked (stop_hook_active)
    nudge,      \* a notification is to come
    orphan,     \* the last run's listener is to be reported dead, first of all
    logged,     \* the transcript has come to the dialog on file
    verdict,    \* what it says of the last dialog it has
    hook,       \* the hook processes, and the app's pass
    stale,      \* those whose reading of the word is out of date, or of a lost word
    lost        \* the word was last written by one of them, or by a notification
                \* out of time

files == <<word, bg, newer, compacting, quiet>>
claude == <<turn, acted, work, continued, nudge, orphan>>
transcript == <<logged, verdict>>
procs == <<hook, stale, lost>>
vars == <<files, claude, transcript, procs>>

Word == {"none", "working", "waiting", "needs"}
Slot == {"main", "agent", "note", "app"}
Dismissed == {"waiting", "working"}
Trigger == {"manual", "auto"}

Step == {"rest", "prior", "working", "uncompact", "restore", "swallow", "tool", "decide",
         "dialog", "needs", "stop", "mail", "goon", "endflag", "preword",
         "compacted", "uncompacted", "nlook", "nflags", "nwrite", "judge", "clear"} \cup Trigger

\* Between its reading the word and the last write that depends on it.
Reading == {"working", "uncompact", "restore", "swallow", "decide", "nflags", "nwrite",
            "judge", "clear"}

Arg == {"none", "user", "task", "orphan", "tool", "rearm", "dialog", "busy", "free"}
Process == [at : Step, saw : Word, arg : Arg]

Rest == [at |-> "rest", saw |-> "none", arg |-> "none"]

TypeOK ==
    /\ word \in Word /\ bg \in BOOLEAN /\ newer \in BOOLEAN
    /\ compacting \in Trigger \cup {"no"} /\ quiet \in BOOLEAN
    /\ turn \in {"idle", "running", "dialog"} \cup Trigger
    /\ acted \in BOOLEAN /\ work \in {"none", "running", "over"}
    /\ continued \in BOOLEAN /\ nudge \in BOOLEAN /\ orphan \in BOOLEAN
    /\ logged \in BOOLEAN
    /\ verdict \in {"none", "open"} \cup Dismissed
    /\ hook \in [Slot -> Process]
    /\ stale \subseteq Slot /\ lost \in BOOLEAN

Init ==
    /\ word = "none" /\ bg = FALSE /\ newer = FALSE /\ compacting = "no"
    /\ quiet = FALSE
    /\ turn = "idle" /\ acted = FALSE /\ work = "none"
    /\ continued = FALSE /\ nudge = FALSE /\ orphan = TRUE
    /\ logged = FALSE /\ verdict = "none"
    /\ hook = [s \in Slot |-> Rest] /\ stale = {} /\ lost = FALSE

-----------------------------------------------------------------------------
(* Processes.                                                              *)

At(s, step) == hook[s].at = step
Free(s) == hook[s] = Rest

\* What a step does to the process that takes it.
Going(s, step) == hook' = [hook EXCEPT ![s].at = step]
Ending(s) == hook' = [hook EXCEPT ![s] = Rest]
Seeing(s, w, step) == hook' = [hook EXCEPT ![s].saw = w, ![s].at = step]

Begin(s, step, arg) ==
    /\ Free(s) /\ Cardinality({h \in Slot \ {"app"} : ~Free(h)}) < Overlap
    /\ hook' = [hook EXCEPT ![s] = [at |-> step, saw |-> "none", arg |-> arg]]
    /\ UNCHANGED <<stale, lost>>

Go(s, step) == Going(s, step) /\ UNCHANGED <<stale, lost>>
Done(s) == Ending(s) /\ stale' = stale \ {s} /\ UNCHANGED lost
See(s, step) ==
    /\ Seeing(s, word, step)
    /\ stale' = (IF lost THEN stale \cup {s} ELSE stale \ {s})
    /\ UNCHANGED lost

\* What a notification makes of a word it read.
NotifyStatus(saw) ==
    CASE saw = "needs" -> "needs"
      [] saw # "needs" /\ (bg \/ compacting # "no") -> "working"
      [] OTHER -> "waiting"

\* A notification whose turn is over and the next one running, whose flag has
\* changed, or that comes between the two writes that end a compaction.
OutOfTime(w) ==
    turn = "running" \/ At("main", "uncompacted") \/ w \notin {"needs", NotifyStatus("none")}

\* Process s overwrites the word: whoever has read it and is not done is stale now.
Overwrite(s, w) ==
    /\ word' = w /\ newer' = FALSE
    /\ stale' = {h \in Slot : hook'[h].at \in Reading /\ (h # s \/ h \in stale)}

\* ... with what an event of the turn always writes,
Set(w) == Overwrite("main", w) /\ lost' = FALSE

\* ... or as it decided by what it read.
Write(s, w) == Overwrite(s, w) /\ lost' = (s \in stale \/ (s = "note" /\ OutOfTime(w)))

EndTurn == turn' = "idle" /\ acted' = FALSE /\ continued' = FALSE

-----------------------------------------------------------------------------
(* userpromptsubmit: a prompt of the user, or one the runtime injects: a   *)
(* hub wake, an expired monitor, finished background work ("task"), or the *)
(* report that the last run's listener is dead.                            *)

Submit(kind) ==
    /\ turn = "idle" /\ Begin("main", "prior", kind)
    /\ kind = "orphan" => orphan
    /\ turn' = "running" /\ acted' = (kind = "user")
    /\ orphan' = FALSE
    /\ nudge' = FALSE
    /\ work' = (IF kind = "task" /\ work = "over" THEN "none" ELSE work)
    /\ UNCHANGED <<continued, files, transcript>>

ReadPrior ==
    /\ At("main", "prior") /\ See("main", "working")
    /\ UNCHANGED <<files, claude, transcript>>

MarkWorking ==
    /\ At("main", "working") /\ Going("main", "uncompact") /\ Set("working")
    /\ UNCHANGED <<bg, compacting, quiet, claude, transcript>>

Uncompact ==
    /\ At("main", "uncompact") /\ compacting' = "no"
    /\ IF hook["main"].arg = "user" THEN Done("main") /\ quiet' = FALSE
                                    ELSE Go("main", "restore") /\ UNCHANGED quiet
    /\ UNCHANGED <<word, bg, newer, claude, transcript>>

Restore ==
    /\ At("main", "restore")
    /\ IF hook["main"].arg = "orphan" THEN Going("main", "swallow") ELSE Ending("main")
    /\ Write("main", hook["main"].saw) /\ quiet' = TRUE
    /\ UNCHANGED <<bg, compacting, claude, transcript>>

\* A restart in place asked for this wake (resumed/<id>) ...
Sanctioned ==
    /\ At("main", "swallow") /\ Done("main")
    /\ UNCHANGED <<files, claude, transcript>>

\* ... and otherwise it is blocked: the turn never runs, and no Stop follows.
Swallowed ==
    /\ At("main", "swallow")
    /\ Ending("main") /\ Write("main", hook["main"].saw) /\ EndTurn
    /\ UNCHANGED <<bg, compacting, quiet, work, nudge, orphan, transcript>>

-----------------------------------------------------------------------------
(* posttooluse, of the claude's own calls and of a background agent's.     *)

ToolDone(arg) ==
    /\ turn = "running" /\ Begin("main", "tool", arg)
    /\ acted' = (acted \/ arg = "tool")
    /\ UNCHANGED <<turn, work, continued, nudge, orphan, files, transcript>>

\* The user answers the dialog: its own tool call is done.
Answer ==
    /\ turn = "dialog" /\ logged /\ verdict = "open" /\ Begin("main", "tool", "dialog")
    /\ turn' = "running" /\ verdict' = "none"
    /\ UNCHANGED <<acted, work, continued, nudge, orphan, files, logged>>

AgentTool ==
    /\ work = "running" /\ Begin("agent", "tool", "tool")
    /\ UNCHANGED <<claude, files, transcript>>

Unhush(s) ==
    /\ At(s, "tool")
    /\ IF quiet /\ hook[s].arg = "rearm" THEN Done(s) /\ UNCHANGED quiet
                                         ELSE See(s, "decide") /\ quiet' = FALSE
    /\ UNCHANGED <<word, bg, newer, compacting, claude, transcript>>

WorkOn(s) ==
    /\ At(s, "decide")
    /\ IF hook[s].saw = "needs" /\ hook[s].arg # "dialog"
       THEN Done(s) /\ UNCHANGED <<word, newer>>
       ELSE Ending(s) /\ Write(s, "working")
    /\ UNCHANGED <<bg, compacting, quiet, claude, transcript>>

-----------------------------------------------------------------------------
(* askq and plan: a question, or a plan to approve.                        *)

Ask ==
    /\ turn = "running" /\ Begin("main", "dialog", "none")
    /\ acted' = TRUE
    /\ UNCHANGED <<turn, work, continued, nudge, orphan, files, transcript>>

WriteDialog ==
    /\ At("main", "dialog") /\ Go("main", "needs") /\ logged' = FALSE
    /\ UNCHANGED <<files, claude, verdict>>

WriteNeeds ==
    /\ At("main", "needs") /\ Ending("main") /\ Set("needs") /\ quiet' = FALSE
    /\ turn' = "dialog" /\ nudge' = TRUE
    /\ UNCHANGED <<bg, compacting, acted, work, continued, orphan, transcript>>

\* The transcript follows, some 100 ms behind.
LogDialog ==
    /\ turn = "dialog" /\ ~logged /\ logged' = TRUE /\ verdict' = "open"
    /\ UNCHANGED <<files, claude, procs>>

\* Esc ends the turn, or feedback sends the claude on; neither runs a hook.  Until
\* the transcript's next line says which, the dialog counts as open.
Escape ==
    /\ turn = "dialog" /\ logged /\ EndTurn /\ nudge' = TRUE /\ verdict' = "waiting"
    /\ UNCHANGED <<work, orphan, files, logged, procs>>

Reject ==
    /\ turn = "dialog" /\ logged /\ turn' = "running" /\ verdict' = "working"
    /\ UNCHANGED <<acted, work, continued, nudge, orphan, files, logged, procs>>

-----------------------------------------------------------------------------
(* stop.                                                                   *)

StopTurn ==
    /\ turn = "running" /\ Begin("main", "stop", IF work = "running" THEN "busy" ELSE "free")
    /\ UNCHANGED <<claude, files, transcript>>

StopCompacting ==
    /\ At("main", "stop") /\ Go("main", "mail") /\ compacting' = "no"
    /\ UNCHANGED <<word, bg, newer, quiet, claude, transcript>>

SetBg == bg' = (hook["main"].arg = "busy") /\ newer' = (hook["main"].arg = "busy")

\* There is unread mail: the turn goes on, once ...
BlockFlag ==
    /\ At("main", "mail") /\ ~continued /\ Go("main", "goon") /\ SetBg
    /\ UNCHANGED <<word, compacting, quiet, claude, transcript>>

\* Mutant: the flag last, as at the end of a turn.
BlockWord_FlagLast ==
    /\ At("main", "goon") /\ word' = "working" /\ newer' = bg
    /\ lost' = FALSE /\ stale' = {h \in Slot \ {"main"} : hook[h].at \in Reading}
    /\ Ending("main") /\ continued' = TRUE
    /\ UNCHANGED <<bg, compacting, quiet, turn, acted, work, nudge, orphan,
                   transcript>>

BlockWord ==
    /\ At("main", "goon") /\ Ending("main") /\ Set("working")
    /\ continued' = TRUE
    /\ UNCHANGED <<bg, compacting, quiet, turn, acted, work, nudge, orphan,
                   transcript>>

\* ... or it ends: the word first, and then the flag.
EndWord ==
    /\ At("main", "mail") /\ Going("main", "endflag") /\ quiet' = FALSE
    /\ Set(IF hook["main"].arg = "busy" THEN "working" ELSE "waiting")
    /\ UNCHANGED <<bg, compacting, claude, transcript>>

EndFlag ==
    /\ At("main", "endflag") /\ Done("main") /\ SetBg
    /\ EndTurn /\ nudge' = TRUE
    /\ UNCHANGED <<word, compacting, quiet, work, orphan, transcript>>

-----------------------------------------------------------------------------
(* precompact and the sessionstart that ends a compaction.                 *)

Compact(trigger) ==
    /\ turn = (IF trigger = "manual" THEN "idle" ELSE "running")
    /\ Begin("main", trigger, "none")
    /\ turn' = trigger /\ nudge' = TRUE /\ orphan' = FALSE
    /\ UNCHANGED <<acted, work, continued, files, transcript>>

PreFlag ==
    /\ hook["main"].at \in Trigger /\ Go("main", "preword") /\ compacting' = hook["main"].at
    /\ UNCHANGED <<word, bg, newer, quiet, claude, transcript>>

PreWord ==
    /\ At("main", "preword") /\ Ending("main") /\ Set("working")
    /\ UNCHANGED <<bg, compacting, quiet, claude, transcript>>

CompactEnds ==
    /\ turn \in Trigger /\ Begin("main", "compacted", "none")
    /\ UNCHANGED <<claude, files, transcript>>

CompactedWord ==
    /\ At("main", "compacted") /\ Going("main", "uncompacted")
    /\ Set(IF compacting = "auto" THEN "working" ELSE "waiting")
    /\ UNCHANGED <<bg, compacting, quiet, claude, transcript>>

CompactedFlag ==
    /\ At("main", "uncompacted") /\ Done("main") /\ compacting' = "no"
    /\ turn' = IF turn = "manual" THEN "idle" ELSE "running"
    /\ UNCHANGED <<word, bg, newer, quiet, acted, work, continued, nudge,
                   orphan, transcript>>

\* Refused ("Not enough messages to compact") or interrupted: no hook says so.
CompactFails ==
    /\ turn \in Trigger /\ Free("main") /\ EndTurn /\ nudge' = TRUE
    /\ UNCHANGED <<work, orphan, files, transcript, procs>>

-----------------------------------------------------------------------------
(* notification: 60 s after a turn's end, or 6 s after a dialog opened; the *)
(* app polls many times meanwhile.                                         *)

Notify ==
    /\ nudge /\ turn # "running" /\ ~(word = "needs" /\ logged /\ verdict \in Dismissed)
    /\ Free("app") /\ Begin("note", "nlook", "none") /\ nudge' = FALSE
    /\ UNCHANGED <<turn, acted, work, continued, orphan, files, transcript>>

NoteLook ==
    /\ At("note", "nlook") /\ See("note", "nflags")
    /\ UNCHANGED <<files, claude, transcript>>

NoteFlags ==
    /\ At("note", "nflags")
    /\ Seeing("note", NotifyStatus(hook["note"].saw), "nwrite")
    /\ UNCHANGED <<stale, lost, files, claude, transcript>>

NoteWrite ==
    /\ At("note", "nwrite") /\ Ending("note") /\ Write("note", hook["note"].saw)
    /\ UNCHANGED <<bg, compacting, quiet, claude, transcript>>

-----------------------------------------------------------------------------
(* clear_escaped_dialogs, in each tick of the app's poll loop.             *)

AppLook ==
    /\ word = "needs" /\ Free("app")
    /\ See("app", "judge")
    /\ UNCHANGED <<files, claude, transcript>>

\* Mutant: a dismissal counts although it may be of the dialog before.
AppJudge_AnyDialog ==
    /\ At("app", "judge")
    /\ IF verdict \in Dismissed
       THEN Seeing("app", verdict, "clear") /\ UNCHANGED <<stale, lost>>
       ELSE Done("app")
    /\ UNCHANGED <<files, claude, transcript>>

\* Mutant: only an escape counts.
AppJudge_EscapeOnly ==
    /\ At("app", "judge")
    /\ IF logged /\ verdict = "waiting"
       THEN Seeing("app", verdict, "clear") /\ UNCHANGED <<stale, lost>>
       ELSE Done("app")
    /\ UNCHANGED <<files, claude, transcript>>

AppJudge ==
    /\ At("app", "judge")
    /\ IF logged /\ verdict \in Dismissed
       THEN Seeing("app", verdict, "clear") /\ UNCHANGED <<stale, lost>>
       ELSE Done("app")
    /\ UNCHANGED <<files, claude, transcript>>

AppClear ==
    /\ At("app", "clear") /\ Ending("app") /\ Write("app", hook["app"].saw)
    /\ UNCHANGED <<bg, compacting, quiet, claude, transcript>>

-----------------------------------------------------------------------------
(* The claude, its user and its background work.                           *)

\* Esc ends a turn without a Stop.
Interrupt ==
    /\ turn = "running" /\ Free("main") /\ EndTurn /\ nudge' = TRUE
    /\ UNCHANGED <<work, orphan, files, transcript, procs>>

\* A tool call of the turn starts it; it is over once its own last hook is.
WorkStarts ==
    /\ turn = "running" /\ Free("main") /\ work = "none" /\ work' = "running"
    /\ UNCHANGED <<turn, acted, continued, nudge, orphan, files, transcript, procs>>

WorkEnds ==
    /\ work = "running" /\ Free("agent") /\ work' = "over"
    /\ UNCHANGED <<turn, acted, continued, nudge, orphan, files, transcript, procs>>

Anew ==
    /\ EndTurn /\ work' = "none" /\ nudge' = FALSE /\ orphan' = TRUE
    /\ word' = "none" /\ newer' = FALSE /\ stale' = {} /\ lost' = FALSE
    /\ hook' = [s \in Slot |-> Rest]

\* A restart in place kills the claude and its hooks; of the files that say what
\* it does, only the word goes.
Restart ==
    /\ Free("app") /\ Anew
    /\ UNCHANGED <<bg, compacting, quiet, transcript>>

\* The app quit and opened again: the scratch directory is new.
Relaunch ==
    /\ Anew
    /\ bg' = FALSE /\ compacting' = "no" /\ quiet' = FALSE
    /\ logged' = FALSE /\ UNCHANGED verdict

-----------------------------------------------------------------------------
Prompt ==
    \/ ReadPrior \/ MarkWorking \/ Uncompact \/ Restore \/ Sanctioned \/ Swallowed

Dialog == WriteDialog \/ WriteNeeds

Stop == StopCompacting \/ BlockFlag \/ BlockWord \/ EndWord \/ EndFlag

Compaction == PreFlag \/ PreWord \/ CompactedWord \/ CompactedFlag

PostToolUse(s) == Unhush(s) \/ WorkOn(s)

Main == Prompt \/ Dialog \/ Stop \/ Compaction \/ PostToolUse("main")
Agent == PostToolUse("agent")
Notification == NoteLook \/ NoteFlags \/ NoteWrite
App == AppLook \/ AppJudge \/ AppClear

Event ==
    \/ \E kind \in {"user", "task", "orphan"} : Submit(kind)
    \/ \E arg \in {"tool", "rearm"} : ToolDone(arg)
    \/ Answer \/ AgentTool \/ Ask \/ Escape \/ Reject \/ StopTurn
    \/ \E trigger \in Trigger : Compact(trigger)
    \/ CompactEnds \/ CompactFails \/ Interrupt \/ WorkStarts \/ WorkEnds
    \/ Restart \/ Relaunch

Next == Main \/ Agent \/ Notification \/ App \/ LogDialog \/ Notify \/ Event

Spec == Init /\ [][Next]_vars

\* A started hook runs on, the poll loop polls, the transcript is written, and
\* the runtime sends the notifications and completions that are due.
Fairness ==
    /\ WF_vars(Main) /\ WF_vars(Agent) /\ WF_vars(Notification) /\ WF_vars(App)
    /\ WF_vars(LogDialog) /\ WF_vars(Notify) /\ WF_vars(work = "over" /\ Submit("task"))

FairSpec == Spec /\ Fairness

-----------------------------------------------------------------------------
(* Properties.                                                             *)

\* A dialog on screen shows as `needs`, whatever its own permission_prompt, a
\* background agent's tool calls and the app make of the word meanwhile, unless
\* one of them overwrote a word it had not read (hook.rs 1457-1492).
DialogShown == turn = "dialog" /\ ~lost => word = "needs"

\* A turn that does more than re-arm its listener shows as `working` between its
\* hooks, quiet as it may have begun (hook.rs 1778-1780), with the same exception,
\* and that of a dismissed dialog the app had not dealt with as the turn began.
TurnShown ==
    turn = "running" /\ acted /\ ~lost /\ Free("main") =>
      word = "working" \/ (verdict \in Dismissed /\ word \in {"needs", verdict})

\* A turn in progress is never taken for one that is over with only background
\* work left, which ⌘S and a remote update would kill (lib.rs 141-148).
OnlyBackgroundWork == word # "none" /\ bg /\ newer

BackgroundIsOver ==
    OnlyBackgroundWork /\ word = "working" /\ Free("main") => turn # "running"

\* A claude that stays idle does not stay `working`, however its last turn ended
\* (hook.rs 1197-1199), while no flag says that something is going on.
StaleWorkingEnds ==
    <>[](turn = "idle" /\ work = "none" /\ ~bg /\ compacting = "no" /\ ~lost) =>
      []<>(word # "working")

\* A dialog that was dismissed does not show for good, although no hook says so
\* (state.rs 2978-2984).
DismissalIsSeen == []<>~(word = "needs" /\ logged /\ verdict \in Dismissed)

\* The word tells what the turn does: an open dialog shows as `needs`, the word and the
\* flags keep their types under any overlap of hooks (status, tool_answered, notification).
WordInv == TypeOK /\ DialogShown

\* A turn at work shows as such and is not taken for background work (lib.rs 141-148).
TurnInv == TurnShown /\ BackgroundIsOver

\* A word that is no longer true does not stay: neither `working` after an interrupted turn
\* nor `needs` after a dismissed dialog (refresh_statuses).
WordLive == StaleWorkingEnds /\ DismissalIsSeen
=============================================================================
