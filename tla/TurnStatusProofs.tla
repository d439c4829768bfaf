-------------------------- MODULE TurnStatusProofs --------------------------
(***************************************************************************)
(* What holds of the status word however many hooks overlap: its types,    *)
(* that a dialog on screen shows as `needs` unless a write was lost, and   *)
(* that a turn at work shows and is never taken for background work.  At   *)
(* the end, the link of a desktop to its host: who is the room's host, and *)
(* that the two ends agree on the key, whatever drops or restarts.         *)
(***************************************************************************)
EXTENDS TurnStatus, SequenceTheorems, WellFoundedInduction, RemoteLink, TLAPS

ProcsTyped == hook \in [Slot -> Process] /\ stale \subseteq Slot /\ lost \in BOOLEAN

\* What a process may become has the type of a process.
LEMMA GoingType ==
    ASSUME TypeOK, NEW s \in Slot, NEW step \in Step, Going(s, step)
    PROVE  hook' \in [Slot -> Process]
BY DEF TypeOK, Going, Process

LEMMA EndingType ==
    ASSUME TypeOK, NEW s \in Slot, Ending(s)
    PROVE  hook' \in [Slot -> Process]
BY DEF TypeOK, Ending, Rest, Process, Step, Word, Arg

LEMMA SeeingType ==
    ASSUME TypeOK, NEW s \in Slot, NEW w \in Word, NEW step \in Step, Seeing(s, w, step)
    PROVE  hook' \in [Slot -> Process]
BY DEF TypeOK, Seeing, Process

LEMMA BeginType ==
    ASSUME TypeOK, NEW s \in Slot, NEW step \in Step, NEW arg \in Arg, Begin(s, step, arg)
    PROVE  ProcsTyped'
BY DEF TypeOK, Begin, Process, Word, ProcsTyped

\* What it reads and writes, too.
LEMMA SeeType ==
    ASSUME TypeOK, NEW s \in Slot, NEW step \in Step, See(s, step)
    PROVE  ProcsTyped'
<1>1. hook' \in [Slot -> Process]
  BY SeeingType DEF See, TypeOK, ProcsTyped
<1> QED BY <1>1 DEF See, TypeOK, ProcsTyped

LEMMA GoType ==
    ASSUME TypeOK, NEW s \in Slot, NEW step \in Step, Go(s, step)
    PROVE  ProcsTyped'
<1>1. hook' \in [Slot -> Process]
  BY GoingType DEF Go
<1> QED BY <1>1 DEF Go, TypeOK, ProcsTyped

LEMMA DoneType ==
    ASSUME TypeOK, NEW s \in Slot, Done(s)
    PROVE  ProcsTyped'
<1>1. hook' \in [Slot -> Process]
  BY EndingType DEF Done
<1> QED BY <1>1 DEF Done, TypeOK, ProcsTyped

LEMMA WriteType ==
    ASSUME TypeOK, NEW s \in Slot, NEW w \in Word, Write(s, w)
    PROVE  /\ word' \in Word /\ newer' \in BOOLEAN
           /\ stale' \subseteq Slot /\ lost' \in BOOLEAN
BY DEF Write, Overwrite

LEMMA SetType ==
    ASSUME NEW w \in Word, Set(w)
    PROVE  /\ word' \in Word /\ newer' \in BOOLEAN
           /\ stale' \subseteq Slot /\ lost' \in BOOLEAN
BY DEF Set, Overwrite

\* userpromptsubmit keeps the types.
LEMMA PromptType == TypeOK /\ Prompt => TypeOK'
<1> SUFFICES ASSUME TypeOK, Prompt PROVE TypeOK'
  OBVIOUS
<1>1. CASE ReadPrior
  <2>1. ProcsTyped'
    BY <1>1, SeeType DEF ReadPrior, ProcsTyped, TypeOK, Slot, Word, Step, Dismissed
  <2> QED BY <1>1, <2>1 DEF ReadPrior, ProcsTyped, TypeOK, Trigger, files, claude, transcript
<1>2. CASE MarkWorking
  <2>1. word' \in Word /\ newer' \in BOOLEAN
    BY <1>2, SetType DEF MarkWorking, Word, Slot
  <2>2. ProcsTyped'
    BY <1>2, SetType, GoingType DEF MarkWorking, ProcsTyped, TypeOK, Slot, Word, Step, Dismissed
  <2> QED BY <1>2, <2>1, <2>2 DEF MarkWorking, ProcsTyped, TypeOK, Trigger, files, claude, transcript
<1>3. CASE Uncompact
  <2>1. ProcsTyped'
    BY <1>3, GoType, DoneType DEF Uncompact, ProcsTyped, TypeOK, Slot, Word, Step, Dismissed
  <2>2. quiet' \in BOOLEAN /\ compacting' = "no"
    BY <1>3 DEF Uncompact, TypeOK
  <2> QED BY <1>3, <2>1, <2>2 DEF Uncompact, ProcsTyped, TypeOK, Trigger, files, claude, transcript
<1>4. CASE Restore
  <2>1. hook["main"].saw \in Word
    BY DEF TypeOK, Process, Slot
  <2>2. word' \in Word /\ newer' \in BOOLEAN
    BY <1>4, <2>1, WriteType DEF Restore, Word, Slot
  <2>3. ProcsTyped'
    BY <1>4, <2>1, WriteType, EndingType, GoingType DEF Restore, ProcsTyped, TypeOK, Slot, Word, Step, Dismissed
  <2> QED BY <1>4, <2>2, <2>3 DEF Restore, ProcsTyped, TypeOK, Trigger, files, claude, transcript
<1>5. CASE Sanctioned
  <2>1. ProcsTyped'
    BY <1>5, DoneType DEF Sanctioned, ProcsTyped, TypeOK, Slot, Word, Step, Dismissed
  <2> QED BY <1>5, <2>1 DEF Sanctioned, ProcsTyped, TypeOK, Trigger, files, claude, transcript
<1>6. CASE Swallowed
  <2>1. hook["main"].saw \in Word
    BY DEF TypeOK, Process, Slot
  <2>2. word' \in Word /\ newer' \in BOOLEAN
    BY <1>6, <2>1, WriteType DEF Swallowed, Word, Slot
  <2>3. ProcsTyped'
    BY <1>6, <2>1, WriteType, EndingType DEF Swallowed, ProcsTyped, TypeOK, Slot, Word, Step, Dismissed
  <2> QED BY <1>6, <2>2, <2>3 DEF Swallowed, ProcsTyped, TypeOK, Trigger, files, claude, transcript, EndTurn
<1> QED BY <1>1, <1>2, <1>3, <1>4, <1>5, <1>6 DEF Prompt

\* askq and plan keeps the types.
LEMMA DialogType == TypeOK /\ Dialog => TypeOK'
<1> SUFFICES ASSUME TypeOK, Dialog PROVE TypeOK'
  OBVIOUS
<1>1. CASE WriteDialog
  <2>1. ProcsTyped'
    BY <1>1, GoType DEF WriteDialog, ProcsTyped, TypeOK, Slot, Word, Step, Dismissed
  <2>2. logged' \in BOOLEAN
    BY <1>1 DEF WriteDialog, TypeOK
  <2> QED BY <1>1, <2>1, <2>2 DEF WriteDialog, ProcsTyped, TypeOK, Trigger, files, claude, transcript
<1>2. CASE WriteNeeds
  <2>1. word' \in Word /\ newer' \in BOOLEAN
    BY <1>2, SetType DEF WriteNeeds, Word, Slot
  <2>2. ProcsTyped'
    BY <1>2, SetType, EndingType DEF WriteNeeds, ProcsTyped, TypeOK, Slot, Word, Step, Dismissed
  <2> QED BY <1>2, <2>1, <2>2 DEF WriteNeeds, ProcsTyped, TypeOK, Trigger, files, claude, transcript
<1> QED BY <1>1, <1>2 DEF Dialog

\* stop keeps the types.
LEMMA StopType == TypeOK /\ Stop => TypeOK'
<1> SUFFICES ASSUME TypeOK, Stop PROVE TypeOK'
  OBVIOUS
<1>1. CASE StopCompacting
  <2>1. ProcsTyped'
    BY <1>1, GoType DEF StopCompacting, ProcsTyped, TypeOK, Slot, Word, Step, Dismissed
  <2> QED BY <1>1, <2>1 DEF StopCompacting, ProcsTyped, TypeOK, Trigger, files, claude, transcript
<1>2. CASE BlockFlag
  <2>1. ProcsTyped'
    BY <1>2, GoType DEF BlockFlag, ProcsTyped, TypeOK, Slot, Word, Step, Dismissed
  <2> QED BY <1>2, <2>1 DEF BlockFlag, ProcsTyped, TypeOK, Trigger, files, claude, transcript, SetBg
<1>3. CASE BlockWord
  <2>1. word' \in Word /\ newer' \in BOOLEAN
    BY <1>3, SetType DEF BlockWord, Word, Slot
  <2>2. ProcsTyped'
    BY <1>3, SetType, EndingType DEF BlockWord, ProcsTyped, TypeOK, Slot, Word, Step, Dismissed
  <2> QED BY <1>3, <2>1, <2>2 DEF BlockWord, ProcsTyped, TypeOK, Trigger, files, claude, transcript
<1>4. CASE EndWord
  <2>1. word' \in Word /\ newer' \in BOOLEAN
    BY <1>4, SetType DEF EndWord, Word, Slot
  <2>2. ProcsTyped'
    BY <1>4, SetType, GoingType DEF EndWord, ProcsTyped, TypeOK, Slot, Word, Step, Dismissed
  <2>3. quiet' \in BOOLEAN
    BY <1>4 DEF EndWord, TypeOK
  <2> QED BY <1>4, <2>1, <2>2, <2>3 DEF EndWord, ProcsTyped, TypeOK, Trigger, files, claude, transcript
<1>5. CASE EndFlag
  <2>1. ProcsTyped'
    BY <1>5, DoneType DEF EndFlag, ProcsTyped, TypeOK, Slot, Word, Step, Dismissed
  <2> QED BY <1>5, <2>1 DEF EndFlag, ProcsTyped, TypeOK, Trigger, files, claude, transcript, SetBg, EndTurn
<1> QED BY <1>1, <1>2, <1>3, <1>4, <1>5 DEF Stop

\* precompact and sessionstart keeps the types.
LEMMA CompactionType == TypeOK /\ Compaction => TypeOK'
<1> SUFFICES ASSUME TypeOK, Compaction PROVE TypeOK'
  OBVIOUS
<1>1. CASE PreFlag
  <2>1. ProcsTyped'
    BY <1>1, GoType DEF PreFlag, ProcsTyped, TypeOK, Slot, Word, Step, Dismissed
  <2>2. compacting' \in Trigger
    BY <1>1 DEF PreFlag, TypeOK
  <2> QED BY <1>1, <2>1, <2>2 DEF PreFlag, ProcsTyped, TypeOK, Trigger, files, claude, transcript
<1>2. CASE PreWord
  <2>1. word' \in Word /\ newer' \in BOOLEAN
    BY <1>2, SetType DEF PreWord, Word, Slot
  <2>2. ProcsTyped'
    BY <1>2, SetType, EndingType DEF PreWord, ProcsTyped, TypeOK, Slot, Word, Step, Dismissed
  <2> QED BY <1>2, <2>1, <2>2 DEF PreWord, ProcsTyped, TypeOK, Trigger, files, claude, transcript
<1>3. CASE CompactedWord
  <2>1. word' \in Word /\ newer' \in BOOLEAN
    BY <1>3, SetType DEF CompactedWord, Word, Slot
  <2>2. ProcsTyped'
    BY <1>3, SetType, GoingType DEF CompactedWord, ProcsTyped, TypeOK, Slot, Word, Step, Dismissed
  <2> QED BY <1>3, <2>1, <2>2 DEF CompactedWord, ProcsTyped, TypeOK, Trigger, files, claude, transcript
<1>4. CASE CompactedFlag
  <2>1. ProcsTyped'
    BY <1>4, DoneType DEF CompactedFlag, ProcsTyped, TypeOK, Slot, Word, Step, Dismissed
  <2> QED BY <1>4, <2>1 DEF CompactedFlag, ProcsTyped, TypeOK, Trigger, files, claude, transcript
<1> QED BY <1>1, <1>2, <1>3, <1>4 DEF Compaction

\* notification keeps the types.
LEMMA NotificationType == TypeOK /\ Notification => TypeOK'
<1> SUFFICES ASSUME TypeOK, Notification PROVE TypeOK'
  OBVIOUS
<1>1. CASE NoteLook
  <2>1. ProcsTyped'
    BY <1>1, SeeType DEF NoteLook, ProcsTyped, TypeOK, Slot, Word, Step, Dismissed
  <2> QED BY <1>1, <2>1 DEF NoteLook, ProcsTyped, TypeOK, Trigger, files, claude, transcript
<1>2. CASE NoteFlags
  <2>1. hook["note"].saw \in Word
    BY DEF TypeOK, Process, Slot
  <2>2. ProcsTyped'
    BY <1>2, <2>1, SeeingType DEF NoteFlags, ProcsTyped, TypeOK, Slot, Word, Step, Dismissed, NotifyStatus
  <2> QED BY <1>2, <2>2 DEF NoteFlags, ProcsTyped, TypeOK, Trigger, files, claude, transcript
<1>3. CASE NoteWrite
  <2>1. hook["note"].saw \in Word
    BY DEF TypeOK, Process, Slot
  <2>2. word' \in Word /\ newer' \in BOOLEAN
    BY <1>3, <2>1, WriteType DEF NoteWrite, Word, Slot
  <2>3. ProcsTyped'
    BY <1>3, <2>1, WriteType, EndingType DEF NoteWrite, ProcsTyped, TypeOK, Slot, Word, Step, Dismissed
  <2> QED BY <1>3, <2>2, <2>3 DEF NoteWrite, ProcsTyped, TypeOK, Trigger, files, claude, transcript
<1> QED BY <1>1, <1>2, <1>3 DEF Notification

\* clear_escaped_dialogs keeps the types.
LEMMA AppType == TypeOK /\ App => TypeOK'
<1> SUFFICES ASSUME TypeOK, App PROVE TypeOK'
  OBVIOUS
<1>1. CASE AppLook
  <2>1. ProcsTyped'
    BY <1>1, SeeType DEF AppLook, ProcsTyped, TypeOK, Slot, Word, Step, Dismissed
  <2> QED BY <1>1, <2>1 DEF AppLook, ProcsTyped, TypeOK, Trigger, files, claude, transcript
<1>2. CASE AppJudge
  <2>1. ProcsTyped'
    BY <1>2, SeeingType, DoneType DEF AppJudge, ProcsTyped, TypeOK, Slot, Word, Step, Dismissed
  <2> QED BY <1>2, <2>1 DEF AppJudge, ProcsTyped, TypeOK, Trigger, files, claude, transcript
<1>3. CASE AppClear
  <2>1. hook["app"].saw \in Word
    BY DEF TypeOK, Process, Slot
  <2>2. word' \in Word /\ newer' \in BOOLEAN
    BY <1>3, <2>1, WriteType DEF AppClear, Word, Slot
  <2>3. ProcsTyped'
    BY <1>3, <2>1, WriteType, EndingType DEF AppClear, ProcsTyped, TypeOK, Slot, Word, Step, Dismissed
  <2> QED BY <1>3, <2>2, <2>3 DEF AppClear, ProcsTyped, TypeOK, Trigger, files, claude, transcript
<1> QED BY <1>1, <1>2, <1>3 DEF App

\* posttooluse keeps the types, whosoever the call.
LEMMA PostToolUseType ==
    ASSUME TypeOK, NEW s \in Slot, PostToolUse(s)
    PROVE  TypeOK'
<1>1. CASE Unhush(s)
  <2>1. ProcsTyped'
    BY <1>1, SeeType, DoneType DEF Unhush, ProcsTyped, TypeOK, Slot, Word, Step, Dismissed
  <2>2. quiet' \in BOOLEAN
    BY <1>1 DEF Unhush, TypeOK
  <2> QED BY <1>1, <2>1, <2>2 DEF Unhush, ProcsTyped, TypeOK, Trigger, files, claude, transcript
<1>2. CASE WorkOn(s)
  <2>1. word' \in Word /\ newer' \in BOOLEAN
    BY <1>2, WriteType DEF WorkOn, Word, Slot, TypeOK
  <2>2. ProcsTyped'
    BY <1>2, DoneType, WriteType, EndingType DEF WorkOn, ProcsTyped, TypeOK, Slot, Word, Step, Dismissed
  <2> QED BY <1>2, <2>1, <2>2 DEF WorkOn, ProcsTyped, TypeOK, Trigger, files, claude, transcript
<1> QED BY <1>1, <1>2 DEF PostToolUse

\* An event keeps the types, and starts a process of the type of one.
LEMMA EventType == TypeOK /\ Event => TypeOK'
<1> SUFFICES ASSUME TypeOK, Event PROVE TypeOK'
  OBVIOUS
<1>1. CASE \E kind \in {"user", "task", "orphan"} : Submit(kind)
  <2> PICK kind \in {"user", "task", "orphan"} : Submit(kind)
    BY <1>1
  <2>1. ProcsTyped'
    BY BeginType DEF Submit, Slot, Step, Arg, Trigger
  <2>2. acted' \in BOOLEAN /\ turn' \in {"running"} \cup Trigger
    BY DEF Submit, TypeOK
  <2> QED BY <2>1, <2>2 DEF Submit, ProcsTyped, TypeOK, Trigger, files, transcript
<1>2. CASE \E arg \in {"tool", "rearm"} : ToolDone(arg)
  <2> PICK arg \in {"tool", "rearm"} : ToolDone(arg)
    BY <1>2
  <2>1. ProcsTyped'
    BY BeginType DEF ToolDone, Slot, Step, Arg, Trigger
  <2>2. acted' \in BOOLEAN /\ turn' \in {"running"} \cup Trigger
    BY DEF ToolDone, TypeOK
  <2> QED BY <2>1, <2>2 DEF ToolDone, ProcsTyped, TypeOK, Trigger, files, transcript
<1>3. CASE \E trigger \in Trigger : Compact(trigger)
  <2> PICK trigger \in Trigger : Compact(trigger)
    BY <1>3
  <2>1. ProcsTyped'
    BY BeginType DEF Compact, Slot, Step, Arg, Trigger
  <2>2. acted' \in BOOLEAN /\ turn' \in {"running"} \cup Trigger
    BY DEF Compact, TypeOK
  <2> QED BY <2>1, <2>2 DEF Compact, ProcsTyped, TypeOK, Trigger, files, transcript
<1>4. CASE Answer
  <2>1. ProcsTyped'
    BY <1>4, BeginType DEF Answer, Slot, Step, Arg
  <2> QED BY <1>4, <2>1 DEF Answer, ProcsTyped, TypeOK, files, claude, transcript
<1>5. CASE AgentTool
  <2>1. ProcsTyped'
    BY <1>5, BeginType DEF AgentTool, Slot, Step, Arg
  <2> QED BY <1>5, <2>1 DEF AgentTool, ProcsTyped, TypeOK, files, claude, transcript
<1>6. CASE Ask
  <2>1. ProcsTyped'
    BY <1>6, BeginType DEF Ask, Slot, Step, Arg
  <2> QED BY <1>6, <2>1 DEF Ask, ProcsTyped, TypeOK, files, claude, transcript
<1>7. CASE StopTurn
  <2>1. ProcsTyped'
    BY <1>7, BeginType DEF StopTurn, Slot, Step, Arg
  <2> QED BY <1>7, <2>1 DEF StopTurn, ProcsTyped, TypeOK, files, claude, transcript
<1>8. CASE CompactEnds
  <2>1. ProcsTyped'
    BY <1>8, BeginType DEF CompactEnds, Slot, Step, Arg
  <2> QED BY <1>8, <2>1 DEF CompactEnds, ProcsTyped, TypeOK, files, claude, transcript
<1>9. CASE Escape
  <2>1. ProcsTyped'
    BY <1>9 DEF Escape, ProcsTyped, TypeOK, procs
  <2> QED BY <1>9, <2>1 DEF Escape, EndTurn, ProcsTyped, TypeOK, Dismissed, files, transcript
<1>10. CASE Reject
  <2>1. ProcsTyped'
    BY <1>10 DEF Reject, ProcsTyped, TypeOK, procs
  <2> QED BY <1>10, <2>1 DEF Reject, EndTurn, ProcsTyped, TypeOK, Dismissed, files, transcript
<1>11. CASE CompactFails
  <2>1. ProcsTyped'
    BY <1>11 DEF CompactFails, ProcsTyped, TypeOK, procs
  <2> QED BY <1>11, <2>1 DEF CompactFails, EndTurn, ProcsTyped, TypeOK, Dismissed, files, transcript
<1>12. CASE Interrupt
  <2>1. ProcsTyped'
    BY <1>12 DEF Interrupt, ProcsTyped, TypeOK, procs
  <2> QED BY <1>12, <2>1 DEF Interrupt, EndTurn, ProcsTyped, TypeOK, Dismissed, files, transcript
<1>13. CASE WorkStarts
  <2>1. ProcsTyped'
    BY <1>13 DEF WorkStarts, ProcsTyped, TypeOK, procs
  <2> QED BY <1>13, <2>1 DEF WorkStarts, EndTurn, ProcsTyped, TypeOK, Dismissed, files, transcript
<1>14. CASE WorkEnds
  <2>1. ProcsTyped'
    BY <1>14 DEF WorkEnds, ProcsTyped, TypeOK, procs
  <2> QED BY <1>14, <2>1 DEF WorkEnds, EndTurn, ProcsTyped, TypeOK, Dismissed, files, transcript
<1>15. CASE Restart
  <2>1. ProcsTyped'
    BY <1>15 DEF Restart, Anew, ProcsTyped, Process, Rest, Step, Word, Arg
  <2> QED BY <1>15, <2>1 DEF Restart, Anew, EndTurn, ProcsTyped, TypeOK, Word, transcript
<1>16. CASE Relaunch
  <2>1. ProcsTyped'
    BY <1>16 DEF Relaunch, Anew, ProcsTyped, Process, Rest, Step, Word, Arg
  <2> QED BY <1>16, <2>1 DEF Relaunch, Anew, EndTurn, ProcsTyped, TypeOK, Word, transcript
<1> QED BY <1>1, <1>2, <1>3, <1>4, <1>5, <1>6, <1>7, <1>8, <1>9, <1>10, <1>11, <1>12, <1>13, <1>14, <1>15, <1>16 DEF Event

\* The types hold at the start.
LEMMA InitTyped == Init => TypeOK
<1> SUFFICES ASSUME Init PROVE TypeOK
  OBVIOUS
<1>1. hook \in [Slot -> Process]
  BY DEF Init, Process, Rest, Step, Word, Arg
<1>2. /\ bg \in BOOLEAN /\ newer \in BOOLEAN /\ quiet \in BOOLEAN
      /\ acted \in BOOLEAN /\ continued \in BOOLEAN /\ nudge \in BOOLEAN
      /\ orphan \in BOOLEAN /\ logged \in BOOLEAN /\ lost \in BOOLEAN
  BY DEF Init
<1> QED BY <1>1, <1>2 DEF Init, TypeOK, Word

\* Every step keeps them.
LEMMA NextTyped == TypeOK /\ [Next]_vars => TypeOK'
<1> SUFFICES ASSUME TypeOK, [Next]_vars PROVE TypeOK'
  OBVIOUS
<1>1. CASE Main
  BY <1>1, PromptType, DialogType, StopType, CompactionType, PostToolUseType DEF Main, Slot
<1>2. CASE Agent
  BY <1>2, PostToolUseType DEF Agent, Slot
<1>3. CASE Notification
  BY <1>3, NotificationType
<1>4. CASE App
  BY <1>4, AppType
<1>5. CASE LogDialog
  <2>1. logged' \in BOOLEAN
    BY <1>5 DEF LogDialog
  <2> QED BY <1>5, <2>1 DEF LogDialog, TypeOK, files, claude, procs
<1>6. CASE Notify
  <2>1. ProcsTyped'
    BY <1>6, BeginType DEF Notify, Slot, Step, Arg
  <2>2. nudge' \in BOOLEAN
    BY <1>6 DEF Notify
  <2> QED BY <1>6, <2>1, <2>2 DEF Notify, ProcsTyped, TypeOK, files, transcript
<1>7. CASE Event
  BY <1>7, EventType
<1>8. CASE UNCHANGED vars
  BY <1>8 DEF vars, files, claude, transcript, procs, TypeOK
<1> QED BY <1>1, <1>2, <1>3, <1>4, <1>5, <1>6, <1>7, <1>8 DEF Next

\* The word, the flags and what runs have their types (TypeOK), in every state.
THEOREM WordTyped == Spec => []TypeOK
  BY InitTyped, NextTyped, PTL DEF Spec

-----------------------------------------------------------------------------
(* That a dialog is shown: a process that is not stale knows whether the   *)
(* word on file is `needs`, and the app that is to clear it knows that the *)
(* dialog is gone.                                                         *)

MainOK ==
    /\ turn = "dialog" => hook["main"].at = "rest"
    /\ hook["main"].at \in {"dialog", "needs"} => turn = "running"
    /\ hook["main"].at = "needs" => ~logged
    /\ turn = "dialog" /\ logged => verdict = "open"

AgentOK ==
    /\ hook["agent"].at \in {"tool", "decide"} => hook["agent"].arg = "tool"
    /\ hook["agent"].at = "decide" /\ "agent" \notin stale => ~lost /\ hook["agent"].saw = word

NoteOK ==
    "note" \notin stale =>
      /\ hook["note"].at = "nflags" => ~lost /\ hook["note"].saw = word
      /\ hook["note"].at = "nwrite" => ~lost /\ (hook["note"].saw = "needs" <=> word = "needs")

AppOK == hook["app"].at = "clear" /\ "app" \notin stale => turn # "dialog"

ShownInv == TypeOK /\ MainOK /\ AgentOK /\ NoteOK /\ AppOK /\ DialogShown

\* A step of s leaves the other processes where they are.
Others(s) == \A h \in Slot \ {s} : hook'[h] = hook[h]

\* ... and the word as it is, and who is stale,
Keeps(s) ==
    /\ Others(s) /\ word' = word /\ lost' = lost
    /\ \A h \in Slot \ {s} : h \in stale' <=> h \in stale

\* ... or makes those stale that have read the word.
Spoils(s) == Others(s) /\ \A h \in Slot \ {s} : hook[h].at \in Reading => h \in stale'

\* Every step of a process is one of the two.
LEMMA BeginKeeps ==
    ASSUME TypeOK, NEW s \in Slot, NEW step, NEW arg, Begin(s, step, arg), word' = word
    PROVE  Keeps(s) /\ hook'[s].at = step /\ hook'[s].arg = arg
BY DEF TypeOK, Begin, Keeps, Others

LEMMA GoKeeps ==
    ASSUME TypeOK, NEW s \in Slot, NEW step, Go(s, step), word' = word
    PROVE  Keeps(s) /\ hook'[s].at = step /\ hook'[s].arg = hook[s].arg
BY DEF TypeOK, Go, Going, Keeps, Others, Process

LEMMA DoneKeeps ==
    ASSUME TypeOK, NEW s \in Slot, Done(s), word' = word
    PROVE  Keeps(s) /\ hook'[s].at = "rest"
BY DEF TypeOK, Done, Ending, Keeps, Others, Rest

LEMMA SeeKeeps ==
    ASSUME TypeOK, NEW s \in Slot, NEW step, See(s, step), word' = word
    PROVE  /\ Keeps(s) /\ hook'[s].at = step /\ hook'[s].arg = hook[s].arg
           /\ hook'[s].saw = word /\ (lost => s \in stale')
BY DEF TypeOK, See, Seeing, Keeps, Others, Process

LEMMA SeeingKeeps ==
    ASSUME TypeOK, NEW s \in Slot, NEW w, NEW step, Seeing(s, w, step),
           word' = word, UNCHANGED <<stale, lost>>
    PROVE  Keeps(s) /\ hook'[s].at = step /\ hook'[s].saw = w
BY DEF TypeOK, Seeing, Keeps, Others, Process

LEMMA EndingSpoils ==
    ASSUME TypeOK, NEW s \in Slot, NEW w, Ending(s), Overwrite(s, w)
    PROVE  Spoils(s) /\ hook'[s].at = "rest"
BY DEF TypeOK, Ending, Overwrite, Spoils, Others, Rest

LEMMA GoingSpoils ==
    ASSUME TypeOK, NEW s \in Slot, NEW w, NEW step, Going(s, step), Overwrite(s, w)
    PROVE  Spoils(s) /\ hook'[s].at = step
BY DEF TypeOK, Going, Overwrite, Spoils, Others, Process

\* So what the other processes know stays true.
LEMMA KeepsReaders ==
    ASSUME AgentOK, NoteOK, AppOK, NEW s \in Slot, Keeps(s)
    PROVE  /\ s # "agent" => AgentOK'
           /\ s # "note" => NoteOK'
           /\ s # "app" /\ (turn' = "dialog" => turn = "dialog") => AppOK'
BY DEF AgentOK, NoteOK, AppOK, Keeps, Others, Slot

LEMMA SpoilsReaders ==
    ASSUME AgentOK, NEW s \in Slot, Spoils(s)
    PROVE  /\ s # "agent" => AgentOK'
           /\ s # "note" => NoteOK'
           /\ s # "app" => AppOK'
BY DEF AgentOK, NoteOK, AppOK, Spoils, Others, Slot, Reading

\* A step of the claude's own hook that shows no dialog, nor starts to, is safe.
LEMMA MainStep ==
    ASSUME ShownInv, TypeOK', Keeps("main") \/ Spoils("main"),
           hook'["main"].at \notin {"dialog", "needs"}, turn' # "dialog"
    PROVE  ShownInv'
<1>1. AgentOK' /\ NoteOK' /\ AppOK'
  BY KeepsReaders, SpoilsReaders DEF ShownInv, Slot
<1>2. MainOK' /\ DialogShown'
  BY DEF MainOK, DialogShown
<1> QED BY <1>1, <1>2 DEF ShownInv

LEMMA MainShown ==
    ASSUME ShownInv, TypeOK', Main
    PROVE  ShownInv'
<1> USE DEF At, Slot
<1>0. TypeOK /\ (hook["main"].at # "rest" => turn # "dialog")
  BY DEF ShownInv, MainOK
<1>1. CASE ReadPrior
  <2>1. /\ Keeps("main") \/ Spoils("main")
        /\ hook'["main"].at \notin {"dialog", "needs"}
    BY <1>0, <1>1, SeeKeeps DEF ReadPrior, files
  <2>2. turn' # "dialog"
    BY <1>0, <1>1 DEF ReadPrior, claude, EndTurn, Trigger
  <2> QED BY <2>1, <2>2, MainStep
<1>2. CASE MarkWorking
  <2>1. /\ Keeps("main") \/ Spoils("main")
        /\ hook'["main"].at \notin {"dialog", "needs"}
    BY <1>0, <1>2, GoingSpoils DEF MarkWorking, files, Set
  <2>2. turn' # "dialog"
    BY <1>0, <1>2 DEF MarkWorking, claude, EndTurn, Trigger
  <2> QED BY <2>1, <2>2, MainStep
<1>3. CASE Uncompact
  <2>1. /\ Keeps("main") \/ Spoils("main")
        /\ hook'["main"].at \notin {"dialog", "needs"}
    BY <1>0, <1>3, GoKeeps, DoneKeeps DEF Uncompact, files
  <2>2. turn' # "dialog"
    BY <1>0, <1>3 DEF Uncompact, claude, EndTurn, Trigger
  <2> QED BY <2>1, <2>2, MainStep
<1>4. CASE Restore
  <2>1. /\ Keeps("main") \/ Spoils("main")
        /\ hook'["main"].at \notin {"dialog", "needs"}
    BY <1>0, <1>4, EndingSpoils, GoingSpoils DEF Restore, files, Write
  <2>2. turn' # "dialog"
    BY <1>0, <1>4 DEF Restore, claude, EndTurn, Trigger
  <2> QED BY <2>1, <2>2, MainStep
<1>5. CASE Sanctioned
  <2>1. /\ Keeps("main") \/ Spoils("main")
        /\ hook'["main"].at \notin {"dialog", "needs"}
    BY <1>0, <1>5, DoneKeeps DEF Sanctioned, files
  <2>2. turn' # "dialog"
    BY <1>0, <1>5 DEF Sanctioned, claude, EndTurn, Trigger
  <2> QED BY <2>1, <2>2, MainStep
<1>6. CASE Swallowed
  <2>1. /\ Keeps("main") \/ Spoils("main")
        /\ hook'["main"].at \notin {"dialog", "needs"}
    BY <1>0, <1>6, EndingSpoils DEF Swallowed, files, Write
  <2>2. turn' # "dialog"
    BY <1>0, <1>6 DEF Swallowed, claude, EndTurn, Trigger
  <2> QED BY <2>1, <2>2, MainStep
<1>7. CASE WriteDialog
  <2>1. Keeps("main") /\ hook'["main"].at = "needs"
    BY <1>0, <1>7, GoKeeps DEF WriteDialog, files
  <2>2. turn = "running" /\ turn' = turn /\ ~logged'
    BY <1>7 DEF WriteDialog, ShownInv, MainOK, claude
  <2>3. AgentOK' /\ NoteOK' /\ AppOK'
    BY <2>1, <2>2, KeepsReaders DEF ShownInv
  <2> QED BY <2>1, <2>2, <2>3 DEF ShownInv, MainOK, DialogShown
<1>8. CASE WriteNeeds
  <2>1. Spoils("main") /\ hook'["main"].at = "rest" /\ word' = "needs"
    BY <1>0, <1>8, EndingSpoils DEF WriteNeeds, Set, Overwrite
  <2>2. ~logged /\ logged' = logged
    BY <1>8 DEF WriteNeeds, ShownInv, MainOK, transcript
  <2>3. AgentOK' /\ NoteOK' /\ AppOK'
    BY <2>1, SpoilsReaders DEF ShownInv
  <2> QED BY <2>1, <2>2, <2>3 DEF ShownInv, MainOK, DialogShown
<1>9. CASE StopCompacting
  <2>1. /\ Keeps("main") \/ Spoils("main")
        /\ hook'["main"].at \notin {"dialog", "needs"}
    BY <1>0, <1>9, GoKeeps DEF StopCompacting, files
  <2>2. turn' # "dialog"
    BY <1>0, <1>9 DEF StopCompacting, claude, EndTurn, Trigger
  <2> QED BY <2>1, <2>2, MainStep
<1>10. CASE BlockFlag
  <2>1. /\ Keeps("main") \/ Spoils("main")
        /\ hook'["main"].at \notin {"dialog", "needs"}
    BY <1>0, <1>10, GoKeeps DEF BlockFlag, files
  <2>2. turn' # "dialog"
    BY <1>0, <1>10 DEF BlockFlag, claude, EndTurn, Trigger
  <2> QED BY <2>1, <2>2, MainStep
<1>11. CASE BlockWord
  <2>1. /\ Keeps("main") \/ Spoils("main")
        /\ hook'["main"].at \notin {"dialog", "needs"}
    BY <1>0, <1>11, EndingSpoils DEF BlockWord, files, Set
  <2>2. turn' # "dialog"
    BY <1>0, <1>11 DEF BlockWord, claude, EndTurn, Trigger
  <2> QED BY <2>1, <2>2, MainStep
<1>12. CASE EndWord
  <2>1. /\ Keeps("main") \/ Spoils("main")
        /\ hook'["main"].at \notin {"dialog", "needs"}
    BY <1>0, <1>12, GoingSpoils DEF EndWord, files, Set
  <2>2. turn' # "dialog"
    BY <1>0, <1>12 DEF EndWord, claude, EndTurn, Trigger
  <2> QED BY <2>1, <2>2, MainStep
<1>13. CASE EndFlag
  <2>1. /\ Keeps("main") \/ Spoils("main")
        /\ hook'["main"].at \notin {"dialog", "needs"}
    BY <1>0, <1>13, DoneKeeps DEF EndFlag, files
  <2>2. turn' # "dialog"
    BY <1>0, <1>13 DEF EndFlag, claude, EndTurn, Trigger
  <2> QED BY <2>1, <2>2, MainStep
<1>14. CASE PreFlag
  <2>1. /\ Keeps("main") \/ Spoils("main")
        /\ hook'["main"].at \notin {"dialog", "needs"}
    BY <1>0, <1>14, GoKeeps DEF PreFlag, files
  <2>2. turn' # "dialog"
    BY <1>0, <1>14 DEF PreFlag, claude, EndTurn, Trigger
  <2> QED BY <2>1, <2>2, MainStep
<1>15. CASE PreWord
  <2>1. /\ Keeps("main") \/ Spoils("main")
        /\ hook'["main"].at \notin {"dialog", "needs"}
    BY <1>0, <1>15, EndingSpoils DEF PreWord, files, Set
  <2>2. turn' # "dialog"
    BY <1>0, <1>15 DEF PreWord, claude, EndTurn, Trigger
  <2> QED BY <2>1, <2>2, MainStep
<1>16. CASE CompactedWord
  <2>1. /\ Keeps("main") \/ Spoils("main")
        /\ hook'["main"].at \notin {"dialog", "needs"}
    BY <1>0, <1>16, GoingSpoils DEF CompactedWord, files, Set
  <2>2. turn' # "dialog"
    BY <1>0, <1>16 DEF CompactedWord, claude, EndTurn, Trigger
  <2> QED BY <2>1, <2>2, MainStep
<1>17. CASE CompactedFlag
  <2>1. /\ Keeps("main") \/ Spoils("main")
        /\ hook'["main"].at \notin {"dialog", "needs"}
    BY <1>0, <1>17, DoneKeeps DEF CompactedFlag, files
  <2>2. turn' # "dialog"
    BY <1>0, <1>17 DEF CompactedFlag, claude, EndTurn, Trigger
  <2> QED BY <2>1, <2>2, MainStep
<1>18. CASE Unhush("main")
  <2>1. /\ Keeps("main") \/ Spoils("main")
        /\ hook'["main"].at \notin {"dialog", "needs"}
    BY <1>0, <1>18, SeeKeeps, DoneKeeps DEF Unhush, files
  <2>2. turn' # "dialog"
    BY <1>0, <1>18 DEF Unhush, claude, EndTurn, Trigger
  <2> QED BY <2>1, <2>2, MainStep
<1>19. CASE WorkOn("main")
  <2>1. /\ Keeps("main") \/ Spoils("main")
        /\ hook'["main"].at \notin {"dialog", "needs"}
    BY <1>0, <1>19, DoneKeeps, EndingSpoils DEF WorkOn, files, Write
  <2>2. turn' # "dialog"
    BY <1>0, <1>19 DEF WorkOn, claude, EndTurn, Trigger
  <2> QED BY <2>1, <2>2, MainStep
<1> QED BY <1>1, <1>2, <1>3, <1>4, <1>5, <1>6, <1>7, <1>8, <1>9, <1>10, <1>11, <1>12, <1>13, <1>14, <1>15, <1>16, <1>17, <1>18, <1>19 DEF Main, Prompt, Dialog, Stop, Compaction, PostToolUse

\* A background agent's tool call leaves a dialog's word alone.
LEMMA AgentShown ==
    ASSUME ShownInv, TypeOK', Agent
    PROVE  ShownInv'
<1> USE DEF At, Slot
<1>0. TypeOK /\ UNCHANGED <<turn, logged, verdict>>
  BY DEF ShownInv, Agent, PostToolUse, Unhush, WorkOn, claude, transcript
<1>1. CASE Unhush("agent")
  <2>1. /\ Keeps("agent") /\ hook'["agent"].at \in {"rest", "decide"}
        /\ hook'["agent"].at = "decide" =>
             /\ hook'["agent"].arg = "tool" /\ hook'["agent"].saw = word
             /\ "agent" \notin stale' => ~lost
    BY <1>0, <1>1, SeeKeeps, DoneKeeps DEF Unhush, ShownInv, AgentOK
  <2>2. AgentOK' /\ NoteOK' /\ AppOK'
    BY <1>0, <2>1, KeepsReaders DEF ShownInv, AgentOK, Keeps
  <2> QED BY <1>0, <2>1, <2>2 DEF ShownInv, MainOK, DialogShown, Keeps, Others
<1>2. CASE WorkOn("agent")
  <2>1. CASE hook["agent"].saw = "needs" /\ hook["agent"].arg # "dialog"
    <3>1. Keeps("agent") /\ hook'["agent"].at = "rest"
      BY <1>0, <1>2, <2>1, DoneKeeps DEF WorkOn
    <3>2. AgentOK' /\ NoteOK' /\ AppOK'
      BY <1>0, <3>1, KeepsReaders DEF ShownInv, AgentOK
    <3> QED BY <1>0, <3>1, <3>2 DEF ShownInv, MainOK, DialogShown, Keeps, Others
  <2>2. CASE ~(hook["agent"].saw = "needs" /\ hook["agent"].arg # "dialog")
    <3>1. Spoils("agent") /\ hook'["agent"].at = "rest" /\ (lost' <=> "agent" \in stale)
      BY <1>0, <1>2, <2>2, EndingSpoils DEF WorkOn, Write
    <3>2. AgentOK' /\ NoteOK' /\ AppOK'
      BY <3>1, SpoilsReaders DEF ShownInv, AgentOK
    <3>3. "agent" \notin stale => ~lost /\ word # "needs"
      BY <1>2, <2>2 DEF WorkOn, ShownInv, AgentOK
    <3>4. DialogShown'
      BY <1>0, <3>1, <3>3 DEF ShownInv, DialogShown
    <3> QED BY <1>0, <3>1, <3>2, <3>4 DEF ShownInv, MainOK, Spoils, Others
  <2> QED BY <2>1, <2>2
<1> QED BY <1>1, <1>2 DEF Agent, PostToolUse

\* What a notification decides is `needs` when what it read was.
LEMMA NotifyNeeds ==
    ASSUME NEW saw
    PROVE  NotifyStatus(saw) = "needs" <=> saw = "needs"
BY DEF NotifyStatus

\* A notification leaves a dialog's word as it is.
LEMMA NotificationShown ==
    ASSUME ShownInv, TypeOK', Notification
    PROVE  ShownInv'
<1> USE DEF At, Slot
<1>0. TypeOK /\ UNCHANGED <<turn, logged, verdict>>
  BY DEF ShownInv, Notification, NoteLook, NoteFlags, NoteWrite, claude, transcript
<1>1. CASE NoteLook
  <2>1. /\ Keeps("note") /\ hook'["note"].at = "nflags" /\ hook'["note"].saw = word
        /\ "note" \notin stale' => ~lost
    BY <1>0, <1>1, SeeKeeps DEF NoteLook, files
  <2>2. AgentOK' /\ NoteOK' /\ AppOK'
    BY <1>0, <2>1, KeepsReaders DEF ShownInv, NoteOK, Keeps
  <2> QED BY <1>0, <2>1, <2>2 DEF ShownInv, MainOK, DialogShown, Keeps, Others
<1>2. CASE NoteFlags
  <2>1. /\ Keeps("note") /\ hook'["note"].at = "nwrite" /\ stale' = stale
        /\ hook'["note"].saw = NotifyStatus(hook["note"].saw)
    BY <1>0, <1>2, SeeingKeeps DEF NoteFlags, files
  <2>2. NoteOK'
    BY <1>2, <2>1, NotifyNeeds DEF NoteFlags, ShownInv, NoteOK, Keeps
  <2>3. AgentOK' /\ AppOK'
    BY <1>0, <2>1, KeepsReaders DEF ShownInv
  <2> QED BY <1>0, <2>1, <2>2, <2>3 DEF ShownInv, MainOK, DialogShown, Keeps, Others
<1>3. CASE NoteWrite
  <2>1. /\ Spoils("note") /\ hook'["note"].at = "rest" /\ word' = hook["note"].saw
        /\ "note" \in stale => lost'
    BY <1>0, <1>3, EndingSpoils DEF NoteWrite, Write, Overwrite
  <2>2. AgentOK' /\ NoteOK' /\ AppOK'
    BY <2>1, SpoilsReaders DEF ShownInv, NoteOK
  <2>3. "note" \notin stale => ~lost /\ (word' = "needs" <=> word = "needs")
    BY <1>3, <2>1 DEF NoteWrite, ShownInv, NoteOK
  <2>4. DialogShown'
    BY <1>0, <2>1, <2>3 DEF ShownInv, DialogShown
  <2> QED BY <1>0, <2>1, <2>2, <2>4 DEF ShownInv, MainOK, Spoils, Others
<1> QED BY <1>1, <1>2, <1>3 DEF Notification

\* The app clears a dialog only when it is gone.
LEMMA AppShown ==
    ASSUME ShownInv, TypeOK', App
    PROVE  ShownInv'
<1> USE DEF At, Slot
<1>0. TypeOK /\ UNCHANGED <<turn, logged, verdict>>
  BY DEF ShownInv, App, AppLook, AppJudge, AppClear, claude, transcript
<1>1. CASE AppLook
  <2>1. Keeps("app") /\ hook'["app"].at = "judge"
    BY <1>0, <1>1, SeeKeeps DEF AppLook, files
  <2>2. AgentOK' /\ NoteOK' /\ AppOK'
    BY <2>1, KeepsReaders DEF ShownInv, AppOK
  <2> QED BY <1>0, <2>1, <2>2 DEF ShownInv, MainOK, DialogShown, Keeps, Others
<1>2. CASE AppJudge
  <2>1. Keeps("app") /\ (hook'["app"].at = "clear" => logged /\ verdict \in Dismissed)
    BY <1>0, <1>2, SeeingKeeps, DoneKeeps DEF AppJudge, files
  <2>2. AgentOK' /\ NoteOK'
    BY <2>1, KeepsReaders DEF ShownInv
  <2>3. AppOK'
    BY <1>0, <2>1 DEF ShownInv, MainOK, AppOK, Dismissed
  <2> QED BY <1>0, <2>1, <2>2, <2>3 DEF ShownInv, MainOK, DialogShown, Keeps, Others
<1>3. CASE AppClear
  <2>1. Spoils("app") /\ hook'["app"].at = "rest" /\ ("app" \in stale => lost')
    BY <1>0, <1>3, EndingSpoils DEF AppClear, Write
  <2>2. AgentOK' /\ NoteOK' /\ AppOK'
    BY <2>1, SpoilsReaders DEF ShownInv, AppOK
  <2>3. DialogShown'
    BY <1>0, <1>3, <2>1 DEF AppClear, ShownInv, AppOK, DialogShown
  <2> QED BY <1>0, <2>1, <2>2, <2>3 DEF ShownInv, MainOK, Spoils, Others
<1> QED BY <1>1, <1>2, <1>3 DEF App

\* What happens outside the processes does not hide a dialog, nor open one.
LEMMA OutsideShown ==
    ASSUME ShownInv, TypeOK', UNCHANGED <<word, hook, stale, lost>>,
           turn' # "dialog" \/ UNCHANGED <<turn, logged, verdict>>,
           hook["main"].at \in {"dialog", "needs"} => UNCHANGED <<turn, logged>>
    PROVE  ShownInv'
<1>1. AgentOK' /\ NoteOK' /\ AppOK'
  BY DEF ShownInv, AgentOK, NoteOK, AppOK
<1>2. MainOK'
  BY DEF ShownInv, MainOK
<1>3. DialogShown'
  BY DEF ShownInv, DialogShown
<1> QED BY <1>1, <1>2, <1>3 DEF ShownInv

\* An event neither shows a dialog nor changes what shows.
LEMMA EventShown ==
    ASSUME ShownInv, TypeOK', Event
    PROVE  ShownInv'
<1> USE DEF At, Slot
<1>0. TypeOK /\ (hook["main"].at # "rest" => turn # "dialog")
  BY DEF ShownInv, MainOK
<1>1. CASE \E kind \in {"user", "task", "orphan"} : Submit(kind)
  <2> PICK kind \in {"user", "task", "orphan"} : Submit(kind)
    BY <1>1
  <2>1. Keeps("main") /\ hook'["main"].at = "prior" /\ turn' # "dialog"
    BY <1>0, BeginKeeps DEF Submit, files, Trigger
  <2> QED BY <2>1, MainStep DEF Trigger
<1>2. CASE \E arg \in {"tool", "rearm"} : ToolDone(arg)
  <2> PICK arg \in {"tool", "rearm"} : ToolDone(arg)
    BY <1>2
  <2>1. Keeps("main") /\ hook'["main"].at = "tool" /\ turn' # "dialog"
    BY <1>0, BeginKeeps DEF ToolDone, files, Trigger
  <2> QED BY <2>1, MainStep DEF Trigger
<1>3. CASE \E trigger \in Trigger : Compact(trigger)
  <2> PICK trigger \in Trigger : Compact(trigger)
    BY <1>3
  <2>1. Keeps("main") /\ hook'["main"].at = trigger /\ turn' # "dialog"
    BY <1>0, BeginKeeps DEF Compact, files, Trigger
  <2> QED BY <2>1, MainStep DEF Trigger
<1>4. CASE Answer
  <2>1. Keeps("main") /\ hook'["main"].at = "tool" /\ turn' # "dialog"
    BY <1>0, <1>4, BeginKeeps DEF Answer, files, claude, Trigger
  <2> QED BY <2>1, MainStep
<1>5. CASE StopTurn
  <2>1. Keeps("main") /\ hook'["main"].at = "stop" /\ turn' # "dialog"
    BY <1>0, <1>5, BeginKeeps DEF StopTurn, files, claude, Trigger
  <2> QED BY <2>1, MainStep
<1>6. CASE CompactEnds
  <2>1. Keeps("main") /\ hook'["main"].at = "compacted" /\ turn' # "dialog"
    BY <1>0, <1>6, BeginKeeps DEF CompactEnds, files, claude, Trigger
  <2> QED BY <2>1, MainStep
<1>7. CASE AgentTool
  <2>1. /\ Keeps("agent") /\ hook'["agent"].at = "tool" /\ hook'["agent"].arg = "tool"
        /\ UNCHANGED <<turn, logged, verdict>>
    BY <1>0, <1>7, BeginKeeps DEF AgentTool, files, claude, transcript
  <2>2. AgentOK' /\ NoteOK' /\ AppOK'
    BY <2>1, KeepsReaders DEF ShownInv, AgentOK
  <2> QED BY <2>1, <2>2 DEF ShownInv, MainOK, DialogShown, Keeps, Others
<1>8. CASE Ask
  <2>1. Keeps("main") /\ hook'["main"].at = "dialog" /\ turn = "running" /\ turn' = turn
    BY <1>0, <1>8, BeginKeeps DEF Ask, files
  <2>2. AgentOK' /\ NoteOK' /\ AppOK'
    BY <2>1, KeepsReaders DEF ShownInv
  <2> QED BY <2>1, <2>2 DEF ShownInv, MainOK, DialogShown
<1>9. CASE Escape
  <2>1. /\ UNCHANGED <<word, hook, stale, lost>>
        /\ turn' # "dialog" \/ UNCHANGED <<turn, logged, verdict>>
        /\ hook["main"].at \in {"dialog", "needs"} => UNCHANGED <<turn, logged>>
    BY <1>0, <1>9 DEF Escape, EndTurn, Free, Rest, Trigger, files, transcript, procs
  <2> QED BY <2>1, OutsideShown
<1>10. CASE Reject
  <2>1. /\ UNCHANGED <<word, hook, stale, lost>>
        /\ turn' # "dialog" \/ UNCHANGED <<turn, logged, verdict>>
        /\ hook["main"].at \in {"dialog", "needs"} => UNCHANGED <<turn, logged>>
    BY <1>0, <1>10 DEF Reject, EndTurn, Free, Rest, Trigger, files, transcript, procs
  <2> QED BY <2>1, OutsideShown
<1>11. CASE CompactFails
  <2>1. /\ UNCHANGED <<word, hook, stale, lost>>
        /\ turn' # "dialog" \/ UNCHANGED <<turn, logged, verdict>>
        /\ hook["main"].at \in {"dialog", "needs"} => UNCHANGED <<turn, logged>>
    BY <1>0, <1>11 DEF CompactFails, EndTurn, Free, Rest, Trigger, files, transcript, procs
  <2> QED BY <2>1, OutsideShown
<1>12. CASE Interrupt
  <2>1. /\ UNCHANGED <<word, hook, stale, lost>>
        /\ turn' # "dialog" \/ UNCHANGED <<turn, logged, verdict>>
        /\ hook["main"].at \in {"dialog", "needs"} => UNCHANGED <<turn, logged>>
    BY <1>0, <1>12 DEF Interrupt, EndTurn, Free, Rest, Trigger, files, transcript, procs
  <2> QED BY <2>1, OutsideShown
<1>13. CASE WorkStarts
  <2>1. /\ UNCHANGED <<word, hook, stale, lost>>
        /\ turn' # "dialog" \/ UNCHANGED <<turn, logged, verdict>>
        /\ hook["main"].at \in {"dialog", "needs"} => UNCHANGED <<turn, logged>>
    BY <1>0, <1>13 DEF WorkStarts, EndTurn, Free, Rest, Trigger, files, transcript, procs
  <2> QED BY <2>1, OutsideShown
<1>14. CASE WorkEnds
  <2>1. /\ UNCHANGED <<word, hook, stale, lost>>
        /\ turn' # "dialog" \/ UNCHANGED <<turn, logged, verdict>>
        /\ hook["main"].at \in {"dialog", "needs"} => UNCHANGED <<turn, logged>>
    BY <1>0, <1>14 DEF WorkEnds, EndTurn, Free, Rest, Trigger, files, transcript, procs
  <2> QED BY <2>1, OutsideShown
<1>15. CASE Restart
  <2>1. turn' = "idle" /\ \A s \in Slot : hook'[s].at = "rest"
    BY <1>15 DEF Restart, Anew, EndTurn, Rest
  <2> QED BY <2>1 DEF ShownInv, MainOK, AgentOK, NoteOK, AppOK, DialogShown
<1>16. CASE Relaunch
  <2>1. turn' = "idle" /\ \A s \in Slot : hook'[s].at = "rest"
    BY <1>16 DEF Relaunch, Anew, EndTurn, Rest
  <2> QED BY <2>1 DEF ShownInv, MainOK, AgentOK, NoteOK, AppOK, DialogShown
<1> QED BY <1>1, <1>2, <1>3, <1>4, <1>5, <1>6, <1>7, <1>8, <1>9, <1>10, <1>11, <1>12, <1>13, <1>14, <1>15, <1>16 DEF Event

\* A claude starts without a dialog on screen.
LEMMA ShownStart == Init => ShownInv
<1> SUFFICES ASSUME Init PROVE ShownInv
  OBVIOUS
<1>1. TypeOK
  BY InitTyped
<1>2. turn = "idle" /\ \A s \in Slot : hook[s].at = "rest"
  BY DEF Init, Rest
<1> QED BY <1>1, <1>2 DEF ShownInv, MainOK, AgentOK, NoteOK, AppOK, DialogShown, Slot

\* No step hides one, nor opens one behind the word's back.
LEMMA ShownStep == ShownInv /\ [Next]_vars => ShownInv'
<1> SUFFICES ASSUME ShownInv, [Next]_vars PROVE ShownInv'
  OBVIOUS
<1>0. TypeOK'
  BY NextTyped DEF ShownInv
<1>1. CASE Main
  BY <1>0, <1>1, MainShown
<1>2. CASE Agent
  BY <1>0, <1>2, AgentShown
<1>3. CASE Notification
  BY <1>0, <1>3, NotificationShown
<1>4. CASE App
  BY <1>0, <1>4, AppShown
<1>5. CASE LogDialog
  <2>1. /\ UNCHANGED <<word, turn, hook, stale, lost>> /\ turn = "dialog"
        /\ verdict' = "open"
    BY <1>5 DEF LogDialog, files, claude, procs
  <2>2. AgentOK' /\ NoteOK' /\ AppOK' /\ DialogShown'
    BY <2>1 DEF ShownInv, AgentOK, NoteOK, AppOK, DialogShown
  <2>3. MainOK'
    BY <2>1 DEF ShownInv, MainOK
  <2> QED BY <1>0, <2>2, <2>3 DEF ShownInv
<1>6. CASE Notify
  <2>1. /\ Keeps("note") /\ hook'["note"].at = "nlook"
        /\ UNCHANGED <<turn, logged, verdict>>
    BY <1>6, BeginKeeps DEF Notify, ShownInv, Slot, files, transcript
  <2>2. AgentOK' /\ NoteOK' /\ AppOK'
    BY <2>1, KeepsReaders DEF ShownInv, NoteOK, Slot
  <2> QED BY <1>0, <2>1, <2>2 DEF ShownInv, MainOK, DialogShown, Keeps, Others, Slot
<1>7. CASE Event
  BY <1>0, <1>7, EventShown
<1>8. CASE UNCHANGED vars
  <2>1. UNCHANGED <<word, hook, stale, lost, turn, logged, verdict>>
    BY <1>8 DEF vars, files, claude, transcript, procs
  <2> QED BY <1>0, <2>1, OutsideShown
<1> QED BY <1>1, <1>2, <1>3, <1>4, <1>5, <1>6, <1>7, <1>8 DEF Next

\* A dialog on screen shows as `needs` (DialogShown) however the hooks of a background
\* agent, a notification and the app's pass overlap it, unless a write was lost.
THEOREM DialogAlwaysShown == Spec => []DialogShown
<1>1. ShownInv => DialogShown
  BY DEF ShownInv
<1> QED BY <1>1, ShownStart, ShownStep, PTL DEF Spec

\* The word is typed, and shows a dialog that is on screen.
THEOREM WordIsSafe == Spec => []WordInv
  BY WordTyped, DialogAlwaysShown, PTL DEF WordInv

-----------------------------------------------------------------------------
(* That a turn at work shows, and is not taken for background work: where  *)
(* the turn is while its own hook runs, what those who read the word know  *)
(* of it and of the dialog it may stand for, and from where on the word is *)
(* the turn's.                                                             *)

Own == hook["main"]

\* The flag that is newer than the word is a turn's that ended, or of a hook that is
\* about to write the word.
NewerOK ==
    newer => \/ turn = "idle" /\ Own.at = "rest"
             \/ Own.at \in {"prior", "working", "goon", "preword"} \cup Trigger

\* The claude waits for its own hook: the turn is the one that hook was run for.
PhaseOK ==
    /\ Own.at \in {"prior", "working", "uncompact", "restore", "swallow", "tool", "decide",
                 "stop", "mail", "goon", "endflag"} => turn = "running"
    /\ Own.at \in Trigger => turn = Own.at
    /\ Own.at \in {"preword", "compacted", "uncompacted"} => turn \in Trigger
    /\ turn = "auto" /\ Own.at # "auto" => compacting = "auto"
    /\ Own.at \in {"prior", "working", "uncompact"} /\ Own.arg # "user" => ~acted
    /\ Own.at \in {"restore", "swallow"} => ~acted

\* Whoever read a word that was lost, or a later one that is, is stale.
StaleOK == lost => \A s \in Slot : hook[s].at \in Reading => s \in stale

\* The word a turn at work may show.
ShownWord == word = "working" \/ (verdict \in Dismissed /\ word \in {"needs", verdict})

\* `needs` without a dialog on screen is of one that was dismissed, or that is being
\* answered.
NeedsOK ==
    /\ word = "needs" /\ ~lost /\ turn # "dialog" =>
         verdict \in Dismissed \/ (Own.at \in {"tool", "decide"} /\ Own.arg = "dialog")
    /\ Own.at \in {"working", "uncompact", "restore", "swallow"} /\ "main" \notin stale
         /\ Own.saw = "needs" => verdict \in Dismissed
    /\ Own.at = "decide" /\ Own.arg # "dialog" /\ Own.saw = "needs" /\ ~lost => ShownWord

\* What the app's pass knows unless it is stale.
PassOK ==
    "app" \notin stale =>
      /\ hook["app"].at \in {"judge", "clear"} => ~lost /\ word = "needs"
      /\ hook["app"].at = "clear" => hook["app"].saw = verdict /\ verdict \in Dismissed

\* From where on the word is the turn's.
WorkShown ==
    ~lost =>
      /\ turn = "running" /\ acted
           /\ \/ Own.at \in {"rest", "uncompact"}
              \/ Own.at \in {"tool", "decide"} /\ Own.arg = "rearm"
           => ShownWord
      /\ turn = "auto" /\ Own.at = "uncompacted" => ShownWord

WorkInv == NewerOK /\ PhaseOK /\ StaleOK /\ NeedsOK /\ PassOK /\ WorkShown

\* No step leaves one who read a word that is lost taken for one who read the word.
LEMMA DoneStale ==
    ASSUME TypeOK, StaleOK, NEW s \in Slot, Done(s)
    PROVE  StaleOK'
BY DEF TypeOK, StaleOK, Done, Ending, Rest, Reading

LEMMA GoStale ==
    ASSUME TypeOK, StaleOK, NEW s \in Slot, NEW step, Go(s, step),
           step \notin Reading \/ hook[s].at \in Reading
    PROVE  StaleOK'
BY DEF TypeOK, StaleOK, Go, Going, Process

LEMMA SeeStale ==
    ASSUME TypeOK, StaleOK, NEW s \in Slot, NEW step, See(s, step)
    PROVE  StaleOK'
BY DEF TypeOK, StaleOK, See, Seeing, Process

LEMMA WriteStale ==
    ASSUME TypeOK, NEW s \in Slot, NEW w, Ending(s), Write(s, w)
    PROVE  StaleOK'
BY DEF TypeOK, StaleOK, Write, Overwrite, Ending, Rest, Reading

\* userpromptsubmit keeps the invariant.
LEMMA PromptWorks ==
    ASSUME WorkInv, ShownInv, TypeOK', Prompt
    PROVE  WorkInv'
<1> USE DEF At, Slot, WorkInv, ShownInv, Trigger, Dismissed, Own, TypeOK, Process, Rest,
      See, Seeing, Go, Going, Done, Ending, Set, Write, Overwrite
<1>1. CASE ReadPrior
  <2>1. \A s \in {"agent", "note", "app"} : hook'[s] = hook[s]
    BY <1>1 DEF ReadPrior
  <2>2. NewerOK'
    BY <1>1, <2>1 DEF ReadPrior, NewerOK, PhaseOK, SetBg, EndTurn, claude, files
  <2>3. PhaseOK'
    BY <1>1, <2>1 DEF ReadPrior, PhaseOK, EndTurn, claude, files
  <2>4. StaleOK'
    BY <1>1, <2>1 DEF ReadPrior, StaleOK, Reading
  <2>5. NeedsOK'
    BY <1>1, <2>1 DEF ReadPrior, NeedsOK, PhaseOK, ShownWord, MainOK, EndTurn, StaleOK, files,
       claude, transcript, Reading
  <2>6. PassOK'
    BY <1>1, <2>1 DEF ReadPrior, PassOK, files, claude, transcript, Reading, MainOK, AppOK,
       EndTurn
  <2>7. WorkShown'
    BY <1>1, <2>1 DEF ReadPrior, WorkShown, NeedsOK, PhaseOK, ShownWord, MainOK, EndTurn,
       files, claude, transcript, Reading
  <2> QED BY <2>2, <2>3, <2>4, <2>5, <2>6, <2>7
<1>2. CASE MarkWorking
  <2>1. \A s \in {"agent", "note", "app"} : hook'[s] = hook[s]
    BY <1>2 DEF MarkWorking
  <2>2. NewerOK'
    BY <1>2, <2>1 DEF MarkWorking, NewerOK, PhaseOK, SetBg, EndTurn, claude, files
  <2>3. PhaseOK'
    BY <1>2, <2>1 DEF MarkWorking, PhaseOK, EndTurn, claude, files
  <2>4. StaleOK'
    BY <1>2, <2>1 DEF MarkWorking, StaleOK, Reading
  <2>5. NeedsOK'
    BY <1>2, <2>1 DEF MarkWorking, NeedsOK, PhaseOK, ShownWord, MainOK, EndTurn, StaleOK,
       files, claude, transcript, Reading
  <2>6. PassOK'
    BY <1>2, <2>1 DEF MarkWorking, PassOK, files, claude, transcript, Reading, MainOK, AppOK,
       EndTurn
  <2>7. WorkShown'
    BY <1>2, <2>1 DEF MarkWorking, WorkShown, NeedsOK, PhaseOK, ShownWord, MainOK, EndTurn,
       files, claude, transcript, Reading
  <2> QED BY <2>2, <2>3, <2>4, <2>5, <2>6, <2>7
<1>3. CASE Uncompact
  <2>1. \A s \in {"agent", "note", "app"} : hook'[s] = hook[s]
    BY <1>3 DEF Uncompact
  <2>2. NewerOK'
    BY <1>3, <2>1 DEF Uncompact, NewerOK, PhaseOK, SetBg, EndTurn, claude, files
  <2>3. PhaseOK'
    BY <1>3, <2>1 DEF Uncompact, PhaseOK, EndTurn, claude, files
  <2>4. StaleOK'
    BY <1>3, DoneStale, GoStale DEF Uncompact, Reading
  <2>5. NeedsOK'
    BY <1>3, <2>1 DEF Uncompact, NeedsOK, PhaseOK, ShownWord, MainOK, EndTurn, StaleOK, files,
       claude, transcript, Reading
  <2>6. PassOK'
    BY <1>3, <2>1 DEF Uncompact, PassOK, files, claude, transcript, Reading, MainOK, AppOK,
       EndTurn
  <2>7. WorkShown'
    BY <1>3, <2>1 DEF Uncompact, WorkShown, NeedsOK, PhaseOK, ShownWord, MainOK, EndTurn,
       files, claude, transcript, Reading
  <2> QED BY <2>2, <2>3, <2>4, <2>5, <2>6, <2>7
<1>4. CASE Restore
  <2>1. \A s \in {"agent", "note", "app"} : hook'[s] = hook[s]
    BY <1>4 DEF Restore
  <2>2. NewerOK'
    BY <1>4, <2>1 DEF Restore, NewerOK, PhaseOK, SetBg, EndTurn, claude, files
  <2>3. PhaseOK'
    BY <1>4, <2>1 DEF Restore, PhaseOK, EndTurn, claude, files
  <2>4. StaleOK'
    BY <1>4, <2>1 DEF Restore, StaleOK, Reading
  <2>5. NeedsOK'
    <3>1. /\ word' = hook["main"].saw /\ hook'["main"].at \in {"swallow", "rest"}
          /\ hook'["main"].at = "swallow" => hook'["main"].saw = hook["main"].saw
      BY <1>4 DEF Restore
    <3>2. /\ lost' <=> "main" \in stale
          /\ hook'["main"].at = "swallow" /\ "main" \in stale => "main" \in stale'
      BY <1>4 DEF Restore, Reading
    <3>3. verdict' = verdict
      BY <1>4 DEF Restore, transcript
    <3> QED BY <1>4, <3>1, <3>2, <3>3 DEF Restore, NeedsOK
  <2>6. PassOK'
    BY <1>4, <2>1 DEF Restore, PassOK, files, claude, transcript, Reading, MainOK, AppOK,
       EndTurn
  <2>7. WorkShown'
    BY <1>4, <2>1 DEF Restore, WorkShown, NeedsOK, PhaseOK, ShownWord, MainOK, EndTurn, files,
       claude, transcript, Reading
  <2> QED BY <2>2, <2>3, <2>4, <2>5, <2>6, <2>7
<1>5. CASE Sanctioned
  <2>1. \A s \in {"agent", "note", "app"} : hook'[s] = hook[s]
    BY <1>5 DEF Sanctioned
  <2>2. NewerOK'
    BY <1>5, <2>1 DEF Sanctioned, NewerOK, PhaseOK, SetBg, EndTurn, claude, files
  <2>3. PhaseOK'
    BY <1>5, <2>1 DEF Sanctioned, PhaseOK, EndTurn, claude, files
  <2>4. StaleOK'
    BY <1>5, <2>1 DEF Sanctioned, StaleOK, Reading
  <2>5. NeedsOK'
    BY <1>5, <2>1 DEF Sanctioned, NeedsOK, PhaseOK, ShownWord, MainOK, EndTurn, StaleOK,
       files, claude, transcript, Reading
  <2>6. PassOK'
    BY <1>5, <2>1 DEF Sanctioned, PassOK, files, claude, transcript, Reading, MainOK, AppOK,
       EndTurn
  <2>7. WorkShown'
    BY <1>5, <2>1 DEF Sanctioned, WorkShown, NeedsOK, PhaseOK, ShownWord, MainOK, EndTurn,
       files, claude, transcript, Reading
  <2> QED BY <2>2, <2>3, <2>4, <2>5, <2>6, <2>7
<1>6. CASE Swallowed
  <2>1. \A s \in {"agent", "note", "app"} : hook'[s] = hook[s]
    BY <1>6 DEF Swallowed
  <2>2. NewerOK'
    BY <1>6, <2>1 DEF Swallowed, NewerOK, PhaseOK, SetBg, EndTurn, claude, files
  <2>3. PhaseOK'
    BY <1>6, <2>1 DEF Swallowed, PhaseOK, EndTurn, claude, files
  <2>4. StaleOK'
    BY <1>6, <2>1 DEF Swallowed, StaleOK, Reading
  <2>5. NeedsOK'
    BY <1>6, <2>1 DEF Swallowed, NeedsOK, PhaseOK, ShownWord, MainOK, EndTurn, StaleOK, files,
       claude, transcript, Reading
  <2>6. PassOK'
    BY <1>6, <2>1 DEF Swallowed, PassOK, files, claude, transcript, Reading, MainOK, AppOK,
       EndTurn
  <2>7. WorkShown'
    BY <1>6, <2>1 DEF Swallowed, WorkShown, NeedsOK, PhaseOK, ShownWord, MainOK, EndTurn,
       files, claude, transcript, Reading
  <2> QED BY <2>2, <2>3, <2>4, <2>5, <2>6, <2>7
<1> QED BY <1>1, <1>2, <1>3, <1>4, <1>5, <1>6 DEF Prompt

\* askq and plan keeps the invariant.
LEMMA DialogWorks ==
    ASSUME WorkInv, ShownInv, TypeOK', Dialog
    PROVE  WorkInv'
<1> USE DEF At, Slot, WorkInv, ShownInv, Trigger, Dismissed, Own, TypeOK, Process, Rest,
      See, Seeing, Go, Going, Done, Ending, Set, Write, Overwrite
<1>1. CASE WriteDialog
  <2>1. \A s \in {"agent", "note", "app"} : hook'[s] = hook[s]
    BY <1>1 DEF WriteDialog
  <2>2. NewerOK'
    BY <1>1, <2>1 DEF WriteDialog, NewerOK, PhaseOK, SetBg, EndTurn, claude, files
  <2>3. PhaseOK'
    BY <1>1, <2>1 DEF WriteDialog, PhaseOK, EndTurn, claude, files
  <2>4. StaleOK'
    BY <1>1, <2>1 DEF WriteDialog, StaleOK, Reading
  <2>5. NeedsOK'
    BY <1>1, <2>1 DEF WriteDialog, NeedsOK, PhaseOK, ShownWord, MainOK, EndTurn, StaleOK,
       files, claude, transcript, Reading
  <2>6. PassOK'
    BY <1>1, <2>1 DEF WriteDialog, PassOK, files, claude, transcript, Reading, MainOK, AppOK,
       EndTurn
  <2>7. WorkShown'
    BY <1>1, <2>1 DEF WriteDialog, WorkShown, NeedsOK, PhaseOK, ShownWord, MainOK, EndTurn,
       files, claude, transcript, Reading
  <2> QED BY <2>2, <2>3, <2>4, <2>5, <2>6, <2>7
<1>2. CASE WriteNeeds
  <2>1. \A s \in {"agent", "note", "app"} : hook'[s] = hook[s]
    BY <1>2 DEF WriteNeeds
  <2>2. NewerOK'
    BY <1>2, <2>1 DEF WriteNeeds, NewerOK, PhaseOK, SetBg, EndTurn, claude, files
  <2>3. PhaseOK'
    BY <1>2, <2>1 DEF WriteNeeds, PhaseOK, EndTurn, claude, files
  <2>4. StaleOK'
    BY <1>2, <2>1 DEF WriteNeeds, StaleOK, Reading
  <2>5. NeedsOK'
    BY <1>2, <2>1 DEF WriteNeeds, NeedsOK, PhaseOK, ShownWord, MainOK, EndTurn, StaleOK,
       files, claude, transcript, Reading
  <2>6. PassOK'
    BY <1>2, <2>1 DEF WriteNeeds, PassOK, files, claude, transcript, Reading, MainOK, AppOK,
       EndTurn
  <2>7. WorkShown'
    BY <1>2, <2>1 DEF WriteNeeds, WorkShown, NeedsOK, PhaseOK, ShownWord, MainOK, EndTurn,
       files, claude, transcript, Reading
  <2> QED BY <2>2, <2>3, <2>4, <2>5, <2>6, <2>7
<1> QED BY <1>1, <1>2 DEF Dialog

\* stop keeps the invariant.
LEMMA StopWorks ==
    ASSUME WorkInv, ShownInv, TypeOK', Stop
    PROVE  WorkInv'
<1> USE DEF At, Slot, WorkInv, ShownInv, Trigger, Dismissed, Own, TypeOK, Process, Rest,
      See, Seeing, Go, Going, Done, Ending, Set, Write, Overwrite
<1>1. CASE StopCompacting
  <2>1. \A s \in {"agent", "note", "app"} : hook'[s] = hook[s]
    BY <1>1 DEF StopCompacting
  <2>2. NewerOK'
    BY <1>1, <2>1 DEF StopCompacting, NewerOK, PhaseOK, SetBg, EndTurn, claude, files
  <2>3. PhaseOK'
    BY <1>1, <2>1 DEF StopCompacting, PhaseOK, EndTurn, claude, files
  <2>4. StaleOK'
    BY <1>1, <2>1 DEF StopCompacting, StaleOK, Reading
  <2>5. NeedsOK'
    BY <1>1, <2>1 DEF StopCompacting, NeedsOK, PhaseOK, ShownWord, MainOK, EndTurn, StaleOK,
       files, claude, transcript, Reading
  <2>6. PassOK'
    BY <1>1, <2>1 DEF StopCompacting, PassOK, files, claude, transcript, Reading, MainOK,
       AppOK, EndTurn
  <2>7. WorkShown'
    BY <1>1, <2>1 DEF StopCompacting, WorkShown, NeedsOK, PhaseOK, ShownWord, MainOK, EndTurn,
       files, claude, transcript, Reading
  <2> QED BY <2>2, <2>3, <2>4, <2>5, <2>6, <2>7
<1>2. CASE BlockFlag
  <2>1. \A s \in {"agent", "note", "app"} : hook'[s] = hook[s]
    BY <1>2 DEF BlockFlag
  <2>2. NewerOK'
    BY <1>2, <2>1 DEF BlockFlag, NewerOK, PhaseOK, SetBg, EndTurn, claude, files
  <2>3. PhaseOK'
    BY <1>2, <2>1 DEF BlockFlag, PhaseOK, EndTurn, claude, files
  <2>4. StaleOK'
    BY <1>2, <2>1 DEF BlockFlag, StaleOK, Reading
  <2>5. NeedsOK'
    BY <1>2, <2>1 DEF BlockFlag, NeedsOK, PhaseOK, ShownWord, MainOK, EndTurn, StaleOK, files,
       claude, transcript, Reading
  <2>6. PassOK'
    BY <1>2, <2>1 DEF BlockFlag, PassOK, files, claude, transcript, Reading, MainOK, AppOK,
       EndTurn
  <2>7. WorkShown'
    BY <1>2, <2>1 DEF BlockFlag, WorkShown, NeedsOK, PhaseOK, ShownWord, MainOK, EndTurn,
       files, claude, transcript, Reading
  <2> QED BY <2>2, <2>3, <2>4, <2>5, <2>6, <2>7
<1>3. CASE BlockWord
  <2>1. \A s \in {"agent", "note", "app"} : hook'[s] = hook[s]
    BY <1>3 DEF BlockWord
  <2>2. NewerOK'
    BY <1>3, <2>1 DEF BlockWord, NewerOK, PhaseOK, SetBg, EndTurn, claude, files
  <2>3. PhaseOK'
    BY <1>3, <2>1 DEF BlockWord, PhaseOK, EndTurn, claude, files
  <2>4. StaleOK'
    BY <1>3, <2>1 DEF BlockWord, StaleOK, Reading
  <2>5. NeedsOK'
    BY <1>3, <2>1 DEF BlockWord, NeedsOK, PhaseOK, ShownWord, MainOK, EndTurn, StaleOK, files,
       claude, transcript, Reading
  <2>6. PassOK'
    BY <1>3, <2>1 DEF BlockWord, PassOK, files, claude, transcript, Reading, MainOK, AppOK,
       EndTurn
  <2>7. WorkShown'
    BY <1>3, <2>1 DEF BlockWord, WorkShown, NeedsOK, PhaseOK, ShownWord, MainOK, EndTurn,
       files, claude, transcript, Reading
  <2> QED BY <2>2, <2>3, <2>4, <2>5, <2>6, <2>7
<1>4. CASE EndWord
  <2>1. \A s \in {"agent", "note", "app"} : hook'[s] = hook[s]
    BY <1>4 DEF EndWord
  <2>2. NewerOK'
    BY <1>4, <2>1 DEF EndWord, NewerOK, PhaseOK, SetBg, EndTurn, claude, files
  <2>3. PhaseOK'
    BY <1>4, <2>1 DEF EndWord, PhaseOK, EndTurn, claude, files
  <2>4. StaleOK'
    BY <1>4, <2>1 DEF EndWord, StaleOK, Reading
  <2>5. NeedsOK'
    BY <1>4, <2>1 DEF EndWord, NeedsOK, PhaseOK, ShownWord, MainOK, EndTurn, StaleOK, files,
       claude, transcript, Reading
  <2>6. PassOK'
    BY <1>4, <2>1 DEF EndWord, PassOK, files, claude, transcript, Reading, MainOK, AppOK,
       EndTurn
  <2>7. WorkShown'
    BY <1>4, <2>1 DEF EndWord, WorkShown, NeedsOK, PhaseOK, ShownWord, MainOK, EndTurn, files,
       claude, transcript, Reading
  <2> QED BY <2>2, <2>3, <2>4, <2>5, <2>6, <2>7
<1>5. CASE EndFlag
  <2>1. \A s \in {"agent", "note", "app"} : hook'[s] = hook[s]
    BY <1>5 DEF EndFlag
  <2>2. NewerOK'
    BY <1>5, <2>1 DEF EndFlag, NewerOK, PhaseOK, SetBg, EndTurn, claude, files
  <2>3. PhaseOK'
    BY <1>5, <2>1 DEF EndFlag, PhaseOK, EndTurn, claude, files
  <2>4. StaleOK'
    BY <1>5, <2>1 DEF EndFlag, StaleOK, Reading
  <2>5. NeedsOK'
    BY <1>5, <2>1 DEF EndFlag, NeedsOK, PhaseOK, ShownWord, MainOK, EndTurn, StaleOK, files,
       claude, transcript, Reading
  <2>6. PassOK'
    BY <1>5, <2>1 DEF EndFlag, PassOK, files, claude, transcript, Reading, MainOK, AppOK,
       EndTurn
  <2>7. WorkShown'
    BY <1>5, <2>1 DEF EndFlag, WorkShown, NeedsOK, PhaseOK, ShownWord, MainOK, EndTurn, files,
       claude, transcript, Reading
  <2> QED BY <2>2, <2>3, <2>4, <2>5, <2>6, <2>7
<1> QED BY <1>1, <1>2, <1>3, <1>4, <1>5 DEF Stop

\* precompact and sessionstart keeps the invariant.
LEMMA CompactionWorks ==
    ASSUME WorkInv, ShownInv, TypeOK', Compaction
    PROVE  WorkInv'
<1> USE DEF At, Slot, WorkInv, ShownInv, Trigger, Dismissed, Own, TypeOK, Process, Rest,
      See, Seeing, Go, Going, Done, Ending, Set, Write, Overwrite
<1>1. CASE PreFlag
  <2>1. \A s \in {"agent", "note", "app"} : hook'[s] = hook[s]
    BY <1>1 DEF PreFlag
  <2>2. NewerOK'
    BY <1>1, <2>1 DEF PreFlag, NewerOK, PhaseOK, SetBg, EndTurn, claude, files
  <2>3. PhaseOK'
    BY <1>1, <2>1 DEF PreFlag, PhaseOK, EndTurn, claude, files
  <2>4. StaleOK'
    BY <1>1, <2>1 DEF PreFlag, StaleOK, Reading
  <2>5. NeedsOK'
    BY <1>1, <2>1 DEF PreFlag, NeedsOK, PhaseOK, ShownWord, MainOK, EndTurn, StaleOK, files,
       claude, transcript, Reading
  <2>6. PassOK'
    BY <1>1, <2>1 DEF PreFlag, PassOK, files, claude, transcript, Reading, MainOK, AppOK,
       EndTurn
  <2>7. WorkShown'
    BY <1>1, <2>1 DEF PreFlag, WorkShown, NeedsOK, PhaseOK, ShownWord, MainOK, EndTurn, files,
       claude, transcript, Reading
  <2> QED BY <2>2, <2>3, <2>4, <2>5, <2>6, <2>7
<1>2. CASE PreWord
  <2>1. \A s \in {"agent", "note", "app"} : hook'[s] = hook[s]
    BY <1>2 DEF PreWord
  <2>2. NewerOK'
    BY <1>2, <2>1 DEF PreWord, NewerOK, PhaseOK, SetBg, EndTurn, claude, files
  <2>3. PhaseOK'
    BY <1>2, <2>1 DEF PreWord, PhaseOK, EndTurn, claude, files
  <2>4. StaleOK'
    BY <1>2, <2>1 DEF PreWord, StaleOK, Reading
  <2>5. NeedsOK'
    BY <1>2, <2>1 DEF PreWord, NeedsOK, PhaseOK, ShownWord, MainOK, EndTurn, StaleOK, files,
       claude, transcript, Reading
  <2>6. PassOK'
    BY <1>2, <2>1 DEF PreWord, PassOK, files, claude, transcript, Reading, MainOK, AppOK,
       EndTurn
  <2>7. WorkShown'
    BY <1>2, <2>1 DEF PreWord, WorkShown, NeedsOK, PhaseOK, ShownWord, MainOK, EndTurn, files,
       claude, transcript, Reading
  <2> QED BY <2>2, <2>3, <2>4, <2>5, <2>6, <2>7
<1>3. CASE CompactedWord
  <2>1. \A s \in {"agent", "note", "app"} : hook'[s] = hook[s]
    BY <1>3 DEF CompactedWord
  <2>2. NewerOK'
    BY <1>3, <2>1 DEF CompactedWord, NewerOK, PhaseOK, SetBg, EndTurn, claude, files
  <2>3. PhaseOK'
    BY <1>3, <2>1 DEF CompactedWord, PhaseOK, EndTurn, claude, files
  <2>4. StaleOK'
    BY <1>3, <2>1 DEF CompactedWord, StaleOK, Reading
  <2>5. NeedsOK'
    BY <1>3, <2>1 DEF CompactedWord, NeedsOK, PhaseOK, ShownWord, MainOK, EndTurn, StaleOK,
       files, claude, transcript, Reading
  <2>6. PassOK'
    BY <1>3, <2>1 DEF CompactedWord, PassOK, files, claude, transcript, Reading, MainOK,
       AppOK, EndTurn
  <2>7. WorkShown'
    BY <1>3, <2>1 DEF CompactedWord, WorkShown, NeedsOK, PhaseOK, ShownWord, MainOK, EndTurn,
       files, claude, transcript, Reading
  <2> QED BY <2>2, <2>3, <2>4, <2>5, <2>6, <2>7
<1>4. CASE CompactedFlag
  <2>1. \A s \in {"agent", "note", "app"} : hook'[s] = hook[s]
    BY <1>4 DEF CompactedFlag
  <2>2. NewerOK'
    BY <1>4, <2>1 DEF CompactedFlag, NewerOK, PhaseOK, SetBg, EndTurn, claude, files
  <2>3. PhaseOK'
    BY <1>4, <2>1 DEF CompactedFlag, PhaseOK, EndTurn, claude, files
  <2>4. StaleOK'
    BY <1>4, <2>1 DEF CompactedFlag, StaleOK, Reading
  <2>5. NeedsOK'
    BY <1>4, <2>1 DEF CompactedFlag, NeedsOK, PhaseOK, ShownWord, MainOK, EndTurn, StaleOK,
       files, claude, transcript, Reading
  <2>6. PassOK'
    BY <1>4, <2>1 DEF CompactedFlag, PassOK, files, claude, transcript, Reading, MainOK,
       AppOK, EndTurn
  <2>7. WorkShown'
    BY <1>4, <2>1 DEF CompactedFlag, WorkShown, NeedsOK, PhaseOK, ShownWord, MainOK, EndTurn,
       files, claude, transcript, Reading
  <2> QED BY <2>2, <2>3, <2>4, <2>5, <2>6, <2>7
<1> QED BY <1>1, <1>2, <1>3, <1>4 DEF Compaction

\* posttooluse, of the claude's own call, keeps the invariant.
LEMMA OwnToolWorks ==
    ASSUME WorkInv, ShownInv, TypeOK', PostToolUse("main")
    PROVE  WorkInv'
<1> USE DEF At, Slot, WorkInv, ShownInv, Trigger, Dismissed, Own, TypeOK, Process, Rest,
      See, Seeing, Go, Going, Done, Ending, Set, Write, Overwrite
<1>1. CASE Unhush("main")
  <2>1. \A s \in {"agent", "note", "app"} : hook'[s] = hook[s]
    BY <1>1 DEF Unhush
  <2>2. NewerOK'
    BY <1>1, <2>1 DEF Unhush, NewerOK, PhaseOK, SetBg, EndTurn, claude, files
  <2>3. PhaseOK'
    BY <1>1, <2>1 DEF Unhush, PhaseOK, EndTurn, claude, files
  <2>4. StaleOK'
    BY <1>1, DoneStale, SeeStale DEF Unhush
  <2>5. NeedsOK'
    BY <1>1, <2>1 DEF Unhush, NeedsOK, PhaseOK, ShownWord, MainOK, EndTurn, StaleOK, files,
       claude, transcript, Reading
  <2>6. PassOK'
    BY <1>1, <2>1 DEF Unhush, PassOK, files, claude, transcript, Reading, MainOK, AppOK, EndTurn
  <2>7. WorkShown'
    BY <1>1, <2>1 DEF Unhush, WorkShown, NeedsOK, PhaseOK, ShownWord, MainOK, EndTurn, files,
       claude, transcript, Reading
  <2> QED BY <2>2, <2>3, <2>4, <2>5, <2>6, <2>7
<1>2. CASE WorkOn("main")
  <2>1. \A s \in {"agent", "note", "app"} : hook'[s] = hook[s]
    BY <1>2 DEF WorkOn
  <2>2. NewerOK'
    BY <1>2, <2>1 DEF WorkOn, NewerOK, PhaseOK, SetBg, EndTurn, claude, files
  <2>3. PhaseOK'
    BY <1>2, <2>1 DEF WorkOn, PhaseOK, EndTurn, claude, files
  <2>4. StaleOK'
    BY <1>2, DoneStale, WriteStale DEF WorkOn
  <2>5. NeedsOK'
    BY <1>2, <2>1 DEF WorkOn, NeedsOK, PhaseOK, ShownWord, MainOK, EndTurn, StaleOK, files,
       claude, transcript, Reading
  <2>6. PassOK'
    BY <1>2, <2>1 DEF WorkOn, PassOK, files, claude, transcript, Reading, MainOK, AppOK, EndTurn
  <2>7. WorkShown'
    BY <1>2, <2>1 DEF WorkOn, WorkShown, NeedsOK, PhaseOK, ShownWord, MainOK, EndTurn, files,
       claude, transcript, Reading
  <2> QED BY <2>2, <2>3, <2>4, <2>5, <2>6, <2>7
<1> QED BY <1>1, <1>2 DEF PostToolUse

\* posttooluse, of a background agent's call, keeps the invariant.
LEMMA AgentToolWorks ==
    ASSUME WorkInv, ShownInv, TypeOK', PostToolUse("agent")
    PROVE  WorkInv'
<1> USE DEF At, Slot, WorkInv, ShownInv, Trigger, Dismissed, Own, TypeOK, Process, Rest,
      See, Seeing, Go, Going, Done, Ending, Set, Write, Overwrite
<1>1. CASE Unhush("agent")
  <2>1. \A s \in {"main", "note", "app"} : hook'[s] = hook[s]
    BY <1>1 DEF Unhush
  <2>2. NewerOK'
    BY <1>1, <2>1 DEF Unhush, NewerOK, PhaseOK, SetBg, EndTurn, claude, files, AgentOK
  <2>3. PhaseOK'
    BY <1>1, <2>1 DEF Unhush, PhaseOK, EndTurn, claude, files, AgentOK
  <2>4. StaleOK'
    BY <1>1, <2>1 DEF Unhush, StaleOK, Reading, AgentOK
  <2>5. NeedsOK'
    BY <1>1, <2>1 DEF Unhush, NeedsOK, PhaseOK, ShownWord, MainOK, EndTurn, StaleOK, files,
       claude, transcript, Reading, AgentOK
  <2>6. PassOK'
    BY <1>1, <2>1 DEF Unhush, PassOK, files, claude, transcript, Reading, MainOK, AppOK,
       EndTurn, AgentOK
  <2>7. WorkShown'
    BY <1>1, <2>1 DEF Unhush, WorkShown, NeedsOK, PhaseOK, ShownWord, MainOK, EndTurn, files,
       claude, transcript, Reading, AgentOK
  <2> QED BY <2>2, <2>3, <2>4, <2>5, <2>6, <2>7
<1>2. CASE WorkOn("agent")
  <2>1. \A s \in {"main", "note", "app"} : hook'[s] = hook[s]
    BY <1>2 DEF WorkOn
  <2>2. NewerOK'
    BY <1>2, <2>1 DEF WorkOn, NewerOK, PhaseOK, SetBg, EndTurn, claude, files, AgentOK
  <2>3. PhaseOK'
    BY <1>2, <2>1 DEF WorkOn, PhaseOK, EndTurn, claude, files, AgentOK
  <2>4. StaleOK'
    BY <1>2, DoneStale, WriteStale DEF WorkOn
  <2>5. NeedsOK'
    BY <1>2, <2>1 DEF WorkOn, NeedsOK, PhaseOK, ShownWord, MainOK, EndTurn, StaleOK, files,
       claude, transcript, Reading, AgentOK
  <2>6. PassOK'
    BY <1>2, <2>1 DEF WorkOn, PassOK, files, claude, transcript, Reading, MainOK, AppOK,
       EndTurn, AgentOK
  <2>7. WorkShown'
    BY <1>2, <2>1 DEF WorkOn, WorkShown, NeedsOK, PhaseOK, ShownWord, MainOK, EndTurn, files,
       claude, transcript, Reading, AgentOK
  <2> QED BY <2>2, <2>3, <2>4, <2>5, <2>6, <2>7
<1> QED BY <1>1, <1>2 DEF PostToolUse

\* notification keeps the invariant.
LEMMA NotificationWorks ==
    ASSUME WorkInv, ShownInv, TypeOK', Notification
    PROVE  WorkInv'
<1> USE DEF At, Slot, WorkInv, ShownInv, Trigger, Dismissed, Own, TypeOK, Process, Rest,
      See, Seeing, Go, Going, Done, Ending, Set, Write, Overwrite
<1>1. CASE NoteLook
  <2>1. \A s \in {"main", "agent", "app"} : hook'[s] = hook[s]
    BY <1>1 DEF NoteLook
  <2>2. NewerOK'
    BY <1>1, <2>1 DEF NoteLook, NewerOK, PhaseOK, SetBg, EndTurn, claude, files, NoteOK,
       NotifyStatus, OutOfTime
  <2>3. PhaseOK'
    BY <1>1, <2>1 DEF NoteLook, PhaseOK, EndTurn, claude, files, NoteOK, NotifyStatus, OutOfTime
  <2>4. StaleOK'
    BY <1>1, <2>1 DEF NoteLook, StaleOK, Reading, NoteOK, NotifyStatus, OutOfTime
  <2>5. NeedsOK'
    BY <1>1, <2>1 DEF NoteLook, NeedsOK, PhaseOK, ShownWord, MainOK, EndTurn, StaleOK, files,
       claude, transcript, Reading, NoteOK, NotifyStatus, OutOfTime
  <2>6. PassOK'
    BY <1>1, <2>1 DEF NoteLook, PassOK, files, claude, transcript, Reading, MainOK, AppOK,
       EndTurn, NoteOK, NotifyStatus, OutOfTime
  <2>7. WorkShown'
    BY <1>1, <2>1 DEF NoteLook, WorkShown, NeedsOK, PhaseOK, ShownWord, MainOK, EndTurn,
       files, claude, transcript, Reading, NoteOK, NotifyStatus, OutOfTime
  <2> QED BY <2>2, <2>3, <2>4, <2>5, <2>6, <2>7
<1>2. CASE NoteFlags
  <2>1. \A s \in {"main", "agent", "app"} : hook'[s] = hook[s]
    BY <1>2 DEF NoteFlags
  <2>2. NewerOK'
    BY <1>2, <2>1 DEF NoteFlags, NewerOK, PhaseOK, SetBg, EndTurn, claude, files, NoteOK,
       NotifyStatus, OutOfTime
  <2>3. PhaseOK'
    BY <1>2, <2>1 DEF NoteFlags, PhaseOK, EndTurn, claude, files, NoteOK, NotifyStatus,
       OutOfTime
  <2>4. StaleOK'
    BY <1>2, <2>1 DEF NoteFlags, StaleOK, Reading, NoteOK, NotifyStatus, OutOfTime
  <2>5. NeedsOK'
    BY <1>2, <2>1 DEF NoteFlags, NeedsOK, PhaseOK, ShownWord, MainOK, EndTurn, StaleOK, files,
       claude, transcript, Reading, NoteOK, NotifyStatus, OutOfTime
  <2>6. PassOK'
    BY <1>2, <2>1 DEF NoteFlags, PassOK, files, claude, transcript, Reading, MainOK, AppOK,
       EndTurn, NoteOK, NotifyStatus, OutOfTime
  <2>7. WorkShown'
    BY <1>2, <2>1 DEF NoteFlags, WorkShown, NeedsOK, PhaseOK, ShownWord, MainOK, EndTurn,
       files, claude, transcript, Reading, NoteOK, NotifyStatus, OutOfTime
  <2> QED BY <2>2, <2>3, <2>4, <2>5, <2>6, <2>7
<1>3. CASE NoteWrite
  <2>1. \A s \in {"main", "agent", "app"} : hook'[s] = hook[s]
    BY <1>3 DEF NoteWrite
  <2>2. NewerOK'
    BY <1>3, <2>1 DEF NoteWrite, NewerOK, PhaseOK, SetBg, EndTurn, claude, files, NoteOK,
       NotifyStatus, OutOfTime
  <2>3. PhaseOK'
    BY <1>3, <2>1 DEF NoteWrite, PhaseOK, EndTurn, claude, files, NoteOK, NotifyStatus,
       OutOfTime
  <2>4. StaleOK'
    BY <1>3, <2>1 DEF NoteWrite, StaleOK, Reading, NoteOK, NotifyStatus, OutOfTime
  <2>5. NeedsOK'
    BY <1>3, <2>1 DEF NoteWrite, NeedsOK, PhaseOK, ShownWord, MainOK, EndTurn, StaleOK, files,
       claude, transcript, Reading, NoteOK, NotifyStatus, OutOfTime
  <2>6. PassOK'
    BY <1>3, <2>1 DEF NoteWrite, PassOK, files, claude, transcript, Reading, MainOK, AppOK,
       EndTurn, NoteOK, NotifyStatus, OutOfTime
  <2>7. WorkShown'
    BY <1>3, <2>1 DEF NoteWrite, WorkShown, NeedsOK, PhaseOK, ShownWord, MainOK, EndTurn,
       files, claude, transcript, Reading, NoteOK, NotifyStatus, OutOfTime
  <2> QED BY <2>2, <2>3, <2>4, <2>5, <2>6, <2>7
<1> QED BY <1>1, <1>2, <1>3 DEF Notification

\* clear_escaped_dialogs keeps the invariant.
LEMMA AppWorks ==
    ASSUME WorkInv, ShownInv, TypeOK', App
    PROVE  WorkInv'
<1> USE DEF At, Slot, WorkInv, ShownInv, Trigger, Dismissed, Own, TypeOK, Process, Rest,
      See, Seeing, Go, Going, Done, Ending, Set, Write, Overwrite
<1>1. CASE AppLook
  <2>1. \A s \in {"main", "agent", "note"} : hook'[s] = hook[s]
    BY <1>1 DEF AppLook
  <2>2. NewerOK'
    BY <1>1, <2>1 DEF AppLook, NewerOK, PhaseOK, SetBg, EndTurn, claude, files, PassOK
  <2>3. PhaseOK'
    BY <1>1, <2>1 DEF AppLook, PhaseOK, EndTurn, claude, files, PassOK
  <2>4. StaleOK'
    BY <1>1, <2>1 DEF AppLook, StaleOK, Reading, PassOK
  <2>5. NeedsOK'
    BY <1>1, <2>1 DEF AppLook, NeedsOK, PhaseOK, ShownWord, MainOK, EndTurn, StaleOK, files,
       claude, transcript, Reading, PassOK
  <2>6. PassOK'
    BY <1>1, <2>1 DEF AppLook, PassOK, files, claude, transcript, Reading, MainOK, AppOK,
       EndTurn
  <2>7. WorkShown'
    BY <1>1, <2>1 DEF AppLook, WorkShown, NeedsOK, PhaseOK, ShownWord, MainOK, EndTurn, files,
       claude, transcript, Reading, PassOK
  <2> QED BY <2>2, <2>3, <2>4, <2>5, <2>6, <2>7
<1>2. CASE AppJudge
  <2>1. \A s \in {"main", "agent", "note"} : hook'[s] = hook[s]
    BY <1>2 DEF AppJudge
  <2>2. NewerOK'
    BY <1>2, <2>1 DEF AppJudge, NewerOK, PhaseOK, SetBg, EndTurn, claude, files, PassOK
  <2>3. PhaseOK'
    BY <1>2, <2>1 DEF AppJudge, PhaseOK, EndTurn, claude, files, PassOK
  <2>4. StaleOK'
    <3>1. CASE logged /\ verdict \in Dismissed
      <4>1. /\ \A s \in Slot : hook'[s].at \in Reading => hook[s].at \in Reading
            /\ lost' = lost /\ stale' = stale
        BY <1>2, <2>1, <3>1 DEF AppJudge, Reading
      <4> QED BY <4>1 DEF StaleOK
    <3>2. CASE ~(logged /\ verdict \in Dismissed)
      BY <1>2, <3>2, DoneStale DEF AppJudge
    <3> QED BY <3>1, <3>2
  <2>5. NeedsOK'
    BY <1>2, <2>1 DEF AppJudge, NeedsOK, PhaseOK, ShownWord, MainOK, EndTurn, StaleOK, files,
       claude, transcript, Reading, PassOK
  <2>6. PassOK'
    BY <1>2, <2>1 DEF AppJudge, PassOK, files, claude, transcript, Reading, MainOK, AppOK,
       EndTurn
  <2>7. WorkShown'
    BY <1>2, <2>1 DEF AppJudge, WorkShown, NeedsOK, PhaseOK, ShownWord, MainOK, EndTurn,
       files, claude, transcript, Reading, PassOK
  <2> QED BY <2>2, <2>3, <2>4, <2>5, <2>6, <2>7
<1>3. CASE AppClear
  <2>1. \A s \in {"main", "agent", "note"} : hook'[s] = hook[s]
    BY <1>3 DEF AppClear
  <2>2. NewerOK'
    BY <1>3, <2>1 DEF AppClear, NewerOK, PhaseOK, SetBg, EndTurn, claude, files, PassOK
  <2>3. PhaseOK'
    BY <1>3, <2>1 DEF AppClear, PhaseOK, EndTurn, claude, files, PassOK
  <2>4. StaleOK'
    BY <1>3, <2>1 DEF AppClear, StaleOK, Reading, PassOK
  <2>5. NeedsOK'
    BY <1>3, <2>1 DEF AppClear, NeedsOK, PhaseOK, ShownWord, MainOK, EndTurn, StaleOK, files,
       claude, transcript, Reading, PassOK
  <2>6. PassOK'
    BY <1>3, <2>1 DEF AppClear, PassOK, files, claude, transcript, Reading, MainOK, AppOK,
       EndTurn
  <2>7. WorkShown'
    BY <1>3, <2>1 DEF AppClear, WorkShown, NeedsOK, PhaseOK, ShownWord, MainOK, EndTurn,
       files, claude, transcript, Reading, PassOK
  <2> QED BY <2>2, <2>3, <2>4, <2>5, <2>6, <2>7
<1> QED BY <1>1, <1>2, <1>3 DEF App

\* What the claude, its user and its background work do keeps the invariant.
LEMMA EventWorks ==
    ASSUME WorkInv, ShownInv, TypeOK', Event
    PROVE  WorkInv'
<1> USE DEF At, Slot, WorkInv, ShownInv, Trigger, Dismissed, Own, TypeOK, Process, Rest, Begin, Free
<1>1. ASSUME NEW kind \in {"user", "task", "orphan"}, Submit(kind)
      PROVE  WorkInv'
  <2>1. /\ \A s \in {"agent", "note", "app"} : hook'[s] = hook[s]
        /\ hook["main"].at = "rest" /\ UNCHANGED <<word, newer, compacting, stale, lost>>
    BY <1>1 DEF Submit, files
  <2>2. NewerOK'
    BY <1>1, <2>1 DEF Submit, NewerOK, PhaseOK, EndTurn, claude, transcript
  <2>3. PhaseOK'
    BY <1>1, <2>1 DEF Submit, PhaseOK, EndTurn, claude, transcript
  <2>4. StaleOK'
    BY <1>1, <2>1 DEF Submit, StaleOK, Reading, EndTurn, claude, transcript
  <2>5. NeedsOK'
    BY <1>1, <2>1 DEF Submit, NeedsOK, PhaseOK, ShownWord, MainOK, DialogShown, WorkShown,
       EndTurn, claude, transcript
  <2>6. PassOK'
    BY <1>1, <2>1 DEF Submit, PassOK, MainOK, AppOK, NeedsOK, Reading, EndTurn, claude,
       transcript
  <2>7. WorkShown'
    BY <1>1, <2>1 DEF Submit, WorkShown, NeedsOK, PhaseOK, ShownWord, MainOK, DialogShown,
       EndTurn, claude, transcript
  <2> QED BY <2>2, <2>3, <2>4, <2>5, <2>6, <2>7
<1>2. ASSUME NEW arg \in {"tool", "rearm"}, ToolDone(arg)
      PROVE  WorkInv'
  <2>1. /\ \A s \in {"agent", "note", "app"} : hook'[s] = hook[s]
        /\ hook["main"].at = "rest" /\ UNCHANGED <<word, newer, compacting, stale, lost>>
    BY <1>2 DEF ToolDone, files
  <2>2. NewerOK'
    BY <1>2, <2>1 DEF ToolDone, NewerOK, PhaseOK, EndTurn, claude, transcript
  <2>3. PhaseOK'
    BY <1>2, <2>1 DEF ToolDone, PhaseOK, EndTurn, claude, transcript
  <2>4. StaleOK'
    BY <1>2, <2>1 DEF ToolDone, StaleOK, Reading, EndTurn, claude, transcript
  <2>5. NeedsOK'
    BY <1>2, <2>1 DEF ToolDone, NeedsOK, PhaseOK, ShownWord, MainOK, DialogShown, WorkShown,
       EndTurn, claude, transcript
  <2>6. PassOK'
    BY <1>2, <2>1 DEF ToolDone, PassOK, MainOK, AppOK, NeedsOK, Reading, EndTurn, claude,
       transcript
  <2>7. WorkShown'
    BY <1>2, <2>1 DEF ToolDone, WorkShown, NeedsOK, PhaseOK, ShownWord, MainOK, DialogShown,
       EndTurn, claude, transcript
  <2> QED BY <2>2, <2>3, <2>4, <2>5, <2>6, <2>7
<1>3. ASSUME NEW trigger \in Trigger, Compact(trigger)
      PROVE  WorkInv'
  <2>1. /\ \A s \in {"agent", "note", "app"} : hook'[s] = hook[s]
        /\ hook["main"].at = "rest" /\ UNCHANGED <<word, newer, compacting, stale, lost>>
    BY <1>3 DEF Compact, files
  <2>2. NewerOK'
    BY <1>3, <2>1 DEF Compact, NewerOK, PhaseOK, EndTurn, claude, transcript
  <2>3. PhaseOK'
    BY <1>3, <2>1 DEF Compact, PhaseOK, EndTurn, claude, transcript
  <2>4. StaleOK'
    BY <1>3, <2>1 DEF Compact, StaleOK, Reading, EndTurn, claude, transcript
  <2>5. NeedsOK'
    BY <1>3, <2>1 DEF Compact, NeedsOK, PhaseOK, ShownWord, MainOK, DialogShown, WorkShown,
       EndTurn, claude, transcript
  <2>6. PassOK'
    BY <1>3, <2>1 DEF Compact, PassOK, MainOK, AppOK, NeedsOK, Reading, EndTurn, claude,
       transcript
  <2>7. WorkShown'
    BY <1>3, <2>1 DEF Compact, WorkShown, NeedsOK, PhaseOK, ShownWord, MainOK, DialogShown,
       EndTurn, claude, transcript
  <2> QED BY <2>2, <2>3, <2>4, <2>5, <2>6, <2>7
<1>4. CASE Answer
  <2>1. /\ \A s \in {"agent", "note", "app"} : hook'[s] = hook[s]
        /\ hook["main"].at = "rest" /\ UNCHANGED <<word, newer, compacting, stale, lost>>
    BY <1>4 DEF Answer, files
  <2>2. NewerOK'
    BY <1>4, <2>1 DEF Answer, NewerOK, PhaseOK, EndTurn, claude, transcript
  <2>3. PhaseOK'
    BY <1>4, <2>1 DEF Answer, PhaseOK, EndTurn, claude, transcript
  <2>4. StaleOK'
    BY <1>4, <2>1 DEF Answer, StaleOK, Reading, EndTurn, claude, transcript
  <2>5. NeedsOK'
    BY <1>4, <2>1 DEF Answer, NeedsOK, PhaseOK, ShownWord, MainOK, DialogShown, WorkShown,
       EndTurn, claude, transcript
  <2>6. PassOK'
    BY <1>4, <2>1 DEF Answer, PassOK, MainOK, AppOK, NeedsOK, Reading, EndTurn, claude,
       transcript
  <2>7. WorkShown'
    BY <1>4, <2>1 DEF Answer, WorkShown, NeedsOK, PhaseOK, ShownWord, MainOK, DialogShown,
       EndTurn, claude, transcript
  <2> QED BY <2>2, <2>3, <2>4, <2>5, <2>6, <2>7
<1>5. CASE AgentTool
  <2>1. /\ \A s \in {"main", "note", "app"} : hook'[s] = hook[s]
        /\ hook["agent"].at = "rest" /\ UNCHANGED <<word, newer, compacting, stale, lost>>
    BY <1>5 DEF AgentTool, files
  <2>2. NewerOK'
    BY <1>5, <2>1 DEF AgentTool, NewerOK, PhaseOK, EndTurn, claude, transcript
  <2>3. PhaseOK'
    BY <1>5, <2>1 DEF AgentTool, PhaseOK, EndTurn, claude, transcript
  <2>4. StaleOK'
    BY <1>5, <2>1 DEF AgentTool, StaleOK, Reading, EndTurn, claude, transcript
  <2>5. NeedsOK'
    BY <1>5, <2>1 DEF AgentTool, NeedsOK, PhaseOK, ShownWord, MainOK, DialogShown, WorkShown,
       EndTurn, claude, transcript
  <2>6. PassOK'
    BY <1>5, <2>1 DEF AgentTool, PassOK, MainOK, AppOK, NeedsOK, Reading, EndTurn, claude,
       transcript
  <2>7. WorkShown'
    BY <1>5, <2>1 DEF AgentTool, WorkShown, NeedsOK, PhaseOK, ShownWord, MainOK, DialogShown,
       EndTurn, claude, transcript
  <2> QED BY <2>2, <2>3, <2>4, <2>5, <2>6, <2>7
<1>6. CASE Ask
  <2>1. /\ \A s \in {"agent", "note", "app"} : hook'[s] = hook[s]
        /\ hook["main"].at = "rest" /\ UNCHANGED <<word, newer, compacting, stale, lost>>
    BY <1>6 DEF Ask, files
  <2>2. NewerOK'
    BY <1>6, <2>1 DEF Ask, NewerOK, PhaseOK, EndTurn, claude, transcript
  <2>3. PhaseOK'
    BY <1>6, <2>1 DEF Ask, PhaseOK, EndTurn, claude, transcript
  <2>4. StaleOK'
    BY <1>6, <2>1 DEF Ask, StaleOK, Reading, EndTurn, claude, transcript
  <2>5. NeedsOK'
    BY <1>6, <2>1 DEF Ask, NeedsOK, PhaseOK, ShownWord, MainOK, DialogShown, WorkShown,
       EndTurn, claude, transcript
  <2>6. PassOK'
    BY <1>6, <2>1 DEF Ask, PassOK, MainOK, AppOK, NeedsOK, Reading, EndTurn, claude, transcript
  <2>7. WorkShown'
    BY <1>6, <2>1 DEF Ask, WorkShown, NeedsOK, PhaseOK, ShownWord, MainOK, DialogShown,
       EndTurn, claude, transcript
  <2> QED BY <2>2, <2>3, <2>4, <2>5, <2>6, <2>7
<1>7. CASE StopTurn
  <2>1. /\ \A s \in {"agent", "note", "app"} : hook'[s] = hook[s]
        /\ hook["main"].at = "rest" /\ UNCHANGED <<word, newer, compacting, stale, lost>>
    BY <1>7 DEF StopTurn, files
  <2>2. NewerOK'
    BY <1>7, <2>1 DEF StopTurn, NewerOK, PhaseOK, EndTurn, claude, transcript
  <2>3. PhaseOK'
    BY <1>7, <2>1 DEF StopTurn, PhaseOK, EndTurn, claude, transcript
  <2>4. StaleOK'
    BY <1>7, <2>1 DEF StopTurn, StaleOK, Reading, EndTurn, claude, transcript
  <2>5. NeedsOK'
    BY <1>7, <2>1 DEF StopTurn, NeedsOK, PhaseOK, ShownWord, MainOK, DialogShown, WorkShown,
       EndTurn, claude, transcript
  <2>6. PassOK'
    BY <1>7, <2>1 DEF StopTurn, PassOK, MainOK, AppOK, NeedsOK, Reading, EndTurn, claude,
       transcript
  <2>7. WorkShown'
    BY <1>7, <2>1 DEF StopTurn, WorkShown, NeedsOK, PhaseOK, ShownWord, MainOK, DialogShown,
       EndTurn, claude, transcript
  <2> QED BY <2>2, <2>3, <2>4, <2>5, <2>6, <2>7
<1>8. CASE CompactEnds
  <2>1. /\ \A s \in {"agent", "note", "app"} : hook'[s] = hook[s]
        /\ hook["main"].at = "rest" /\ UNCHANGED <<word, newer, compacting, stale, lost>>
    BY <1>8 DEF CompactEnds, files
  <2>2. NewerOK'
    BY <1>8, <2>1 DEF CompactEnds, NewerOK, PhaseOK, EndTurn, claude, transcript
  <2>3. PhaseOK'
    BY <1>8, <2>1 DEF CompactEnds, PhaseOK, EndTurn, claude, transcript
  <2>4. StaleOK'
    BY <1>8, <2>1 DEF CompactEnds, StaleOK, Reading, EndTurn, claude, transcript
  <2>5. NeedsOK'
    BY <1>8, <2>1 DEF CompactEnds, NeedsOK, PhaseOK, ShownWord, MainOK, DialogShown,
       WorkShown, EndTurn, claude, transcript
  <2>6. PassOK'
    BY <1>8, <2>1 DEF CompactEnds, PassOK, MainOK, AppOK, NeedsOK, Reading, EndTurn, claude,
       transcript
  <2>7. WorkShown'
    BY <1>8, <2>1 DEF CompactEnds, WorkShown, NeedsOK, PhaseOK, ShownWord, MainOK,
       DialogShown, EndTurn, claude, transcript
  <2> QED BY <2>2, <2>3, <2>4, <2>5, <2>6, <2>7
<1>9. CASE Escape
  <2>1. UNCHANGED <<hook, word, newer, compacting, stale, lost>>
    BY <1>9 DEF Escape, files, procs
  <2>2. NewerOK'
    BY <1>9, <2>1 DEF Escape, NewerOK, PhaseOK, EndTurn, claude, transcript
  <2>3. PhaseOK'
    BY <1>9, <2>1 DEF Escape, PhaseOK, EndTurn, claude, transcript
  <2>4. StaleOK'
    BY <1>9, <2>1 DEF Escape, StaleOK, Reading, EndTurn, claude, transcript
  <2>5. NeedsOK'
    BY <1>9, <2>1 DEF Escape, NeedsOK, PhaseOK, ShownWord, MainOK, DialogShown, WorkShown,
       EndTurn, claude, transcript
  <2>6. PassOK'
    BY <1>9, <2>1 DEF Escape, PassOK, MainOK, AppOK, NeedsOK, Reading, EndTurn, claude,
       transcript
  <2>7. WorkShown'
    BY <1>9, <2>1 DEF Escape, WorkShown, NeedsOK, PhaseOK, ShownWord, MainOK, DialogShown,
       EndTurn, claude, transcript
  <2> QED BY <2>2, <2>3, <2>4, <2>5, <2>6, <2>7
<1>10. CASE Reject
  <2>1. UNCHANGED <<hook, word, newer, compacting, stale, lost>>
    BY <1>10 DEF Reject, files, procs
  <2>2. NewerOK'
    BY <1>10, <2>1 DEF Reject, NewerOK, PhaseOK, EndTurn, claude, transcript
  <2>3. PhaseOK'
    BY <1>10, <2>1 DEF Reject, PhaseOK, EndTurn, claude, transcript
  <2>4. StaleOK'
    BY <1>10, <2>1 DEF Reject, StaleOK, Reading, EndTurn, claude, transcript
  <2>5. NeedsOK'
    BY <1>10, <2>1 DEF Reject, NeedsOK, PhaseOK, ShownWord, MainOK, DialogShown, WorkShown,
       EndTurn, claude, transcript
  <2>6. PassOK'
    BY <1>10, <2>1 DEF Reject, PassOK, MainOK, AppOK, NeedsOK, Reading, EndTurn, claude,
       transcript
  <2>7. WorkShown'
    BY <1>10, <2>1 DEF Reject, WorkShown, NeedsOK, PhaseOK, ShownWord, MainOK, DialogShown,
       EndTurn, claude, transcript
  <2> QED BY <2>2, <2>3, <2>4, <2>5, <2>6, <2>7
<1>11. CASE CompactFails
  <2>1. UNCHANGED <<hook, word, newer, compacting, stale, lost>>
    BY <1>11 DEF CompactFails, files, procs
  <2>2. NewerOK'
    BY <1>11, <2>1 DEF CompactFails, NewerOK, PhaseOK, EndTurn, claude, transcript
  <2>3. PhaseOK'
    BY <1>11, <2>1 DEF CompactFails, PhaseOK, EndTurn, claude, transcript
  <2>4. StaleOK'
    BY <1>11, <2>1 DEF CompactFails, StaleOK, Reading, EndTurn, claude, transcript
  <2>5. NeedsOK'
    BY <1>11, <2>1 DEF CompactFails, NeedsOK, PhaseOK, ShownWord, MainOK, DialogShown,
       WorkShown, EndTurn, claude, transcript
  <2>6. PassOK'
    BY <1>11, <2>1 DEF CompactFails, PassOK, MainOK, AppOK, NeedsOK, Reading, EndTurn, claude,
       transcript
  <2>7. WorkShown'
    BY <1>11, <2>1 DEF CompactFails, WorkShown, NeedsOK, PhaseOK, ShownWord, MainOK,
       DialogShown, EndTurn, claude, transcript
  <2> QED BY <2>2, <2>3, <2>4, <2>5, <2>6, <2>7
<1>12. CASE Interrupt
  <2>1. UNCHANGED <<hook, word, newer, compacting, stale, lost>>
    BY <1>12 DEF Interrupt, files, procs
  <2>2. NewerOK'
    BY <1>12, <2>1 DEF Interrupt, NewerOK, PhaseOK, EndTurn, claude, transcript
  <2>3. PhaseOK'
    BY <1>12, <2>1 DEF Interrupt, PhaseOK, EndTurn, claude, transcript
  <2>4. StaleOK'
    BY <1>12, <2>1 DEF Interrupt, StaleOK, Reading, EndTurn, claude, transcript
  <2>5. NeedsOK'
    BY <1>12, <2>1 DEF Interrupt, NeedsOK, PhaseOK, ShownWord, MainOK, DialogShown, WorkShown,
       EndTurn, claude, transcript
  <2>6. PassOK'
    BY <1>12, <2>1 DEF Interrupt, PassOK, MainOK, AppOK, NeedsOK, Reading, EndTurn, claude,
       transcript
  <2>7. WorkShown'
    BY <1>12, <2>1 DEF Interrupt, WorkShown, NeedsOK, PhaseOK, ShownWord, MainOK, DialogShown,
       EndTurn, claude, transcript
  <2> QED BY <2>2, <2>3, <2>4, <2>5, <2>6, <2>7
<1>13. CASE WorkStarts
  <2>1. UNCHANGED <<hook, word, newer, compacting, stale, lost>>
    BY <1>13 DEF WorkStarts, files, procs
  <2>2. NewerOK'
    BY <1>13, <2>1 DEF WorkStarts, NewerOK, PhaseOK, EndTurn, claude, transcript
  <2>3. PhaseOK'
    BY <1>13, <2>1 DEF WorkStarts, PhaseOK, EndTurn, claude, transcript
  <2>4. StaleOK'
    BY <1>13, <2>1 DEF WorkStarts, StaleOK, Reading, EndTurn, claude, transcript
  <2>5. NeedsOK'
    BY <1>13, <2>1 DEF WorkStarts, NeedsOK, PhaseOK, ShownWord, MainOK, DialogShown,
       WorkShown, EndTurn, claude, transcript
  <2>6. PassOK'
    BY <1>13, <2>1 DEF WorkStarts, PassOK, MainOK, AppOK, NeedsOK, Reading, EndTurn, claude,
       transcript
  <2>7. WorkShown'
    BY <1>13, <2>1 DEF WorkStarts, WorkShown, NeedsOK, PhaseOK, ShownWord, MainOK,
       DialogShown, EndTurn, claude, transcript
  <2> QED BY <2>2, <2>3, <2>4, <2>5, <2>6, <2>7
<1>14. CASE WorkEnds
  <2>1. UNCHANGED <<hook, word, newer, compacting, stale, lost>>
    BY <1>14 DEF WorkEnds, files, procs
  <2>2. NewerOK'
    BY <1>14, <2>1 DEF WorkEnds, NewerOK, PhaseOK, EndTurn, claude, transcript
  <2>3. PhaseOK'
    BY <1>14, <2>1 DEF WorkEnds, PhaseOK, EndTurn, claude, transcript
  <2>4. StaleOK'
    BY <1>14, <2>1 DEF WorkEnds, StaleOK, Reading, EndTurn, claude, transcript
  <2>5. NeedsOK'
    BY <1>14, <2>1 DEF WorkEnds, NeedsOK, PhaseOK, ShownWord, MainOK, DialogShown, WorkShown,
       EndTurn, claude, transcript
  <2>6. PassOK'
    BY <1>14, <2>1 DEF WorkEnds, PassOK, MainOK, AppOK, NeedsOK, Reading, EndTurn, claude,
       transcript
  <2>7. WorkShown'
    BY <1>14, <2>1 DEF WorkEnds, WorkShown, NeedsOK, PhaseOK, ShownWord, MainOK, DialogShown,
       EndTurn, claude, transcript
  <2> QED BY <2>2, <2>3, <2>4, <2>5, <2>6, <2>7
<1>15. CASE Restart
  <2>1. /\ \A s \in Slot : hook'[s] = Rest
        /\ turn' = "idle" /\ ~acted' /\ word' = "none" /\ ~newer' /\ ~lost' /\ stale' = {}
    BY <1>15 DEF Restart, Anew, EndTurn
  <2> QED BY <2>1 DEF NewerOK, PhaseOK, StaleOK, Reading, NeedsOK, PassOK, WorkShown
<1>16. CASE Relaunch
  <2>1. /\ \A s \in Slot : hook'[s] = Rest
        /\ turn' = "idle" /\ ~acted' /\ word' = "none" /\ ~newer' /\ ~lost' /\ stale' = {}
    BY <1>16 DEF Relaunch, Anew, EndTurn
  <2> QED BY <2>1 DEF NewerOK, PhaseOK, StaleOK, Reading, NeedsOK, PassOK, WorkShown
<1> QED BY <1>1, <1>2, <1>3, <1>4, <1>5, <1>6, <1>7, <1>8, <1>9, <1>10, <1>11, <1>12, <1>13,
   <1>14, <1>15, <1>16 DEF Event

\* The transcript comes to the dialog, and a notification begins: neither disturbs a turn.
LEMMA OthersWork ==
    ASSUME WorkInv, ShownInv, TypeOK', LogDialog \/ Notify \/ UNCHANGED vars
    PROVE  WorkInv'
<1> USE DEF At, Slot, WorkInv, ShownInv, Trigger, Dismissed, Own, TypeOK, Process, Rest, Begin, Free
<1>1. CASE LogDialog
  <2>1. UNCHANGED <<hook, word, newer, compacting, stale, lost>>
    BY <1>1 DEF LogDialog, files, procs
  <2>2. NewerOK'
    BY <1>1, <2>1 DEF LogDialog, NewerOK, PhaseOK, EndTurn, claude, transcript
  <2>3. PhaseOK'
    BY <1>1, <2>1 DEF LogDialog, PhaseOK, EndTurn, claude, transcript
  <2>4. StaleOK'
    BY <1>1, <2>1 DEF LogDialog, StaleOK, Reading, EndTurn, claude, transcript
  <2>5. NeedsOK'
    BY <1>1, <2>1 DEF LogDialog, NeedsOK, PhaseOK, ShownWord, MainOK, DialogShown, WorkShown,
       EndTurn, claude, transcript
  <2>6. PassOK'
    BY <1>1, <2>1 DEF LogDialog, PassOK, MainOK, AppOK, NeedsOK, Reading, EndTurn, claude,
       transcript
  <2>7. WorkShown'
    BY <1>1, <2>1 DEF LogDialog, WorkShown, NeedsOK, PhaseOK, ShownWord, MainOK, DialogShown,
       EndTurn, claude, transcript
  <2> QED BY <2>2, <2>3, <2>4, <2>5, <2>6, <2>7
<1>2. CASE Notify
  <2>1. /\ \A s \in {"main", "agent", "app"} : hook'[s] = hook[s]
        /\ hook["note"].at = "rest" /\ UNCHANGED <<word, newer, compacting, stale, lost>>
    BY <1>2 DEF Notify, files
  <2>2. NewerOK'
    BY <1>2, <2>1 DEF Notify, NewerOK, PhaseOK, EndTurn, claude, transcript
  <2>3. PhaseOK'
    BY <1>2, <2>1 DEF Notify, PhaseOK, EndTurn, claude, transcript
  <2>4. StaleOK'
    BY <1>2, <2>1 DEF Notify, StaleOK, Reading, EndTurn, claude, transcript
  <2>5. NeedsOK'
    BY <1>2, <2>1 DEF Notify, NeedsOK, PhaseOK, ShownWord, MainOK, DialogShown, WorkShown,
       EndTurn, claude, transcript
  <2>6. PassOK'
    BY <1>2, <2>1 DEF Notify, PassOK, MainOK, AppOK, NeedsOK, Reading, EndTurn, claude,
       transcript
  <2>7. WorkShown'
    BY <1>2, <2>1 DEF Notify, WorkShown, NeedsOK, PhaseOK, ShownWord, MainOK, DialogShown,
       EndTurn, claude, transcript
  <2> QED BY <2>2, <2>3, <2>4, <2>5, <2>6, <2>7
<1>3. CASE UNCHANGED vars
  <2> QED BY <1>3 DEF vars, files, claude, transcript, procs, NewerOK, PhaseOK, StaleOK,
     NeedsOK, PassOK, WorkShown, ShownWord
<1> QED BY <1>1, <1>2, <1>3

\* A claude starts idle, and its turns show from then on.
LEMMA WorkStart == Init => WorkInv
BY DEF Init, WorkInv, NewerOK, PhaseOK, StaleOK, NeedsOK, PassOK, WorkShown, Own, Trigger,
   Rest, Slot, Reading

LEMMA WorkStep == WorkInv /\ ShownInv /\ [Next]_vars => WorkInv'
<1> SUFFICES ASSUME WorkInv, ShownInv, [Next]_vars PROVE WorkInv'
  OBVIOUS
<1>1. TypeOK'
  BY NextTyped DEF ShownInv
<1> QED BY <1>1, PromptWorks, DialogWorks, StopWorks, CompactionWorks, OwnToolWorks,
   AgentToolWorks,
        NotificationWorks, AppWorks, EventWorks, OthersWork DEF Next, Main, Agent

\* A turn that does something for its user shows as `working` between its hooks, and the
\* flag of background work never says of a turn in progress that it is over: what the hooks
\* of an agent, a notification and the app's pass write in between does not hide it, but
\* for a word written by one that had not read the last.
THEOREM WorkAlwaysShown == Spec => []TurnInv
<1>1. WorkInv /\ ShownInv => TurnInv
  BY DEF WorkInv, ShownInv, TurnInv, TurnShown, BackgroundIsOver, OnlyBackgroundWork, NewerOK,
         WorkShown, ShownWord, Free, Rest, Own, Trigger
<1> QED BY <1>1, ShownStart, ShownStep, WorkStart, WorkStep, PTL DEF Spec

-----------------------------------------------------------------------------
(* The link of a desktop to its host.                                       *)

\* The frames of a connection are a list, whatever is in them.
IsList(s) == \E n \in Nat : s = [i \in 1..n |-> s[i]]
HasClose(s) == \E i \in DOMAIN s : s[i].kind = "close"

LEMMA ListIsSeq ==
    ASSUME NEW s, IsList(s) PROVE s \in Seq({s[i] : i \in DOMAIN s})
<1>1. PICK n \in Nat : s = [i \in 1..n |-> s[i]]
  BY DEF IsList
<1> DEFINE S == {s[i] : i \in DOMAIN s}
<1>2. DOMAIN s = 1..n
  BY <1>1
<1>3. s \in [1..n -> S]
  BY <1>1, <1>2
<1> QED BY <1>3, SeqDef

LEMMA SeqIsList ==
    ASSUME NEW S, NEW s \in Seq(S) PROVE IsList(s) /\ DOMAIN s = 1..Len(s) /\ Len(s) \in Nat
BY LenProperties DEF IsList

LEMMA ListGrows ==
    ASSUME NEW s, IsList(s), NEW f
    PROVE  /\ IsList(Append(s, f)) /\ IsList(s \o <<f>>)
           /\ HasClose(Append(s, f)) <=> HasClose(s) \/ f.kind = "close"
           /\ HasClose(s) => HasClose(s \o <<f>>)
<1> DEFINE S == {s[i] : i \in DOMAIN s} \cup {f}
<1>1. s \in Seq(S)
  <2>1. s \in Seq({s[i] : i \in DOMAIN s})
    BY ListIsSeq
  <2> QED BY <2>1, SeqMonotonic
<1> HIDE DEF S
<1>2. f \in S
  BY DEF S
<1>3. /\ Append(s, f) \in Seq(S) /\ Len(Append(s, f)) = Len(s) + 1
      /\ \A i \in 1..Len(s) : Append(s, f)[i] = s[i]
      /\ Append(s, f)[Len(s) + 1] = f
  BY <1>1, <1>2, AppendProperties
<1>4. s \o <<f>> = Append(s, f)
  BY <1>1, <1>2
<1>5. /\ DOMAIN s = 1..Len(s) /\ Len(s) \in Nat /\ DOMAIN Append(s, f) = 1..Len(s) + 1
      /\ IsList(Append(s, f))
  BY <1>1, <1>3, SeqIsList
<1>6. \A i \in 1..Len(s) + 1 : i \in 1..Len(s) \/ i = Len(s) + 1
  BY <1>5
<1>7. \A i \in 1..Len(s) : i \in 1..Len(s) + 1
  BY <1>5
<1>8. Len(s) + 1 \in 1..Len(s) + 1
  BY <1>5
<1>9. HasClose(Append(s, f)) <=> HasClose(s) \/ f.kind = "close"
  BY <1>3, <1>5, <1>6, <1>7, <1>8 DEF HasClose
<1> QED BY <1>4, <1>5, <1>9

LEMMA ListShrinks ==
    ASSUME NEW s, IsList(s), s # <<>>
    PROVE  /\ IsList(Tail(s))
           /\ HasClose(s) /\ Head(s).kind # "close" => HasClose(Tail(s))
<1> DEFINE S == {s[i] : i \in DOMAIN s}
<1>1. s \in Seq(S)
  BY ListIsSeq
<1> HIDE DEF S
<1>2. /\ Head(s) = s[1] /\ Tail(s) \in Seq(S) /\ Len(Tail(s)) = Len(s) - 1
      /\ \A i \in 1..Len(Tail(s)) : Tail(s)[i] = s[i + 1]
  BY <1>1, HeadTailProperties
<1>3. /\ DOMAIN s = 1..Len(s) /\ Len(s) \in Nat /\ DOMAIN Tail(s) = 1..Len(Tail(s)) /\ IsList(Tail(s))
  BY <1>1, <1>2, SeqIsList
<1>4. ASSUME NEW i \in DOMAIN s, s[i].kind = "close", Head(s).kind # "close" PROVE HasClose(Tail(s))
  <2>1. i # 1 /\ i \in 1..Len(s)
    BY <1>2, <1>3, <1>4
  <2>2. i - 1 \in 1..Len(Tail(s)) /\ (i - 1) + 1 = i
    BY <1>2, <1>3, <2>1
  <2>3. Tail(s)[i - 1] = s[i]
    BY <1>2, <2>2
  <2> QED BY <1>3, <1>4, <2>2, <2>3 DEF HasClose
<1> QED BY <1>3, <1>4 DEF HasClose

-----------------------------------------------------------------------------
\* What the connections and the devices are records of.
ThreadFields == {"at", "conn", "sessions"}
PeerFields == {"state", "cid", "tries", "eph", "key", "tx", "pairing"}

LinkShape ==
    /\ nextId \in Nat /\ 0 \notin handlers
    /\ DOMAIN threads = Epochs /\ \A e \in Epochs : DOMAIN threads[e] = ThreadFields
    /\ DOMAIN hostFrames = Epochs /\ \A e \in Epochs : IsList(hostFrames[e])

RoomKept == \A e \in Epochs : threads[e].conn \in handlers /\ ~HasClose(hostFrames[e]) => roomHost = threads[e].conn

\* A step that lets connections end, and loses no close on its way to another.
LEMMA RoomStays ==
    ASSUME LinkShape, RoomKept, roomHost' = roomHost, handlers' = handlers, nextId' = nextId,
           DOMAIN threads' = Epochs, DOMAIN hostFrames' = Epochs,
           \A e \in Epochs :
              /\ DOMAIN threads'[e] = ThreadFields /\ IsList(hostFrames'[e])
              /\ \/ threads'[e].conn = 0
                 \/ /\ threads'[e].conn = threads[e].conn
                    /\ HasClose(hostFrames[e]) => HasClose(hostFrames'[e])
    PROVE  LinkShape' /\ RoomKept'
BY Zenon DEF LinkShape, RoomKept, Epochs, ThreadFields

\* What a step of one connection leaves alone is as it was.
LEMMA OthersStay ==
    ASSUME LinkShape, RoomKept, NEW e \in Epochs, NEW t, NEW q,
           threads' = [threads EXCEPT ![e] = t],
           \/ hostFrames' = [hostFrames EXCEPT ![e] = q]
           \/ hostFrames' = hostFrames /\ q = hostFrames[e],
           UNCHANGED <<roomHost, handlers, nextId>>,
           DOMAIN t = ThreadFields, IsList(q),
           t.conn = 0 \/ (t.conn = threads[e].conn /\ (HasClose(hostFrames[e]) => HasClose(q)))
    PROVE  LinkShape' /\ RoomKept'
<1>1. DOMAIN threads' = Epochs /\ DOMAIN hostFrames' = Epochs
  BY DEF LinkShape
<1>2. ASSUME NEW f \in Epochs
      PROVE  /\ threads'[f] = IF f = e THEN t ELSE threads[f]
             /\ hostFrames'[f] = IF f = e THEN q ELSE hostFrames[f]
  BY DEF LinkShape
<1>3. ASSUME NEW f \in Epochs
      PROVE  /\ DOMAIN threads'[f] = ThreadFields /\ IsList(hostFrames'[f])
             /\ \/ threads'[f].conn = 0
                \/ /\ threads'[f].conn = threads[f].conn
                   /\ HasClose(hostFrames[f]) => HasClose(hostFrames'[f])
  BY <1>2 DEF LinkShape
<1> QED BY <1>1, <1>3, RoomStays

LEMMA SessionIs ==
    ASSUME LinkShape, NEW e \in Epochs, NEW sessions, NEW at, Session(sessions, e, at)
    PROVE  \E t : /\ threads' = [threads EXCEPT ![e] = t] /\ DOMAIN t = ThreadFields
                  /\ t.conn = threads[e].conn
<1>1. PICK t : t = [threads[e] EXCEPT !.sessions = sessions, !.at = at]
  OBVIOUS
<1>2. DOMAIN t = ThreadFields /\ t.conn = threads[e].conn
  BY <1>1 DEF LinkShape, ThreadFields
<1>3. threads' = [threads EXCEPT ![e] = t]
  BY <1>1 DEF Session, LinkShape
<1> QED BY <1>2, <1>3

\* A connection without a thread, or that has to connect.
LEMMA NoThreadIs ==
    /\ DOMAIN NoThread = ThreadFields /\ NoThread.conn = 0
    /\ DOMAIN [NoThread EXCEPT !.at = "connect"] = ThreadFields /\ [NoThread EXCEPT !.at = "connect"].conn = 0
    /\ IsList(<<>>) /\ ~HasClose(<<>>)
<1>1. IsList(<<>>) /\ DOMAIN <<>> = {}
  <2>1. <<>> \in Seq({})
    OBVIOUS
  <2>2. Len(<<>>) = 0 /\ 1..0 = {}
    OBVIOUS
  <2> QED BY <2>1, <2>2, SeqIsList
<1> QED BY <1>1 DEF NoThread, ThreadFields, HasClose

\* A frame for the host goes to the connection of the room.
LEMMA ToHostIs ==
    ASSUME LinkShape, NEW f, hostFrames' = ToHost(hostFrames, f)
    PROVE  /\ DOMAIN hostFrames' = Epochs
           /\ \A e \in Epochs : IsList(hostFrames'[e]) /\ (HasClose(hostFrames[e]) => HasClose(hostFrames'[e]))
<1>1. DOMAIN hostFrames' = Epochs
  BY DEF ToHost
<1>2. ASSUME NEW e \in Epochs
      PROVE  hostFrames'[e] = hostFrames[e] \/ hostFrames'[e] = Append(hostFrames[e], f)
  BY DEF ToHost
<1>3. ASSUME NEW e \in Epochs
      PROVE  IsList(hostFrames'[e]) /\ (HasClose(hostFrames[e]) => HasClose(hostFrames'[e]))
  BY <1>2, ListGrows DEF LinkShape
<1> QED BY <1>1, <1>3

\* A step of a device, or of the relay, that sends the host a frame at most.
LEMMA FramesArrive ==
    ASSUME LinkShape, RoomKept, UNCHANGED <<roomHost, handlers, nextId, threads>>,
           UNCHANGED hostFrames \/ \E f : hostFrames' = ToHost(hostFrames, f)
    PROVE  LinkShape' /\ RoomKept'
<1>1. /\ DOMAIN hostFrames' = Epochs
      /\ \A e \in Epochs : IsList(hostFrames'[e]) /\ (HasClose(hostFrames[e]) => HasClose(hostFrames'[e]))
  BY ToHostIs DEF LinkShape
<1>2. DOMAIN threads' = Epochs /\ \A e \in Epochs : DOMAIN threads'[e] = ThreadFields /\ threads'[e].conn = threads[e].conn
  BY DEF LinkShape
<1> QED BY <1>1, <1>2, RoomStays

LEMMA LinkStarts ==
    ASSUME LinkInit PROVE LinkShape /\ RoomKept
<1>1. DOMAIN hostFrames = Epochs /\ DOMAIN threads = Epochs /\ nextId = 0 /\ handlers = {}
  BY DEF LinkInit
<1>2. \A e \in Epochs : DOMAIN threads[e] = ThreadFields /\ IsList(hostFrames[e])
  BY NoThreadIs DEF LinkInit
<1> QED BY <1>1, <1>2 DEF LinkShape, RoomKept

\* Relay::host_joined: who was there before is told to close.
LEMMA HostJoins ==
    ASSUME LinkShape, RoomKept, NEW e \in Epochs, HostConnects(e)
    PROVE  LinkShape' /\ RoomKept'
<1>1. /\ nextId' = nextId + 1 /\ roomHost' = nextId' /\ handlers' = handlers \cup {nextId'}
      /\ threads' = [threads EXCEPT ![e] = [at |-> "top", conn |-> nextId', sessions |-> <<>>]]
      /\ hostFrames' = [f \in Epochs |->
            IF f = e THEN <<>>
            ELSE IF roomHost # 0 /\ threads[f].conn = roomHost THEN Append(hostFrames[f], Note("close"))
            ELSE hostFrames[f]]
  BY DEF HostConnects
<1>2. nextId' \in Nat /\ 0 \notin handlers' /\ DOMAIN threads' = Epochs /\ DOMAIN hostFrames' = Epochs
  BY <1>1 DEF LinkShape
<1>3. \A f \in Epochs : threads'[f] = IF f = e THEN [at |-> "top", conn |-> nextId', sessions |-> <<>>] ELSE threads[f]
  BY <1>1 DEF LinkShape
<1>4. \A f \in Epochs : DOMAIN threads'[f] = ThreadFields
  BY <1>3 DEF LinkShape, ThreadFields
<1>5. \A f \in Epochs : IsList(hostFrames'[f])
  BY <1>1, NoThreadIs, ListGrows DEF LinkShape
<1>6. ASSUME NEW f \in Epochs, threads'[f].conn \in handlers', ~HasClose(hostFrames'[f])
      PROVE  roomHost' = threads'[f].conn
  <2>1. CASE f = e
    BY <1>1, <1>3, <2>1
  <2>2. CASE f # e /\ roomHost # 0 /\ threads[f].conn = roomHost
    <3>1. hostFrames'[f] = Append(hostFrames[f], Note("close")) /\ Note("close").kind = "close"
      BY <1>1, <2>2 DEF Note, Frame
    <3>2. HasClose(hostFrames'[f])
      BY <3>1, ListGrows DEF LinkShape
    <3> QED BY <1>6, <3>2
  <2>3. CASE f # e /\ ~(roomHost # 0 /\ threads[f].conn = roomHost)
    <3>1. hostFrames'[f] = hostFrames[f] /\ threads'[f].conn = threads[f].conn
      BY <1>1, <1>3, <2>3
    <3>2. CASE threads[f].conn \in handlers
      <4>1. roomHost = threads[f].conn
        BY <1>6, <3>1, <3>2 DEF RoomKept
      <4> QED BY <2>3, <3>2, <4>1 DEF LinkShape
    <3>3. CASE threads[f].conn = nextId'
      BY <1>1, <3>1, <3>3
    <3> QED BY <1>1, <1>6, <3>1, <3>2, <3>3
  <2> QED BY <2>1, <2>2, <2>3
<1>7. LinkShape'
  BY <1>2, <1>4, <1>5 DEF LinkShape, Epochs
<1>8. RoomKept'
  BY <1>6 DEF RoomKept, Epochs
<1> QED BY <1>7, <1>8

\* host_left: the room loses its host only with the host's own connection.
LEMMA HostLeaves ==
    ASSUME LinkShape, RoomKept, NEW conn \in handlers, HostLeft(conn)
    PROVE  LinkShape' /\ RoomKept'
<1>1. /\ handlers' = handlers \ {conn} /\ UNCHANGED <<threads, hostFrames, nextId>>
      /\ roomHost' = IF roomHost = conn THEN 0 ELSE roomHost
  BY DEF HostLeft, StillHost, linkHostVars
<1>2. LinkShape'
  BY <1>1 DEF LinkShape
<1>3. RoomKept'
  BY <1>1 DEF RoomKept
<1> QED BY <1>2, <1>3

LEMMA RelayStartsOver ==
    ASSUME LinkShape, RoomKept, RelayRestarts
    PROVE  LinkShape' /\ RoomKept'
<1>1. handlers' = {} /\ nextId' = 0 /\ UNCHANGED hostFrames
      /\ threads' = [e \in Epochs |-> IF threads[e].conn = 0 THEN threads[e] ELSE [threads[e] EXCEPT !.conn = Lost]]
  BY DEF RelayRestarts
<1>2. ASSUME NEW e \in Epochs PROVE DOMAIN threads'[e] = ThreadFields
  <2>1. PICK t : t = [threads[e] EXCEPT !.conn = Lost]
    OBVIOUS
  <2>2. DOMAIN t = ThreadFields
    BY <2>1 DEF LinkShape
  <2>3. threads'[e] = threads[e] \/ threads'[e] = t
    BY <1>1, <2>1
  <2> QED BY <2>2, <2>3 DEF LinkShape
<1>3. DOMAIN threads' = Epochs
  BY <1>1
<1> QED BY <1>1, <1>2, <1>3 DEF LinkShape, RoomKept

\* The thread of a connection.
LEMMA HostThread ==
    ASSUME LinkShape, RoomKept, NEW e \in Epochs,
           GivesUpConnecting(e) \/ HostDrops(e) \/ Top(e) \/ Serve(e)
    PROVE  LinkShape' /\ RoomKept'
<1>0. IsList(hostFrames[e])
  BY DEF LinkShape
<1>1. CASE GivesUpConnecting(e)
  <2>1. /\ threads' = [threads EXCEPT ![e] = NoThread] /\ hostFrames' = hostFrames
        /\ UNCHANGED <<roomHost, handlers, nextId>>
    BY <1>0, <1>1 DEF GivesUpConnecting, relayVars
  <2> QED BY <1>0, <2>1, NoThreadIs, OthersStay
<1>2. ASSUME Broken(e), UNCHANGED <<roomHost, handlers, nextId>> PROVE LinkShape' /\ RoomKept'
  BY <1>2, NoThreadIs, OthersStay DEF Broken
<1>3. CASE HostDrops(e)
  BY <1>2, <1>3 DEF HostDrops, relayVars
<1>4. ASSUME NEW sessions, NEW at, Session(sessions, e, at), UNCHANGED <<roomHost, handlers, nextId>>,
             NEW q, IsList(q),
             hostFrames' = [hostFrames EXCEPT ![e] = q] \/ (hostFrames' = hostFrames /\ q = hostFrames[e]),
             HasClose(hostFrames[e]) => HasClose(q)
      PROVE  LinkShape' /\ RoomKept'
  <2>1. PICK t : /\ threads' = [threads EXCEPT ![e] = t] /\ DOMAIN t = ThreadFields
                 /\ t.conn = threads[e].conn
    BY <1>4, SessionIs
  <2> QED BY <1>4, <2>1, OthersStay
<1>5. CASE Top(e)
  <2>1. UNCHANGED <<roomHost, handlers, nextId>>
    BY <1>5 DEF Top, relayVars
  <2>2. CASE epoch # e
    <3>1. threads' = [threads EXCEPT ![e] = NoThread] /\ hostFrames' = [hostFrames EXCEPT ![e] = <<>>]
      BY <1>5, <2>2 DEF Top
    <3> QED BY <2>1, <3>1, NoThreadIs, OthersStay
  <2>3. CASE epoch = e
    <3>1. hostFrames' = hostFrames /\ \E sessions, at : Session(sessions, e, at)
      BY <1>5, <2>3 DEF Top
    <3> QED BY <1>0, <1>4, <2>1, <3>1
  <2> QED BY <2>2, <2>3
<1>6. CASE Serve(e)
  <2>1. UNCHANGED <<roomHost, handlers, nextId>>
    BY <1>6 DEF Serve, relayVars
  <2>2. CASE hostFrames[e] = <<>>
    <3>1. hostFrames' = hostFrames /\ Session(threads[e].sessions, e, "top")
      BY <1>6, <2>2 DEF Serve
    <3> QED BY <1>0, <1>4, <2>1, <3>1
  <2>3. CASE hostFrames[e] # <<>> /\ Head(hostFrames[e]).kind = "close"
    <3>1. Broken(e)
      BY <1>6, <2>3 DEF Serve
    <3> QED BY <1>2, <2>1, <3>1
  <2>4. CASE hostFrames[e] # <<>> /\ Head(hostFrames[e]).kind # "close"
    <3>1. /\ hostFrames' = [hostFrames EXCEPT ![e] = Tail(@)]
          /\ LET f == Head(hostFrames[e]) IN OnLeave(e, f) \/ OnPair(e, f) \/ OnHandshake(e, f) \/ OnSealed(e, f)
      BY <1>6, <2>4 DEF Serve
    <3>2. \E sessions, at : Session(sessions, e, at)
      BY <3>1 DEF OnLeave, OnPair, OnHandshake, OnSealed
    <3>3. IsList(Tail(hostFrames[e])) /\ (HasClose(hostFrames[e]) => HasClose(Tail(hostFrames[e])))
      BY <1>0, <2>4, ListShrinks
    <3> QED BY <1>4, <2>1, <3>1, <3>2, <3>3
  <2> QED BY <2>2, <2>3, <2>4
<1> QED BY <1>1, <1>3, <1>5, <1>6

-----------------------------------------------------------------------------
\* A device sends the host a frame at most.
FrameSent == UNCHANGED hostFrames \/ \E f : hostFrames' = ToHost(hostFrames, f)

\* Of a device: whoever waits was told that it is connected, which one that is off is not.
CallersOK ==
    /\ DOMAIN peer = Devices /\ DOMAIN waiting = Devices
    /\ \A d \in Devices :
          /\ DOMAIN peer[d] = PeerFields
          /\ peer[d].tx => peer[d].state # "disconnected"
          /\ waiting[d] # {} => peer[d].tx

LEMMA CallersStart ==
    ASSUME LinkInit PROVE CallersOK
<1>1. /\ DOMAIN Connecting = PeerFields /\ DOMAIN [Connecting EXCEPT !.pairing = 1] = PeerFields
      /\ Connecting.tx = FALSE /\ [Connecting EXCEPT !.pairing = 1].tx = FALSE
  BY DEF Connecting, Off, PeerFields
<1>2. /\ peer = [d \in Devices |-> IF d \in Paired0 THEN Connecting ELSE [Connecting EXCEPT !.pairing = 1]]
      /\ waiting = [d \in Devices |-> {}]
  BY DEF LinkInit
<1>3. DOMAIN peer = Devices /\ DOMAIN waiting = Devices
  BY <1>2
<1>4. ASSUME NEW d \in Devices
      PROVE  DOMAIN peer[d] = PeerFields /\ peer[d].tx = FALSE /\ waiting[d] = {}
  BY <1>1, <1>2
<1> QED BY <1>3, <1>4 DEF CallersOK

\* One device changes, and its callers.
LEMMA CallersOfOne ==
    ASSUME CallersOK, NEW d \in Devices, NEW p, NEW w,
           peer' = [peer EXCEPT ![d] = p] \/ (peer' = peer /\ p = peer[d]),
           waiting' = [waiting EXCEPT ![d] = w] \/ (waiting' = waiting /\ w = waiting[d]),
           DOMAIN p = PeerFields, p.tx => p.state # "disconnected", w # {} => p.tx
    PROVE  CallersOK'
<1>1. DOMAIN peer' = Devices /\ DOMAIN waiting' = Devices
  BY DEF CallersOK
<1>2. ASSUME NEW f \in Devices
      PROVE  /\ peer'[f] = IF f = d THEN p ELSE peer[f]
             /\ waiting'[f] = IF f = d THEN w ELSE waiting[f]
  BY DEF CallersOK
<1>3. ASSUME NEW f \in Devices
      PROVE  /\ DOMAIN peer'[f] = PeerFields
             /\ peer'[f].tx => peer'[f].state # "disconnected"
             /\ waiting'[f] # {} => peer'[f].tx
  BY <1>2 DEF CallersOK
<1> QED BY <1>1, <1>3 DEF CallersOK, PeerFields

\* serve returns: the callers are told.
LEMMA PeerIsEnded ==
    ASSUME CallersOK, NEW d \in Devices, NEW state, PeerEnds(d, state)
    PROVE  CallersOK'
<1>1. PICK p : /\ peer' = [peer EXCEPT ![d] = p] /\ DOMAIN p = PeerFields /\ p.tx = FALSE
  <2> DEFINE code == IF state = "connecting" THEN peer[d].pairing ELSE 0
             p == [Off EXCEPT !.state = state, !.pairing = code]
  <2>1. DOMAIN p = PeerFields /\ p.tx = FALSE
    BY DEF Off, PeerFields
  <2>2. peer' = [peer EXCEPT ![d] = p]
    BY DEF PeerEnds
  <2> HIDE DEF p
  <2> QED BY <2>1, <2>2
<1>2. waiting' = [waiting EXCEPT ![d] = {}]
  BY DEF PeerEnds, FailPending
<1> QED BY <1>1, <1>2, CallersOfOne

\* A handshake, in a device that goes on as p.
LEMMA PeerShakesHands ==
    ASSUME CallersOK, NEW d \in Devices, NEW p, Handshake(d, p), UNCHANGED waiting,
           DOMAIN p = PeerFields, p.tx = peer[d].tx, p.state = peer[d].state
    PROVE  CallersOK' /\ FrameSent
<1>1. PICK q : /\ peer' = [peer EXCEPT ![d] = q] /\ DOMAIN q = PeerFields
               /\ q.tx = peer[d].tx /\ q.state = peer[d].state
  <2> DEFINE q == [p EXCEPT !.tries = @ + 1, !.eph = Ephemeral(p.cid, p.tries + 1), !.key = NoKey]
  <2>1. DOMAIN q = PeerFields /\ q.tx = peer[d].tx /\ q.state = peer[d].state
    BY DEF PeerFields
  <2>2. peer' = [peer EXCEPT ![d] = q]
    BY DEF Handshake, PeerFields
  <2> HIDE DEF q
  <2> QED BY <2>1, <2>2
<1>2. CallersOK'
  BY <1>1, CallersOfOne DEF CallersOK
<1>3. FrameSent
  BY DEF Handshake, FromPeer, FrameSent
<1> QED BY <1>2, <1>3

\* serve of a device: one frame.
LEMMA PeerHears ==
    ASSUME CallersOK, NEW d \in Devices, PeerReads(d)
    PROVE  CallersOK' /\ FrameSent
<1>0. /\ DOMAIN peer[d] = PeerFields /\ (peer[d].tx => peer[d].state # "disconnected")
      /\ waiting[d] # {} => peer[d].tx
  BY DEF CallersOK
<1>1. ASSUME NEW state, PeerStops(d, state) PROVE CallersOK' /\ FrameSent
  BY <1>1, PeerIsEnded DEF PeerStops, FrameSent
<1>2. CASE Retries(d)
  BY <1>2, PeerIsEnded DEF Retries, FrameSent
<1>3. ASSUME NEW p, NEW w, DOMAIN p = PeerFields, p.tx => p.state # "disconnected", w # {} => p.tx,
             peer' = [peer EXCEPT ![d] = p] \/ (peer' = peer /\ p = peer[d]),
             waiting' = [waiting EXCEPT ![d] = w] \/ (waiting' = waiting /\ w = waiting[d])
      PROVE  CallersOK'
  BY <1>3, CallersOfOne
<1>4. ASSUME NEW f, OnHost(d, f) PROVE CallersOK' /\ FrameSent
  <2>1. CASE peer[d].pairing # 0 /\ f.kind = "offline"
    BY <1>1, <1>4, <2>1 DEF OnHost
  <2>2. CASE peer[d].pairing = 0 /\ f.kind = "offline"
    <3>1. /\ peer' = [peer EXCEPT ![d] = Unreachable(peer[d])] /\ waiting' = [waiting EXCEPT ![d] = {}]
          /\ UNCHANGED hostFrames
      BY <1>4, <2>2 DEF OnHost, FailPending
    <3>2. DOMAIN Unreachable(peer[d]) = PeerFields /\ Unreachable(peer[d]).tx = FALSE
      BY <1>0 DEF Unreachable, PeerFields
    <3> QED BY <1>3, <3>1, <3>2 DEF FrameSent
  <2>3. CASE peer[d].pairing # 0 /\ f.kind # "offline"
    <3>1. /\ peer' = [peer EXCEPT ![d].key = NoKey] /\ UNCHANGED waiting
          /\ FromPeer(d, Frame("pair", peer[d].cid, d, peer[d].pairing, NoKey, ""))
      BY <1>4, <2>3 DEF OnHost
    <3>2. PICK p : p = [peer[d] EXCEPT !.key = NoKey]
      OBVIOUS
    <3>3. DOMAIN p = PeerFields /\ p.tx = peer[d].tx /\ p.state = peer[d].state
      BY <1>0, <3>2 DEF PeerFields
    <3>4. peer' = [peer EXCEPT ![d] = p]
      BY <3>1, <3>2
    <3>5. CallersOK'
      BY <1>0, <1>3, <3>1, <3>3, <3>4
    <3> QED BY <3>1, <3>5 DEF FromPeer, FrameSent
  <2>4. CASE peer[d].pairing = 0 /\ f.kind # "offline"
    <3>1. Handshake(d, peer[d]) /\ UNCHANGED waiting
      BY <1>4, <2>4 DEF OnHost
    <3> QED BY <1>0, <3>1, PeerShakesHands
  <2> QED BY <2>1, <2>2, <2>3, <2>4
<1>5. CASE OnPaired(d)
  <2>1. PICK p : p = [peer[d] EXCEPT !.pairing = 0]
    OBVIOUS
  <2>2. DOMAIN p = PeerFields /\ p.tx = peer[d].tx /\ p.state = peer[d].state
    BY <1>0, <2>1 DEF PeerFields
  <2>3. Handshake(d, p) /\ UNCHANGED waiting
    BY <1>5, <2>1 DEF OnPaired
  <2> QED BY <2>2, <2>3, PeerShakesHands
<1>6. ASSUME NEW f, OnDenied(d, f) PROVE CallersOK' /\ FrameSent
  BY <1>1, <1>2, <1>6 DEF OnDenied
<1>7. ASSUME NEW f, OnKey(d, f) PROVE CallersOK' /\ FrameSent
  <2>1. CASE peer[d].eph = 0
    <3>1. UNCHANGED <<peer, hostFrames, waiting>>
      BY <1>7, <2>1 DEF OnKey
    <3> QED BY <1>0, <1>3, <3>1 DEF FrameSent
  <2>2. CASE peer[d].eph # 0
    <3>1. PICK key : /\ peer' = [peer EXCEPT ![d].eph = 0, ![d].key = key] /\ UNCHANGED waiting
                     /\ FromPeer(d, Frame("sealed", peer[d].cid, d, 0, key, "hello"))
      BY <1>7, <2>2 DEF OnKey
    <3>2. PICK p : p = [peer[d] EXCEPT !.eph = 0, !.key = key]
      OBVIOUS
    <3>3. DOMAIN p = PeerFields /\ p.tx = peer[d].tx /\ p.state = peer[d].state
      BY <1>0, <3>2 DEF PeerFields
    <3>4. peer' = [peer EXCEPT ![d] = p]
      BY <3>1, <3>2 DEF CallersOK
    <3>5. CallersOK'
      BY <1>0, <1>3, <3>1, <3>3, <3>4
    <3> QED BY <3>1, <3>5 DEF FromPeer, FrameSent
  <2> QED BY <2>1, <2>2
<1>8. ASSUME NEW f, OnMessage(d, f) PROVE CallersOK' /\ FrameSent
  <2>1. CASE Retries(d)
    BY <1>2, <2>1
  <2>2. CASE UNCHANGED <<peer, waiting, hostFrames>>
    BY <1>0, <1>3, <2>2 DEF FrameSent
  <2>3. CASE /\ peer' = [peer EXCEPT ![d].state = "connected", ![d].tx = TRUE]
             /\ UNCHANGED <<waiting, hostFrames>>
    <3>1. PICK p : p = [peer[d] EXCEPT !.state = "connected", !.tx = TRUE]
      OBVIOUS
    <3>2. DOMAIN p = PeerFields /\ p.tx = TRUE /\ p.state = "connected"
      BY <1>0, <3>1 DEF PeerFields
    <3>3. peer' = [peer EXCEPT ![d] = p]
      BY <2>3, <3>1 DEF CallersOK
    <3> QED BY <1>3, <2>3, <3>2, <3>3 DEF FrameSent
  <2>4. CASE waiting' = [waiting EXCEPT ![d] = @ \ {f.n}] /\ UNCHANGED <<peer, hostFrames>>
    BY <1>0, <1>3, <2>4 DEF FrameSent
  <2> QED BY <1>8, <2>1, <2>2, <2>3, <2>4 DEF OnMessage
<1> QED BY <1>4, <1>5, <1>6, <1>7, <1>8 DEF PeerReads

\* The rest of a device.
LEMMA PeerGoesOn ==
    ASSUME CallersOK, NEW d \in Devices,
           \/ PeerSends(d) \/ PeerDrops(d) \/ PeerAsks(d) \/ PeerClaims(d)
           \/ PeerTimesOut(d) \/ PeerOff(d) \/ PeerOn(d)
    PROVE  CallersOK' /\ FrameSent
<1>0. /\ DOMAIN peer[d] = PeerFields /\ (peer[d].tx => peer[d].state # "disconnected")
      /\ waiting[d] # {} => peer[d].tx
  BY DEF CallersOK
<1>1. CASE PeerSends(d)
  <2>1. UNCHANGED <<peer, waiting>> /\ FrameSent
    BY <1>1 DEF PeerSends, FromPeer, FrameSent
  <2> QED BY <1>0, <2>1, CallersOfOne
<1>2. CASE PeerDrops(d)
  BY <1>2, PeerIsEnded DEF PeerDrops, Retries, FrameSent
<1>3. CASE PeerAsks(d)
  BY <1>0, <1>3, CallersOfOne DEF PeerAsks, FrameSent
<1>4. CASE PeerClaims(d)
  BY <1>0, <1>4, CallersOfOne DEF PeerClaims, FrameSent
<1>5. CASE PeerTimesOut(d)
  <2>1. PICK rid \in waiting[d] : waiting' = [waiting EXCEPT ![d] = @ \ {rid}] /\ UNCHANGED <<peer, hostFrames>>
    BY <1>5 DEF PeerTimesOut
  <2> QED BY <1>0, <2>1, CallersOfOne DEF FrameSent
<1>6. CASE PeerOff(d)
  BY <1>6, PeerIsEnded DEF PeerOff, PeerStops, FrameSent
<1>7. CASE PeerOn(d)
  <2>1. /\ peer' = [peer EXCEPT ![d] = Connecting] /\ UNCHANGED <<waiting, hostFrames>>
        /\ waiting[d] = {}
    BY <1>0, <1>7 DEF PeerOn
  <2>2. DOMAIN Connecting = PeerFields /\ Connecting.tx = FALSE
    BY DEF Connecting, Off, PeerFields
  <2> QED BY <2>1, <2>2, CallersOfOne DEF FrameSent
<1> QED BY <1>1, <1>2, <1>3, <1>4, <1>5, <1>6, <1>7

\* The steps of the others leave the devices alone.
LEMMA CallersStay ==
    ASSUME CallersOK, UNCHANGED peerVars
    PROVE  CallersOK'
BY DEF CallersOK, peerVars

LEMMA LinkStep ==
    ASSUME LinkShape, RoomKept, CallersOK, [LinkNext]_linkVars
    PROVE  LinkShape' /\ RoomKept' /\ CallersOK'
<1>1. ASSUME NEW e \in Epochs, HostStep(e) \/ HostDrops(e)
      PROVE  LinkShape' /\ RoomKept' /\ CallersOK'
  <2>1. UNCHANGED peerVars
    BY <1>1 DEF HostStep, HostConnects, GivesUpConnecting, Top, Serve, HostDrops
  <2> QED BY <1>1, <2>1, CallersStay, HostJoins, HostThread DEF HostStep
<1>2. ASSUME NEW c \in handlers, HostLeft(c)
      PROVE  LinkShape' /\ RoomKept' /\ CallersOK'
  <2>1. UNCHANGED peerVars
    BY <1>2 DEF HostLeft
  <2> QED BY <1>2, <2>1, CallersStay, HostLeaves
<1>3. ASSUME NEW c \in DOMAIN room, PeerLeft(c)
      PROVE  LinkShape' /\ RoomKept' /\ CallersOK'
  <2>1. /\ UNCHANGED <<roomHost, handlers, nextId, threads, peerVars>>
        /\ \E f : hostFrames' = ToHost(hostFrames, f)
    BY <1>3 DEF PeerLeft, linkHostVars
  <2> QED BY <2>1, CallersStay, FramesArrive
<1>4. ASSUME NEW d \in Devices, PeerConnects(d)
      PROVE  LinkShape' /\ RoomKept' /\ CallersOK'
  <2>1. /\ nextId' = nextId + 1 /\ UNCHANGED <<roomHost, handlers, threads, hostFrames, waiting>>
        /\ peer' = [peer EXCEPT ![d].cid = nextId', ![d].tries = 0, ![d].eph = 0]
    BY <1>4 DEF PeerConnects, linkHostVars
  <2>2. PICK p : p = [peer[d] EXCEPT !.cid = nextId', !.tries = 0, !.eph = 0]
    OBVIOUS
  <2>3. DOMAIN p = PeerFields /\ p.tx = peer[d].tx /\ p.state = peer[d].state
    BY <2>2 DEF CallersOK, PeerFields
  <2>4. peer' = [peer EXCEPT ![d] = p]
    BY <2>1, <2>2 DEF CallersOK
  <2>5. CallersOK'
    BY <2>1, <2>3, <2>4, CallersOfOne DEF CallersOK
  <2>6. LinkShape'
    BY <2>1 DEF LinkShape
  <2>7. RoomKept'
    BY <2>1 DEF RoomKept
  <2> QED BY <2>5, <2>6, <2>7
<1>5. ASSUME NEW d \in Devices,
             \/ PeerReads(d) \/ PeerSends(d) \/ PeerDrops(d) \/ PeerAsks(d) \/ PeerClaims(d)
             \/ PeerTimesOut(d) \/ PeerOff(d) \/ PeerOn(d)
      PROVE  LinkShape' /\ RoomKept' /\ CallersOK'
  <2>1. UNCHANGED <<roomHost, handlers, nextId, threads>>
    BY <1>5 DEF PeerReads, PeerSends, PeerDrops, PeerAsks, PeerClaims, PeerTimesOut, PeerOff, PeerOn,
       relayVars, linkHostVars
  <2>2. CallersOK' /\ FrameSent
    BY <1>5, PeerHears, PeerGoesOn
  <2> QED BY <2>1, <2>2, FramesArrive DEF FrameSent
<1>6. ASSUME NEW d \in Devices, Revoke(d)
      PROVE  LinkShape' /\ RoomKept' /\ CallersOK'
  <2>1. UNCHANGED <<roomHost, handlers, nextId, threads, hostFrames, peerVars>>
    BY <1>6 DEF Revoke, relayVars
  <2> QED BY <2>1, CallersStay, FramesArrive
<1>7. CASE RelayRestarts
  <2>1. /\ UNCHANGED waiting
        /\ peer' = [d \in Devices |-> IF peer[d].cid = 0 THEN peer[d] ELSE [peer[d] EXCEPT !.cid = Lost]]
    BY <1>7 DEF RelayRestarts
  <2>2. ASSUME NEW d \in Devices
        PROVE  DOMAIN peer'[d] = PeerFields /\ peer'[d].tx = peer[d].tx /\ peer'[d].state = peer[d].state
    <3>1. PICK p : p = [peer[d] EXCEPT !.cid = Lost]
      OBVIOUS
    <3>2. DOMAIN p = PeerFields /\ p.tx = peer[d].tx /\ p.state = peer[d].state
      BY <3>1 DEF CallersOK, PeerFields
    <3>3. peer'[d] = peer[d] \/ peer'[d] = p
      BY <2>1, <3>1
    <3> QED BY <3>2, <3>3 DEF CallersOK
  <2>3. DOMAIN peer' = Devices
    BY <2>1
  <2>4. CallersOK'
    BY <2>1, <2>2, <2>3 DEF CallersOK, PeerFields
  <2> QED BY <1>7, <2>4, RelayStartsOver
<1>8. CASE SwitchOff \/ ShowCode \/ TakeBack \/ HostAnswered \/ UNCHANGED linkVars
  <2>1. UNCHANGED <<roomHost, handlers, nextId, threads, hostFrames, peerVars>>
    BY <1>8 DEF SwitchOff, ShowCode, TakeBack, HostAnswered, relayVars, linkVars, linkHostVars
  <2> QED BY <2>1, CallersStay, FramesArrive
<1>9. CASE StartThread
  <2>1. /\ UNCHANGED <<roomHost, handlers, nextId, hostFrames, peerVars>>
        /\ threads' = [threads EXCEPT ![epoch'] = [NoThread EXCEPT !.at = "connect"]]
    BY <1>9 DEF StartThread, relayVars
  <2>2. DOMAIN threads' = Epochs /\ DOMAIN hostFrames' = Epochs
    BY <2>1 DEF LinkShape
  <2>3. ASSUME NEW e \in Epochs
        PROVE  /\ DOMAIN threads'[e] = ThreadFields /\ IsList(hostFrames'[e])
               /\ \/ threads'[e].conn = 0
                  \/ /\ threads'[e].conn = threads[e].conn
                     /\ HasClose(hostFrames[e]) => HasClose(hostFrames'[e])
    <3>1. threads'[e] = threads[e] \/ threads'[e] = [NoThread EXCEPT !.at = "connect"]
      BY <2>1 DEF LinkShape
    <3> QED BY <2>1, <3>1, NoThreadIs DEF LinkShape
  <2>4. LinkShape' /\ RoomKept'
    BY <2>1, <2>2, <2>3, RoomStays
  <2> QED BY <2>1, <2>4, CallersStay
<1> QED BY <1>1, <1>2, <1>3, <1>4, <1>5, <1>6, <1>7, <1>8, <1>9 DEF LinkNext, PeerStep

\* However hosts and devices connect, drop, are replaced and meet relays that start over and
\* number their connections again: a host connection that is open and was not told to close is
\* the room's host (host_left), and a caller waits only while its connection is not known to be
\* gone (fail_pending_of), for any devices and numbers of events.
THEOREM RoomKeepsItsHost == LinkSpec => [](HostStays /\ WaitsForSomebody)
<1>1. LinkShape /\ RoomKept /\ CallersOK => HostStays /\ WaitsForSomebody
  BY DEF RoomKept, HasClose, CallersOK, HostStays, WaitsForSomebody
<1>2. LinkShape /\ RoomKept /\ CallersOK /\ [LinkNext]_linkVars => LinkShape' /\ RoomKept' /\ CallersOK'
  BY LinkStep
<1> QED BY <1>1, <1>2, LinkStarts, CallersStart, PTL DEF LinkSpec

-----------------------------------------------------------------------------
(* What the two ends of a link agree on. *)

LinkKey == Nat \X Nat \X Nat
FrameKinds == {"online", "offline", "close", "leave", "pair", "paired", "denied", "hs", "sealed", "dropped"}
FrameBodies == {"", "expired", "revoked", "not paired", "bad frame", "hello", "welcome", "ask", "claim", "res"}
LinkFrame == {f \in [kind : FrameKinds, cid : Nat, dev : Devices \cup {0}, n : Nat, key : LinkKey, body : FrameBodies] :
                f.kind = "pair" => f.dev # 0}
SessionRec == [dev : Devices, key : LinkKey, desk : BOOLEAN]
Table == UNION {[S -> SessionRec] : S \in SUBSET Nat}
Thread == [at : {"none", "connect", "top", "read"}, conn : Nat, sessions : Table]
PeerRec == [state : {"connecting", "connected", "offline", "error", "disconnected"}, cid : Nat, tries : Nat,
            eph : Nat, key : LinkKey, tx : BOOLEAN, pairing : Nat]
Reply == [rid : Nat, epoch : Nat, cid : Nat]
ToSend == [to : Nat, msg : LinkFrame]
Sealed == {f \in LinkFrame : f.kind = "sealed"}

RelayTyped ==
    /\ nextId \in 0 .. MaxId /\ roomHost \in 0 .. nextId /\ handlers \subseteq 1 .. nextId
    /\ roomHost # 0 => roomHost \in handlers
    /\ room \in [DOMAIN room -> Devices] /\ DOMAIN room \subseteq 1 .. nextId
BudgetTyped ==
    /\ events \in 0 .. MaxEvents /\ restarts \in Nat /\ asksMade \in Nat
    /\ enabled \in BOOLEAN /\ epoch \in 1 .. 1 + events /\ known \subseteq Devices
    /\ secrets \in Nat /\ secret \in 0 .. secrets /\ lease \in Devices \cup {0}
    /\ hostRuns \subseteq Reply /\ linkOutbox \in Seq(Reply)
ThreadOK(t) ==
    /\ t \in Thread /\ t.conn \in 0 .. nextId \cup {Lost}
    /\ (t.conn # 0) = (t.at \in {"top", "read"})
ThreadsTyped ==
    /\ threads \in [Epochs -> Thread] /\ \A e \in Epochs : ThreadOK(threads[e])
    /\ hostFrames \in [Epochs -> Seq(LinkFrame)]
\* Device d with its connection, what it was sent and what it has to send.
PeerFits(d, p, q, w) ==
    /\ p.cid \in 0 .. nextId \cup {Lost} /\ (p.cid \in DOMAIN room => room[p.cid] = d)
    /\ p.cid = 0 => p.key = NoKey /\ ~p.tx /\ q = <<>> /\ w = <<>>
    /\ p.state \in {"disconnected", "error"} => p.cid = 0
    /\ p.tx => p.state = "connected"
PeersTyped ==
    /\ peer \in [Devices -> PeerRec] /\ frames \in [Devices -> Seq(LinkFrame)]
    /\ toPeerHost \in [Devices -> Seq(Sealed)]
    /\ \A d \in Devices : PeerFits(d, peer[d], frames[d], toPeerHost[d])
LinkTyped == RelayTyped /\ BudgetTyped /\ ThreadsTyped /\ PeersTyped

\* The device is told that its session is over, or will be.
ToldOver(q) == \E i \in DOMAIN q : q[i].kind \in {"online", "offline", "denied"}
\* A frame that is sealed with the key k, of the connection c.
SealedBy(f, c, k) == f.kind = "sealed" /\ f.cid = c /\ f.key = k
Speaks(q, c, k) == \E i \in DOMAIN q : SealedBy(q[i], c, k)
\* Behind every handshake of the connection c is a frame sealed with the key k.
ShakenBefore(q, c, k) ==
    \A i \in DOMAIN q : q[i].kind = "hs" /\ q[i].cid = c => \E j \in DOMAIN q : i < j /\ SealedBy(q[j], c, k)
\* Who left is not in the room, and no later connection has its number.
GoneFrom(q, R) == \A i \in DOMAIN q : q[i].kind = "leave" => q[i].cid \notin R
Numbered == DOMAIN room \cup {n \in Nat : n > nextId}
LeftFor(q) == GoneFrom(q, Numbered)

Serving(e) == roomHost # 0 /\ threads[e].conn = roomHost
Believes(d) == peer[d].key # NoKey /\ Listens(d, peer[d].cid) /\ ~ToldOver(frames[d])
SharesIn(d, s) == peer[d].cid \in DOMAIN s /\ s[peer[d].cid].key = peer[d].key
SharesKey(d, t) == SharesIn(d, t.sessions)
Agreed(d, t, q) ==
    HasClose(q) \/ (/\ ShakenBefore(q, peer[d].cid, peer[d].key)
                    /\ Speaks(q, peer[d].cid, peer[d].key) \/ SharesKey(d, t))
Agreement ==
    \A e \in Epochs : Serving(e) =>
        /\ LeftFor(hostFrames[e])
        /\ \A d \in Devices : Believes(d) => Agreed(d, threads[e], hostFrames[e])

LinkIInv == LinkTyped /\ Agreement

-----------------------------------------------------------------------------
\* A set of numbers has a least one.
LEMMA LeastNumber ==
    ASSUME NEW S \in SUBSET Nat, S # {} PROVE \E x \in S : \A y \in S : x <= y
<1>1. PICK m \in S : \A k \in S : ~ (<<k, m>> \in OpToRel(<, Nat))
  BY NatLessThanWellFounded, WFMin
<1>2. \A k \in S : ~(k < m)
  BY <1>1 DEF OpToRel
<1> QED BY <1>2

LEMMA LinkConstants ==
    /\ MaxId \in Nat \ {0} /\ MaxEvents \in Nat /\ MaxRestarts \in Nat /\ Lost \in Nat /\ Lost = MaxId + 1
    /\ Devices \subseteq Nat /\ 0 \notin Devices /\ Epochs = 1 .. 1 + MaxEvents
    /\ NoKey \in LinkKey
BY LinkAssumption DEF Lost, Epochs, NoKey, LinkKey

\* Tables of sessions.
LEMMA TableIs ==
    ASSUME NEW s PROVE s \in Table <=> s \in [DOMAIN s -> SessionRec] /\ DOMAIN s \subseteq Nat
BY DEF Table

LEMMA NoEntries ==
    ASSUME NEW S PROVE DOMAIN <<>> = {} /\ <<>> \in [DOMAIN <<>> -> S]
<1>1. <<>> \in Seq(S) /\ Len(<<>>) = 0 /\ 1 .. 0 = {}
  BY EmptySeq
<1> QED BY <1>1, LenProperties

LEMMA NoSessions == <<>> \in Table /\ DOMAIN <<>> = {}
BY NoEntries, TableIs

LEMMA WithoutIs ==
    ASSUME NEW s \in Table, NEW keys
    PROVE  /\ Without(s, keys) \in Table /\ DOMAIN Without(s, keys) = DOMAIN s \ keys
           /\ \A k \in DOMAIN s \ keys : Without(s, keys)[k] = s[k]
<1>1. s \in [DOMAIN s -> SessionRec] /\ DOMAIN s \subseteq Nat
  BY TableIs
<1>2. /\ DOMAIN Without(s, keys) = DOMAIN s \ keys
      /\ \A k \in DOMAIN s \ keys : Without(s, keys)[k] = s[k]
  BY DEF Without
<1>3. Without(s, keys) \in [DOMAIN s \ keys -> SessionRec]
  BY <1>1 DEF Without
<1>4. Without(s, keys) \in Table
  BY <1>1, <1>2, <1>3, TableIs
<1> QED BY <1>2, <1>4

LEMMA WithIs ==
    ASSUME NEW s \in Table, NEW c \in Nat, NEW v \in SessionRec
    PROVE  /\ With(s, c, v) \in Table /\ DOMAIN With(s, c, v) = DOMAIN s \cup {c}
           /\ With(s, c, v)[c] = v /\ \A k \in DOMAIN s : k # c => With(s, c, v)[k] = s[k]
<1>1. s \in [DOMAIN s -> SessionRec] /\ DOMAIN s \subseteq Nat
  BY TableIs
<1>2. /\ DOMAIN With(s, c, v) = DOMAIN s \cup {c}
      /\ With(s, c, v)[c] = v /\ \A k \in DOMAIN s : k # c => With(s, c, v)[k] = s[k]
  BY DEF With
<1>3. With(s, c, v) \in [DOMAIN s \cup {c} -> SessionRec]
  BY <1>1 DEF With
<1>4. With(s, c, v) \in Table
  BY <1>1, <1>2, <1>3, TableIs
<1> QED BY <1>2, <1>4

\* What a frame has in it.
LEMMA FrameIs ==
    ASSUME NEW kind \in FrameKinds, NEW cid \in Nat, NEW dev \in Devices \cup {0}, NEW n \in Nat, NEW key \in LinkKey,
           NEW body \in FrameBodies, kind = "pair" => dev # 0
    PROVE  /\ Frame(kind, cid, dev, n, key, body) \in LinkFrame
           /\ Frame(kind, cid, dev, n, key, body).kind = kind /\ Frame(kind, cid, dev, n, key, body).cid = cid
           /\ Frame(kind, cid, dev, n, key, body).key = key
BY DEF Frame, LinkFrame

LEMMA NoteIs ==
    ASSUME NEW kind \in FrameKinds \ {"pair"}, NEW why \in FrameBodies
    PROVE  /\ Note(kind) \in LinkFrame /\ Note(kind).kind = kind
           /\ Denied(why) \in LinkFrame /\ Denied(why).kind = "denied"
<1>1. NoKey \in LinkKey /\ 0 \in Nat /\ "" \in FrameBodies /\ "denied" \in FrameKinds
  BY LinkConstants DEF FrameBodies, FrameKinds
<1>2. Note(kind) \in LinkFrame /\ Note(kind).kind = kind
  BY <1>1 DEF Note, Frame, LinkFrame
<1>3. Denied(why) \in LinkFrame /\ Denied(why).kind = "denied"
  BY <1>1 DEF Denied, Frame, LinkFrame
<1> QED BY <1>2, <1>3

\* A list of frames with one more at its end.
LEMMA FrameAdded ==
    ASSUME NEW q \in Seq(LinkFrame), NEW f \in LinkFrame
    PROVE  /\ Append(q, f) \in Seq(LinkFrame) /\ Append(q, f) # <<>>
           /\ ToldOver(Append(q, f)) <=> ToldOver(q) \/ f.kind \in {"online", "offline", "denied"}
           /\ HasClose(Append(q, f)) <=> HasClose(q) \/ f.kind = "close"
           /\ \A R : GoneFrom(q, R) /\ (f.kind = "leave" => f.cid \notin R) => GoneFrom(Append(q, f), R)
           /\ \A c, k : /\ Speaks(Append(q, f), c, k) <=> Speaks(q, c, k) \/ SealedBy(f, c, k)
                        /\ ShakenBefore(q, c, k) /\ ~(f.kind = "hs" /\ f.cid = c) => ShakenBefore(Append(q, f), c, k)
                        /\ SealedBy(f, c, k) => ShakenBefore(Append(q, f), c, k)
<1> DEFINE a == Append(q, f)
           L == Len(q)
<1>1. /\ a \in Seq(LinkFrame) /\ Len(a) = L + 1 /\ L \in Nat /\ DOMAIN q = 1 .. L /\ DOMAIN a = 1 .. L + 1
      /\ \A i \in 1 .. L : a[i] = q[i]
      /\ a[L + 1] = f
  BY AppendProperties, LenProperties
<1> HIDE DEF a, L
<1>2. \A i \in DOMAIN a : i \in DOMAIN q \/ i = L + 1
  BY <1>1
<1>3. \A i \in DOMAIN q : i \in DOMAIN a /\ a[i] = q[i] /\ i < L + 1
  BY <1>1
<1>4. L + 1 \in DOMAIN a
  BY <1>1
<1>5. a # <<>>
  BY <1>1, EmptySeq
<1>6. ToldOver(a) <=> ToldOver(q) \/ f.kind \in {"online", "offline", "denied"}
  BY <1>1, <1>2, <1>3, <1>4 DEF ToldOver
<1>7. HasClose(a) <=> HasClose(q) \/ f.kind = "close"
  BY <1>1, <1>2, <1>3, <1>4 DEF HasClose
<1>8. \A R : GoneFrom(q, R) /\ (f.kind = "leave" => f.cid \notin R) => GoneFrom(a, R)
  BY <1>1, <1>2, <1>3 DEF GoneFrom
<1>9. ASSUME NEW c, NEW k
      PROVE  /\ Speaks(a, c, k) <=> Speaks(q, c, k) \/ SealedBy(f, c, k)
             /\ ShakenBefore(q, c, k) /\ ~(f.kind = "hs" /\ f.cid = c) => ShakenBefore(a, c, k)
             /\ SealedBy(f, c, k) => ShakenBefore(a, c, k)
  <2>1. Speaks(a, c, k) <=> Speaks(q, c, k) \/ SealedBy(f, c, k)
    BY <1>1, <1>2, <1>3, <1>4 DEF Speaks
  <2>2. ASSUME ShakenBefore(q, c, k), ~(f.kind = "hs" /\ f.cid = c) PROVE ShakenBefore(a, c, k)
    BY <1>1, <1>2, <1>3, <2>2 DEF ShakenBefore
  <2>3. ASSUME SealedBy(f, c, k) PROVE ShakenBefore(a, c, k)
    <3>1. f.kind # "hs"
      BY <2>3 DEF SealedBy
    <3> QED BY <1>1, <1>2, <1>3, <1>4, <2>3, <3>1 DEF ShakenBefore
  <2> QED BY <2>1, <2>2, <2>3
<1> QED BY <1>1, <1>5, <1>6, <1>7, <1>8, <1>9 DEF a

\* A list of frames without its first.
LEMMA FrameTaken ==
    ASSUME NEW q \in Seq(LinkFrame), q # <<>>
    PROVE  /\ Tail(q) \in Seq(LinkFrame) /\ Head(q) \in LinkFrame /\ 1 \in DOMAIN q /\ Head(q) = q[1]
           /\ ToldOver(q) => ToldOver(Tail(q)) \/ Head(q).kind \in {"online", "offline", "denied"}
           /\ HasClose(q) => HasClose(Tail(q)) \/ Head(q).kind = "close"
           /\ \A R : GoneFrom(q, R) => GoneFrom(Tail(q), R)
           /\ \A c, k : /\ Speaks(q, c, k) => Speaks(Tail(q), c, k) \/ SealedBy(Head(q), c, k)
                        /\ ShakenBefore(q, c, k) => ShakenBefore(Tail(q), c, k)
                        /\ ShakenBefore(q, c, k) /\ Head(q).kind = "hs" /\ Head(q).cid = c => Speaks(Tail(q), c, k)
<1> DEFINE t == Tail(q)
           L == Len(q)
           f == Head(q)
<1>1. /\ t \in Seq(LinkFrame) /\ Len(t) = L - 1 /\ L \in Nat \ {0} /\ DOMAIN q = 1 .. L /\ DOMAIN t = 1 .. Len(t)
      /\ f = q[1] /\ \A i \in 1 .. Len(t) : t[i] = q[i + 1]
  BY HeadTailProperties, LenProperties, EmptySeq
<1>2. q[1] \in LinkFrame
  BY <1>1, ElementOfSeq
<1> HIDE DEF t, L, f
<1>3. \A i \in DOMAIN q : i # 1 => i - 1 \in DOMAIN t /\ t[i - 1] = q[i]
  <2> SUFFICES ASSUME NEW i \in DOMAIN q, i # 1 PROVE i - 1 \in DOMAIN t /\ t[i - 1] = q[i]
    OBVIOUS
  <2>1. i - 1 \in 1 .. Len(t) /\ (i - 1) + 1 = i
    BY <1>1
  <2> QED BY <1>1, <2>1
<1>4. \A i \in DOMAIN t : i + 1 \in DOMAIN q /\ t[i] = q[i + 1] /\ i + 1 # 1
  BY <1>1
<1>5. 1 \in DOMAIN q
  BY <1>1
<1>6. ToldOver(q) => ToldOver(t) \/ f.kind \in {"online", "offline", "denied"}
  BY <1>1, <1>3 DEF ToldOver
<1>7. HasClose(q) => HasClose(t) \/ f.kind = "close"
  BY <1>1, <1>3 DEF HasClose
<1>8. \A R : GoneFrom(q, R) => GoneFrom(t, R)
  BY <1>4 DEF GoneFrom
<1>9. ASSUME NEW c, NEW k
      PROVE  /\ Speaks(q, c, k) => Speaks(t, c, k) \/ SealedBy(f, c, k)
             /\ ShakenBefore(q, c, k) => ShakenBefore(t, c, k)
             /\ ShakenBefore(q, c, k) /\ f.kind = "hs" /\ f.cid = c => Speaks(t, c, k)
  <2>1. Speaks(q, c, k) => Speaks(t, c, k) \/ SealedBy(f, c, k)
    BY <1>1, <1>3 DEF Speaks
  <2>2. ASSUME ShakenBefore(q, c, k), NEW i \in DOMAIN t, t[i].kind = "hs", t[i].cid = c
        PROVE  \E j \in DOMAIN t : i < j /\ SealedBy(t[j], c, k)
    <3>1. PICK j \in DOMAIN q : i + 1 < j /\ SealedBy(q[j], c, k)
      BY <1>4, <2>2 DEF ShakenBefore
    <3>2. j # 1 /\ i < j - 1
      BY <1>1, <3>1
    <3> QED BY <1>3, <3>1, <3>2
  <2>3. ASSUME ShakenBefore(q, c, k), f.kind = "hs", f.cid = c PROVE Speaks(t, c, k)
    <3>1. PICK j \in DOMAIN q : 1 < j /\ SealedBy(q[j], c, k)
      BY <1>1, <1>5, <2>3 DEF ShakenBefore
    <3> QED BY <1>3, <3>1 DEF Speaks
  <2> QED BY <2>1, <2>2, <2>3 DEF ShakenBefore
<1> QED BY <1>1, <1>2, <1>5, <1>6, <1>7, <1>8, <1>9 DEF t, f

LEMMA NoFrames ==
    /\ <<>> \in Seq(LinkFrame) /\ <<>> \in Seq(Sealed) /\ ~ToldOver(<<>>) /\ \A R : GoneFrom(<<>>, R)
BY EmptySeq, LenProperties DEF GoneFrom, ToldOver

-----------------------------------------------------------------------------
(* What reaches the devices. *)

\* The frames of the devices after one more.
LEMMA DeliverIs ==
    ASSUME RelayTyped, NEW q \in [Devices -> Seq(LinkFrame)], NEW to \in Nat, NEW msg \in LinkFrame
    PROVE  /\ Deliver(q, to, msg) \in [Devices -> Seq(LinkFrame)]
           /\ \A d \in Devices :
                 /\ ToldOver(q[d]) => ToldOver(Deliver(q, to, msg)[d])
                 /\ peer[d].cid = 0 => Deliver(q, to, msg)[d] = q[d]
                 /\ Listens(d, to) /\ msg.kind = "denied" => ToldOver(Deliver(q, to, msg)[d])
<1>1. \A d \in Devices : Deliver(q, to, msg)[d] = IF Listens(d, to) THEN Append(q[d], msg) ELSE q[d]
  BY DEF Deliver
<1>2. ASSUME NEW d \in Devices
      PROVE  /\ Append(q[d], msg) \in Seq(LinkFrame)
             /\ ToldOver(q[d]) \/ msg.kind = "denied" => ToldOver(Append(q[d], msg))
  <2>1. q[d] \in Seq(LinkFrame)
    OBVIOUS
  <2> QED BY <2>1, FrameAdded
<1>3. ASSUME NEW d \in Devices, Listens(d, to) PROVE peer[d].cid # 0
  BY <1>3, LinkConstants DEF Listens, RelayTyped
<1>4. DOMAIN Deliver(q, to, msg) = Devices /\ Deliver(q, to, msg) = [d \in Devices |-> Deliver(q, to, msg)[d]]
  BY DEF Deliver
<1>5. ASSUME NEW d \in Devices PROVE Deliver(q, to, msg)[d] \in Seq(LinkFrame)
  BY <1>1, <1>2
<1>6. Deliver(q, to, msg) \in [Devices -> Seq(LinkFrame)]
  BY <1>4, <1>5
<1> QED BY <1>1, <1>2, <1>3, <1>6

\* The frames of the devices after each of the first k sends.
Sends(f, u, k) ==
    f = [n \in 0 .. k |-> IF n = 0 THEN frames ELSE Deliver(f[n - 1], u[n].to, u[n].msg)]

LEMMA SendsExist ==
    ASSUME NEW u, NEW k \in Nat
    PROVE  \E f : Sends(f, u, k)
<1> DEFINE S == {l \in Nat : ~\E f : Sends(f, u, l)}
           D(g, n) == Deliver(g, u[n].to, u[n].msg)
<1>1. SUFFICES ASSUME S # {} PROVE FALSE
  BY <1>1
<1>2. PICK l \in S : \A m \in S : l <= m
  BY <1>1, LeastNumber
<1>3. l # 0
  <2>1. Sends([n \in 0 .. 0 |-> frames], u, 0)
    BY DEF Sends
  <2> QED BY <2>1
<1>4. l \in Nat /\ l - 1 \in Nat /\ l - 1 \notin S
  BY <1>2, <1>3
<1>5. PICK g : Sends(g, u, l - 1)
  BY <1>4
<1> DEFINE f == [n \in 0 .. l |-> IF n < l THEN g[n] ELSE D(g[l - 1], l)]
<1>6. DOMAIN f = 0 .. l /\ f = [n \in 0 .. l |-> f[n]]
  OBVIOUS
<1>8. \A j \in 0 .. (l - 1) : g[j] = IF j = 0 THEN frames ELSE D(g[j - 1], j)
  BY <1>5 DEF Sends
<1> HIDE DEF D
<1>7. \A n \in 0 .. l : f[n] = IF n = 0 THEN frames ELSE D(f[n - 1], n)
  <2> SUFFICES ASSUME NEW n \in 0 .. l
               PROVE  f[n] = IF n = 0 THEN frames ELSE D(f[n - 1], n)
    OBVIOUS
  <2>1. \A j \in 0 .. (l - 1) : f[j] = g[j]
    BY <1>4
  <2>2. f[l] = D(g[l - 1], l)
    BY <1>4
  <2> HIDE DEF f
  <2>4. CASE n = l
    BY <1>3, <1>4, <2>1, <2>2, <2>4
  <2>5. CASE n = 0
    BY <1>3, <1>4, <1>8, <2>1, <2>5
  <2>6. CASE n # l /\ n # 0
    <3>1. n \in 0 .. (l - 1) /\ n - 1 \in 0 .. (l - 1)
      BY <1>4, <2>6
    <3>2. f[n] = g[n] /\ f[n - 1] = g[n - 1]
      BY <2>1, <3>1
    <3> QED BY <1>8, <2>6, <3>1, <3>2
  <2> QED BY <2>4, <2>5, <2>6
<1> HIDE DEF f
<1>9. Sends(f, u, l)
  BY <1>6, <1>7 DEF Sends, D
<1> QED BY <1>2, <1>9

\* What thread e sends: nothing a device was told is taken back, a refusal tells it.
LEMMA SendsArrive ==
    ASSUME RelayTyped, frames \in [Devices -> Seq(LinkFrame)], NEW e, NEW u \in Seq(ToSend)
    PROVE  /\ FromHost(e, u) \in [Devices -> Seq(LinkFrame)]
           /\ \A d \in Devices :
                 /\ ToldOver(frames[d]) => ToldOver(FromHost(e, u)[d])
                 /\ peer[d].cid = 0 => FromHost(e, u)[d] = frames[d]
                 /\ \A i \in 1 .. Len(u) :
                       threads[e].conn \in handlers /\ Listens(d, u[i].to) /\ u[i].msg.kind = "denied"
                       => ToldOver(FromHost(e, u)[d])
<1>1. CASE threads[e].conn \notin handlers
  BY <1>1 DEF FromHost
<1>2. CASE threads[e].conn \in handlers
  <2> DEFINE L == Len(u)
             f == CHOOSE g : Sends(g, u, L)
  <2>1. FromHost(e, u) = f[L]
    BY <1>2 DEF FromHost, Sends
  <2>2. L \in Nat /\ \A n \in 1 .. L : u[n] \in ToSend
    BY LenProperties, ElementOfSeq
  <2>3. Sends(f, u, L)
    BY <2>2, SendsExist
  <2> HIDE DEF L, f
  <2>4. f[0] = frames /\ \A n \in 1 .. L : f[n] = Deliver(f[n - 1], u[n].to, u[n].msg)
    BY <2>2, <2>3 DEF Sends
  <2> DEFINE Good(n) ==
               /\ f[n] \in [Devices -> Seq(LinkFrame)]
               /\ \A d \in Devices :
                     /\ ToldOver(frames[d]) => ToldOver(f[n][d])
                     /\ peer[d].cid = 0 => f[n][d] = frames[d]
                     /\ \A i \in 1 .. n : Listens(d, u[i].to) /\ u[i].msg.kind = "denied" => ToldOver(f[n][d])
             S == {n \in 0 .. L : ~Good(n)}
  <2>5. Good(0)
    BY <2>4
  <2>6. ASSUME NEW n \in 1 .. L, Good(n - 1) PROVE Good(n)
    <3> DEFINE q == f[n - 1]
    <3>1. u[n].to \in Nat /\ u[n].msg \in LinkFrame /\ q \in [Devices -> Seq(LinkFrame)]
      BY <2>2, <2>6 DEF ToSend
    <3>2. f[n] = Deliver(q, u[n].to, u[n].msg)
      BY <2>4
    <3>3. \A i \in 1 .. n : i = n \/ i \in 1 .. n - 1
      BY <2>2
    <3>4. \A d \in Devices :
              /\ ToldOver(frames[d]) => ToldOver(q[d])
              /\ peer[d].cid = 0 => q[d] = frames[d]
              /\ \A i \in 1 .. n - 1 : Listens(d, u[i].to) /\ u[i].msg.kind = "denied" => ToldOver(q[d])
      BY <2>6
    <3> HIDE DEF q
    <3>5. /\ f[n] \in [Devices -> Seq(LinkFrame)]
          /\ \A d \in Devices : /\ ToldOver(q[d]) => ToldOver(f[n][d])
                                /\ peer[d].cid = 0 => f[n][d] = q[d]
                                /\ Listens(d, u[n].to) /\ u[n].msg.kind = "denied" => ToldOver(f[n][d])
      <4> DEFINE to == u[n].to
                 msg == u[n].msg
      <4>1. to \in Nat /\ msg \in LinkFrame /\ f[n] = Deliver(q, to, msg)
        BY <3>1, <3>2
      <4> HIDE DEF to, msg, Good
      <4>2. /\ Deliver(q, to, msg) \in [Devices -> Seq(LinkFrame)]
            /\ \A d \in Devices : /\ ToldOver(q[d]) => ToldOver(Deliver(q, to, msg)[d])
                                  /\ peer[d].cid = 0 => Deliver(q, to, msg)[d] = q[d]
                                  /\ Listens(d, to) /\ msg.kind = "denied" => ToldOver(Deliver(q, to, msg)[d])
        BY <3>1, <4>1, DeliverIs
      <4> QED BY <4>1, <4>2 DEF to, msg
    <3> QED BY <3>3, <3>4, <3>5
  <2> HIDE DEF Good
  <2>7. S = {}
    <3>1. SUFFICES ASSUME S # {} PROVE FALSE
      OBVIOUS
    <3>2. PICK n \in S : \A m \in S : n <= m
      <4>1. S \in SUBSET Nat
        BY <2>2
      <4> HIDE DEF S
      <4> QED BY <3>1, <4>1, LeastNumber
    <3>3. n # 0
      BY <2>5, <3>2
    <3>4. n \in 1 .. L /\ n - 1 \in 0 .. L /\ ~(n <= n - 1)
      BY <2>2, <3>2, <3>3
    <3>5. Good(n - 1)
      BY <3>2, <3>4
    <3> QED BY <2>6, <3>2, <3>4, <3>5
  <2>8. Good(L)
    BY <2>2, <2>7
  <2> QED BY <2>1, <2>8 DEF Good, L
<1> QED BY <1>1, <1>2

LEMMA RepliesAre ==
    ASSUME ThreadsTyped, BudgetTyped, NEW e \in Epochs
    PROVE  Replies(e) \in Seq(ToSend)
<1> DEFINE sessions == threads[e].sessions
           r(i) == linkOutbox[i]
           reply(i) == IF r(i).epoch = e /\ r(i).cid \in DOMAIN sessions
                       THEN [to |-> r(i).cid, msg |-> Frame("sealed", 0, 0, r(i).rid, sessions[r(i).cid].key, "res")]
                       ELSE [to |-> 0, msg |-> Note("dropped")]
           L == Len(linkOutbox)
<1>1. sessions \in [DOMAIN sessions -> SessionRec]
  <2>1. sessions \in Table
    BY DEF ThreadsTyped, ThreadOK, Thread
  <2> QED BY <2>1, TableIs
<1>2. L \in Nat /\ DOMAIN linkOutbox = 1 .. L /\ \A i \in 1 .. L : r(i) \in Reply
  BY LenProperties, ElementOfSeq DEF BudgetTyped
<1>3. Replies(e) = [i \in 1 .. L |-> reply(i)]
  BY <1>2 DEF Replies
<1>4. Note("dropped") \in LinkFrame
  <2>1. "dropped" \in FrameKinds \ {"pair"} /\ "" \in FrameBodies
    BY DEF FrameKinds, FrameBodies
  <2> QED BY <2>1, NoteIs
<1>5. ASSUME NEW i \in 1 .. L PROVE reply(i) \in ToSend
  <2>1. r(i).cid \in Nat /\ r(i).rid \in Nat
    BY <1>2 DEF Reply
  <2>2. CASE r(i).epoch = e /\ r(i).cid \in DOMAIN sessions
    <3>1. sessions[r(i).cid].key \in LinkKey
      BY <1>1, <2>2 DEF SessionRec
    <3>2. Frame("sealed", 0, 0, r(i).rid, sessions[r(i).cid].key, "res") \in LinkFrame
      BY <2>1, <3>1 DEF FrameKinds, FrameBodies, Frame, LinkFrame
    <3> QED BY <2>1, <2>2, <3>2 DEF ToSend
  <2>3. CASE ~(r(i).epoch = e /\ r(i).cid \in DOMAIN sessions)
    BY <1>4, <2>3 DEF ToSend
  <2> QED BY <2>2, <2>3
<1> HIDE DEF reply
<1> QED BY <1>2, <1>3, <1>5, IsASeq

\* The replies, and what a frame made the thread send.
LEMMA HostSendsArrive ==
    ASSUME LinkTyped, NEW e \in Epochs, NEW msgs \in Seq(ToSend), HostSends(e, msgs)
    PROVE  /\ frames' \in [Devices -> Seq(LinkFrame)]
           /\ \A d \in Devices :
                 /\ ToldOver(frames[d]) => ToldOver(frames'[d])
                 /\ peer[d].cid = 0 => frames'[d] = frames[d]
                 /\ \A i \in 1 .. Len(msgs) :
                       threads[e].conn \in handlers /\ Listens(d, msgs[i].to) /\ msgs[i].msg.kind = "denied"
                       => ToldOver(frames'[d])
<1> DEFINE r == Replies(e)
           u == r \o msgs
<1>1. r \in Seq(ToSend)
  BY RepliesAre DEF LinkTyped
<1> HIDE DEF r
<1>2. /\ u \in Seq(ToSend) /\ Len(u) = Len(r) + Len(msgs) /\ Len(r) \in Nat /\ Len(msgs) \in Nat
      /\ \A i \in 1 .. Len(r) + Len(msgs) : u[i] = IF i <= Len(r) THEN r[i] ELSE msgs[i - Len(r)]
  BY <1>1, ConcatProperties, LenProperties
<1>3. frames' = FromHost(e, u)
  BY DEF HostSends, r
<1> HIDE DEF u
<1>4. ASSUME NEW i \in 1 .. Len(msgs) PROVE Len(r) + i \in 1 .. Len(u) /\ u[Len(r) + i] = msgs[i]
  <2>1. Len(r) + i \in 1 .. Len(r) + Len(msgs) /\ ~(Len(r) + i <= Len(r)) /\ (Len(r) + i) - Len(r) = i
    BY <1>2
  <2> QED BY <1>2, <2>1
<1>5. /\ FromHost(e, u) \in [Devices -> Seq(LinkFrame)]
      /\ \A d \in Devices :
            /\ ToldOver(frames[d]) => ToldOver(FromHost(e, u)[d])
            /\ peer[d].cid = 0 => FromHost(e, u)[d] = frames[d]
            /\ \A i \in 1 .. Len(u) :
                  threads[e].conn \in handlers /\ Listens(d, u[i].to) /\ u[i].msg.kind = "denied"
                  => ToldOver(FromHost(e, u)[d])
  BY <1>2, SendsArrive DEF LinkTyped, PeersTyped
<1> QED BY <1>3, <1>4, <1>5

-----------------------------------------------------------------------------
(* What a step of one thread, or of one device, changes. *)

LEMMA ThreadChanges ==
    ASSUME ThreadsTyped, nextId' = nextId, NEW e \in Epochs, NEW t, ThreadOK(t), NEW q \in Seq(LinkFrame),
           threads' = [threads EXCEPT ![e] = t] \/ (threads' = threads /\ t = threads[e]),
           hostFrames' = [hostFrames EXCEPT ![e] = q] \/ (hostFrames' = hostFrames /\ q = hostFrames[e])
    PROVE  /\ ThreadsTyped'
           /\ \A f \in Epochs : /\ threads'[f] = IF f = e THEN t ELSE threads[f]
                                /\ hostFrames'[f] = IF f = e THEN q ELSE hostFrames[f]
<1>1. /\ \A f \in Epochs : /\ threads'[f] = IF f = e THEN t ELSE threads[f]
                           /\ hostFrames'[f] = IF f = e THEN q ELSE hostFrames[f]
  BY DEF ThreadsTyped
<1>2. t \in Thread
  BY DEF ThreadOK
<1>3. threads' \in [Epochs -> Thread] /\ hostFrames' \in [Epochs -> Seq(LinkFrame)]
  BY <1>2 DEF ThreadsTyped
<1>4. ASSUME NEW f \in Epochs PROVE ThreadOK(threads[f])'
  BY <1>1 DEF ThreadsTyped, ThreadOK
<1> QED BY <1>1, <1>3, <1>4 DEF ThreadsTyped, Epochs

LEMMA DevicesHear ==
    ASSUME PeersTyped, UNCHANGED <<peer, room, nextId, toPeerHost>>, frames' \in [Devices -> Seq(LinkFrame)],
           \A d \in Devices : peer[d].cid = 0 => frames'[d] = frames[d]
    PROVE  PeersTyped'
<1>1. ASSUME NEW d \in Devices PROVE PeerFits(d, peer[d], frames[d], toPeerHost[d])'
  BY DEF PeersTyped, PeerFits
<1> QED BY <1>1 DEF PeersTyped

LEMMA DeviceChanges ==
    ASSUME PeersTyped, UNCHANGED <<room, nextId>>, NEW d \in Devices,
           NEW p \in PeerRec, NEW q \in Seq(LinkFrame), NEW w \in Seq(Sealed), PeerFits(d, p, q, w),
           peer' = [peer EXCEPT ![d] = p] \/ (peer' = peer /\ p = peer[d]),
           frames' = [frames EXCEPT ![d] = q] \/ (frames' = frames /\ q = frames[d]),
           toPeerHost' = [toPeerHost EXCEPT ![d] = w] \/ (toPeerHost' = toPeerHost /\ w = toPeerHost[d])
    PROVE  /\ PeersTyped'
           /\ peer'[d] = p /\ frames'[d] = q
           /\ \A x \in Devices : x # d => peer'[x] = peer[x] /\ frames'[x] = frames[x]
<1>1. \A x \in Devices : /\ peer'[x] = IF x = d THEN p ELSE peer[x]
                         /\ frames'[x] = IF x = d THEN q ELSE frames[x]
                         /\ toPeerHost'[x] = IF x = d THEN w ELSE toPeerHost[x]
  BY DEF PeersTyped
<1>2. /\ peer' \in [Devices -> PeerRec] /\ frames' \in [Devices -> Seq(LinkFrame)]
      /\ toPeerHost' \in [Devices -> Seq(Sealed)]
  BY DEF PeersTyped
<1>3. ASSUME NEW x \in Devices PROVE PeerFits(x, peer[x], frames[x], toPeerHost[x])'
  BY <1>1 DEF PeersTyped, PeerFits
<1> QED BY <1>1, <1>2, <1>3 DEF PeersTyped

\* One thread goes on; the others and the devices are where they were.
LEMMA ThreadAgrees ==
    ASSUME Agreement, NEW e \in Epochs, UNCHANGED <<roomHost, room, nextId, peer>>,
           \A f \in Epochs : f # e => threads'[f] = threads[f] /\ hostFrames'[f] = hostFrames[f],
           \A d \in Devices : ToldOver(frames[d]) => ToldOver(frames'[d]),
           Serving(e)' => /\ Serving(e) /\ LeftFor(hostFrames[e])'
                          /\ \A d \in Devices :
                                Believes(d)' /\ Agreed(d, threads[e], hostFrames[e])
                                => Agreed(d, threads[e], hostFrames[e])'
    PROVE  Agreement'
<1>1. ASSUME NEW d \in Devices, Believes(d)' PROVE Believes(d)
  BY <1>1 DEF Believes, Listens
<1>2. ASSUME NEW f \in Epochs, Serving(f)'
      PROVE  LeftFor(hostFrames[f])' /\ \A d \in Devices : Believes(d)' => Agreed(d, threads[f], hostFrames[f])'
  <2>1. CASE f = e
    BY <1>1, <1>2, <2>1 DEF Agreement
  <2>2. CASE f # e
    <3>1. Serving(f) /\ threads'[f] = threads[f] /\ hostFrames'[f] = hostFrames[f]
      BY <1>2, <2>2 DEF Serving
    <3>2. LeftFor(hostFrames[f])'
      BY <3>1 DEF Agreement, LeftFor, Numbered
    <3>3. ASSUME NEW d \in Devices, Believes(d)' PROVE Agreed(d, threads[f], hostFrames[f])'
      <4>1. Agreed(d, threads[f], hostFrames[f])
        BY <1>1, <3>1, <3>3 DEF Agreement
      <4> QED BY <3>1, <4>1 DEF Agreed, SharesKey, SharesIn
    <3> QED BY <3>2, <3>3
  <2> QED BY <2>1, <2>2
<1> QED BY <1>2 DEF Agreement, Epochs

\* A frame that device d sends the host.
Sent(d, f) == f \in LinkFrame /\ f.cid = peer[d].cid /\ f.kind \notin {"close", "leave"}

\* One device goes on, and sends the host a frame at most.
LEMMA DeviceAgrees ==
    ASSUME LinkTyped, Agreement, NEW d \in Devices, UNCHANGED <<roomHost, room, nextId, handlers, threads>>,
           \A x \in Devices : x # d => peer'[x] = peer[x] /\ frames'[x] = frames[x],
           NEW f, \/ hostFrames' = hostFrames
                  \/ Sent(d, f) /\ FromPeer(d, f),
           Believes(d)' => \/ /\ Believes(d) /\ peer'[d].cid = peer[d].cid /\ peer'[d].key = peer[d].key
                              /\ hostFrames' = hostFrames \/ f.kind # "hs"
                           \/ Sent(d, f) /\ FromPeer(d, f) /\ peer'[d].cid = peer[d].cid
                              /\ SealedBy(f, peer'[d].cid, peer'[d].key)
    PROVE  Agreement' /\ ThreadsTyped'
<1>1. ASSUME NEW e \in Epochs
      PROVE  \/ hostFrames'[e] = hostFrames[e]
             \/ /\ Sent(d, f) /\ peer[d].cid \in DOMAIN room
                /\ hostFrames'[e] = Append(hostFrames[e], f)
  BY DEF FromPeer, ToHost
<1>2. ASSUME NEW e \in Epochs, Serving(e), Sent(d, f), FromPeer(d, f), peer[d].cid \in DOMAIN room
      PROVE  hostFrames'[e] = Append(hostFrames[e], f)
  BY <1>2 DEF FromPeer, ToHost, Serving
<1>3. \A e \in Epochs : hostFrames[e] \in Seq(LinkFrame)
  BY DEF LinkTyped, ThreadsTyped
<1>4. ASSUME NEW e \in Epochs PROVE hostFrames'[e] \in Seq(LinkFrame)
  BY <1>1, <1>3, FrameAdded DEF Sent
<1>5. ThreadsTyped'
  <2>1. DOMAIN hostFrames' = Epochs /\ hostFrames' = [e \in Epochs |-> hostFrames'[e]]
    BY DEF FromPeer, ToHost, LinkTyped, ThreadsTyped
  <2>2. hostFrames' \in [Epochs -> Seq(LinkFrame)]
    BY <1>4, <2>1
  <2> QED BY <2>2 DEF LinkTyped, ThreadsTyped, ThreadOK, Epochs
<1>6. ASSUME NEW e \in Epochs, Serving(e)'
      PROVE  LeftFor(hostFrames[e])' /\ \A x \in Devices : Believes(x)' => Agreed(x, threads[e], hostFrames[e])'
  <2> DEFINE q == hostFrames[e]
             qq == hostFrames'[e]
             t == threads[e]
  <2>0. Serving(e) /\ q \in Seq(LinkFrame) /\ LeftFor(q) /\ threads'[e] = t
    BY <1>3, <1>6 DEF Agreement, Serving
  <2>1. qq = q \/ (Sent(d, f) /\ peer[d].cid \in DOMAIN room /\ qq = Append(q, f))
    BY <1>1
  <2> HIDE DEF q, qq, t
  <2>2. LeftFor(qq)
    BY <2>0, <2>1, FrameAdded DEF Sent, LeftFor
  <2>3. HasClose(q) => HasClose(qq)
    BY <2>0, <2>1, FrameAdded DEF Sent
  <2>4. ASSUME NEW x \in Devices, NEW c, NEW k, Believes(x), Agreed(x, t, q), c = peer[x].cid, k = peer[x].key,
               qq = q \/ ~(f.kind = "hs" /\ f.cid = c)
        PROVE  HasClose(qq) \/ (ShakenBefore(qq, c, k) /\ (Speaks(qq, c, k) \/ SharesKey(x, t)))
    <3>1. CASE HasClose(q)
      BY <2>3, <3>1
    <3>2. CASE ~HasClose(q) /\ qq = q
      BY <2>4, <3>2 DEF Agreed
    <3>3. CASE ~HasClose(q) /\ qq # q
      <4>1. qq = Append(q, f) /\ f \in LinkFrame /\ ~(f.kind = "hs" /\ f.cid = c)
        BY <2>1, <2>4, <3>3 DEF Sent
      <4>2. ShakenBefore(q, c, k) /\ (Speaks(q, c, k) \/ SharesKey(x, t))
        BY <2>4, <3>3 DEF Agreed
      <4>3. ShakenBefore(qq, c, k) /\ (Speaks(q, c, k) => Speaks(qq, c, k))
        BY <2>0, <4>1, <4>2, FrameAdded
      <4> QED BY <4>2, <4>3
    <3> QED BY <3>1, <3>2, <3>3
  <2>5. ASSUME NEW x \in Devices, Believes(x)' PROVE Agreed(x, threads[e], hostFrames[e])'
    <3>1. CASE x # d
      <4>1. Believes(x) /\ peer'[x] = peer[x] /\ peer[x].cid \in DOMAIN room /\ room[peer[x].cid] = x
        BY <2>5, <3>1 DEF Believes, Listens
      <4>2. Agreed(x, t, q)
        BY <2>0, <4>1 DEF Agreement, t, q
      <4>3. qq = q \/ f.cid # peer[x].cid
        BY <2>1, <3>1, <4>1 DEF Sent, LinkTyped, PeersTyped, PeerFits
      <4>4. HasClose(qq) \/ (/\ ShakenBefore(qq, peer[x].cid, peer[x].key)
                             /\ Speaks(qq, peer[x].cid, peer[x].key) \/ SharesKey(x, t))
        BY <2>4, <4>1, <4>2, <4>3
      <4> QED BY <2>0, <4>1, <4>4 DEF Agreed, SharesKey, SharesIn, qq, t
    <3>2. CASE x = d /\ /\ Believes(d) /\ peer'[d].cid = peer[d].cid /\ peer'[d].key = peer[d].key
                        /\ hostFrames' = hostFrames \/ f.kind # "hs"
      <4>1. Agreed(d, t, q)
        BY <2>0, <3>2 DEF Agreement, t, q
      <4>2. qq = q \/ f.kind # "hs"
        BY <3>2 DEF q, qq
      <4>3. HasClose(qq) \/ (/\ ShakenBefore(qq, peer[d].cid, peer[d].key)
                             /\ Speaks(qq, peer[d].cid, peer[d].key) \/ SharesKey(d, t))
        BY <2>4, <3>2, <4>1, <4>2
      <4> QED BY <2>0, <3>2, <4>3 DEF Agreed, SharesKey, SharesIn, qq, t
    <3>3. CASE x = d /\ /\ Sent(d, f) /\ FromPeer(d, f) /\ peer'[d].cid = peer[d].cid
                        /\ SealedBy(f, peer'[d].cid, peer'[d].key)
      <4>1. peer[d].cid \in DOMAIN room
        BY <2>5, <3>3 DEF Believes, Listens
      <4>2. qq = Append(q, f) /\ f \in LinkFrame
        BY <1>2, <2>0, <3>3, <4>1 DEF q, qq, Sent
      <4>3. ShakenBefore(qq, peer'[d].cid, peer'[d].key) /\ Speaks(qq, peer'[d].cid, peer'[d].key)
        BY <2>0, <3>3, <4>2, FrameAdded
      <4> QED BY <3>3, <4>3 DEF Agreed, qq
    <3> QED BY <2>5, <3>1, <3>2, <3>3
  <2>6. LeftFor(hostFrames[e])'
    BY <2>2 DEF LeftFor, Numbered, qq
  <2> QED BY <2>5, <2>6
<1>7. Agreement'
  BY <1>6 DEF Agreement, Epochs
<1> QED BY <1>5, <1>7

-----------------------------------------------------------------------------
(* The start. *)

LEMMA DevicesOff ==
    /\ Off \in PeerRec /\ Connecting \in PeerRec /\ [Connecting EXCEPT !.pairing = 1] \in PeerRec
    /\ Connecting.cid = 0 /\ Connecting.key = NoKey /\ Connecting.tx = FALSE /\ Connecting.state = "connecting"
    /\ \A n \in Nat : /\ [Connecting EXCEPT !.pairing = n] \in PeerRec
                      /\ [Connecting EXCEPT !.pairing = n].cid = 0 /\ [Connecting EXCEPT !.pairing = n].key = NoKey
                      /\ [Connecting EXCEPT !.pairing = n].tx = FALSE
                      /\ [Connecting EXCEPT !.pairing = n].state = "connecting"
BY LinkConstants DEF Off, Connecting, PeerRec

LEMMA ThreadsWait ==
    /\ NoThread \in Thread /\ NoThread.conn = 0 /\ NoThread.at = "none"
    /\ [NoThread EXCEPT !.at = "connect"] \in Thread /\ [NoThread EXCEPT !.at = "connect"].conn = 0
    /\ [NoThread EXCEPT !.at = "connect"].at = "connect"
    /\ nextId \in Nat => ThreadOK(NoThread) /\ ThreadOK([NoThread EXCEPT !.at = "connect"])
<1>1. NoThread \in Thread /\ [NoThread EXCEPT !.at = "connect"] \in Thread
  BY NoSessions DEF NoThread, Thread
<1>2. /\ NoThread.conn = 0 /\ NoThread.at = "none" /\ [NoThread EXCEPT !.at = "connect"].conn = 0
      /\ [NoThread EXCEPT !.at = "connect"].at = "connect"
  BY DEF NoThread
<1>3. ASSUME nextId \in Nat PROVE ThreadOK(NoThread) /\ ThreadOK([NoThread EXCEPT !.at = "connect"])
  BY <1>1, <1>2, <1>3 DEF ThreadOK
<1> QED BY <1>1, <1>2, <1>3

LEMMA AgreementStarts ==
    ASSUME LinkInit PROVE LinkIInv
<1>1. RelayTyped
  <2>1. nextId = 0 /\ roomHost = 0 /\ handlers = {} /\ room = <<>>
    BY DEF LinkInit
  <2> QED BY <2>1, LinkConstants, NoEntries DEF RelayTyped
<1>2. BudgetTyped
  <2>1. linkOutbox \in Seq(Reply)
    BY EmptySeq DEF LinkInit
  <2>2. events = 0 /\ restarts = 0 /\ asksMade = 0 /\ enabled = TRUE /\ epoch = 1 /\ known = Paired0 /\ lease = 0 /\ hostRuns = {}
    BY DEF LinkInit
  <2>3. secret \in {0, 1} /\ secrets = secret
    BY DEF LinkInit
  <2> QED BY <2>1, <2>2, <2>3, LinkConstants, LinkAssumption DEF BudgetTyped
<1>3. ThreadsTyped
  <2>1. /\ threads = [e \in Epochs |-> IF e = 1 THEN [NoThread EXCEPT !.at = "connect"] ELSE NoThread]
        /\ hostFrames = [e \in Epochs |-> <<>>] /\ nextId = 0
    BY DEF LinkInit
  <2>2. \A e \in Epochs : threads[e] = NoThread \/ threads[e] = [NoThread EXCEPT !.at = "connect"]
    BY <2>1
  <2>3. \A e \in Epochs : ThreadOK(threads[e])
    BY <2>1, <2>2, ThreadsWait
  <2>4. threads \in [Epochs -> Thread]
    BY <2>1, ThreadsWait
  <2>5. hostFrames \in [Epochs -> Seq(LinkFrame)]
    BY <2>1, NoFrames
  <2> QED BY <2>3, <2>4, <2>5 DEF ThreadsTyped
<1>4. PeersTyped
  <2>1. /\ peer = [d \in Devices |-> IF d \in Paired0 THEN Connecting ELSE [Connecting EXCEPT !.pairing = 1]]
        /\ frames = [d \in Devices |-> <<>>] /\ toPeerHost = [d \in Devices |-> <<>>] /\ nextId = 0 /\ room = <<>>
    BY DEF LinkInit
  <2>2. \A d \in Devices : peer[d] = Connecting \/ peer[d] = [Connecting EXCEPT !.pairing = 1]
    BY <2>1
  <2>3. \A d \in Devices : peer[d].cid = 0 /\ peer[d].key = NoKey /\ peer[d].tx = FALSE /\ peer[d].state = "connecting"
    <3>1. PICK p : p = [Connecting EXCEPT !.pairing = 1]
      OBVIOUS
    <3>2. p.cid = 0 /\ p.key = NoKey /\ p.tx = FALSE /\ p.state = "connecting"
      BY <3>1 DEF Connecting, Off
    <3>3. \A d \in Devices : peer[d] = Connecting \/ peer[d] = p
      BY <2>2, <3>1
    <3> QED BY <3>2, <3>3, DevicesOff
  <2>4. \A d \in Devices : PeerFits(d, peer[d], frames[d], toPeerHost[d])
    BY <2>1, <2>3, NoEntries DEF PeerFits
  <2>5. peer \in [Devices -> PeerRec]
    BY <2>1, DevicesOff
  <2>6. frames \in [Devices -> Seq(LinkFrame)] /\ toPeerHost \in [Devices -> Seq(Sealed)]
    BY <2>1, NoFrames
  <2> QED BY <2>4, <2>5, <2>6 DEF PeersTyped
<1>5. Agreement
  BY DEF LinkInit, Agreement, Serving
<1> QED BY <1>1, <1>2, <1>3, <1>4, <1>5 DEF LinkIInv, LinkTyped

-----------------------------------------------------------------------------
(* The relay. *)

\* Every device that listens is told: whoever believed in a key does no more.
LEMMA EveryoneIsTold ==
    ASSUME LinkTyped, NEW kind \in {"online", "offline"},
           frames' = [d \in Devices |->
                        IF Listens(d, peer[d].cid) THEN Append(frames[d], Note(kind)) ELSE frames[d]]
    PROVE  /\ frames' \in [Devices -> Seq(LinkFrame)]
           /\ \A d \in Devices : /\ Listens(d, peer[d].cid) => ToldOver(frames'[d])
                                 /\ peer[d].cid = 0 => frames'[d] = frames[d]
<1>1. Note(kind) \in LinkFrame /\ Note(kind).kind = kind
  <2>1. kind \in FrameKinds \ {"pair"} /\ "" \in FrameBodies
    BY DEF FrameKinds, FrameBodies
  <2> QED BY <2>1, NoteIs
<1>2. ASSUME NEW d \in Devices
      PROVE  frames[d] \in Seq(LinkFrame) /\ (peer[d].cid = 0 => ~Listens(d, peer[d].cid))
  BY LinkConstants DEF LinkTyped, PeersTyped, RelayTyped, Listens
<1>3. ASSUME NEW d \in Devices
      PROVE  Append(frames[d], Note(kind)) \in Seq(LinkFrame) /\ ToldOver(Append(frames[d], Note(kind)))
  BY <1>1, <1>2, FrameAdded
<1>4. frames' \in [Devices -> Seq(LinkFrame)]
  BY <1>2, <1>3
<1> QED BY <1>2, <1>3, <1>4

LEMMA HostIn ==
    ASSUME LinkIInv, NEW e \in Epochs, HostConnects(e)
    PROVE  LinkIInv'
<1> DEFINE t == [at |-> "top", conn |-> nextId + 1, sessions |-> <<>>]
<1>0. LinkTyped /\ Agreement /\ RelayTyped /\ BudgetTyped /\ ThreadsTyped /\ PeersTyped
  BY DEF LinkIInv, LinkTyped
<1>1. /\ nextId < MaxId /\ nextId' = nextId + 1 /\ roomHost' = nextId + 1 /\ handlers' = handlers \cup {nextId + 1}
      /\ threads' = [threads EXCEPT ![e] = t]
      /\ hostFrames' = [f \in Epochs |->
            IF f = e THEN <<>>
            ELSE IF roomHost # 0 /\ threads[f].conn = roomHost THEN Append(hostFrames[f], Note("close"))
            ELSE hostFrames[f]]
      /\ UNCHANGED <<room, peer, toPeerHost>>
  BY DEF HostConnects, peerVars
<1>2. UNCHANGED <<events, restarts, asksMade, enabled, epoch, known, secrets, secret, lease, hostRuns, linkOutbox>>
  BY DEF HostConnects, budget
<1>3. RelayTyped'
  BY <1>0, <1>1, LinkConstants DEF RelayTyped
<1>4. BudgetTyped'
  BY <1>0, <1>2 DEF BudgetTyped
<1>5. nextId \in Nat /\ nextId + 1 <= MaxId /\ nextId + 1 \in Nat /\ nextId + 1 # Lost
  BY <1>0, <1>1, LinkConstants DEF RelayTyped
<1>6. \A f \in Epochs : threads'[f] = IF f = e THEN t ELSE threads[f]
  BY <1>0, <1>1 DEF ThreadsTyped
<1>7. ThreadsTyped'
  <2>1. t \in Thread
    BY <1>5, NoSessions DEF Thread
  <2>2. threads' \in [Epochs -> Thread]
    BY <1>0, <1>1, <2>1 DEF ThreadsTyped
  <2>3. ASSUME NEW f \in Epochs PROVE ThreadOK(threads[f])'
    <3>1. CASE f = e
      <4>1. threads'[f] = t /\ t.conn = nextId + 1 /\ t.at = "top"
        BY <1>6, <3>1
      <4> QED BY <1>1, <1>5, <2>1, <4>1 DEF ThreadOK
    <3>2. CASE f # e
      <4>1. threads'[f] = threads[f] /\ ThreadOK(threads[f])
        BY <1>0, <1>6, <3>2 DEF ThreadsTyped
      <4>2. threads[f].conn \in 0 .. nextId' \cup {Lost}
        BY <1>1, <1>5, <4>1 DEF ThreadOK
      <4> QED BY <4>1, <4>2 DEF ThreadOK
    <3> QED BY <3>1, <3>2
  <2>4. Note("close") \in LinkFrame
    <3>1. "close" \in FrameKinds \ {"pair"} /\ "" \in FrameBodies
      BY DEF FrameKinds, FrameBodies
    <3> QED BY <3>1, NoteIs
  <2>5. ASSUME NEW f \in Epochs
        PROVE  hostFrames[f] \in Seq(LinkFrame) /\ Append(hostFrames[f], Note("close")) \in Seq(LinkFrame)
    <3>1. hostFrames[f] \in Seq(LinkFrame)
      BY <1>0 DEF ThreadsTyped
    <3> QED BY <2>4, <3>1, FrameAdded
  <2>6. hostFrames' \in [Epochs -> Seq(LinkFrame)]
    BY <1>1, <2>5, NoFrames
  <2> QED BY <2>2, <2>3, <2>6 DEF ThreadsTyped, Epochs
<1>8. /\ frames' \in [Devices -> Seq(LinkFrame)]
      /\ \A d \in Devices : /\ Listens(d, peer[d].cid) => ToldOver(frames'[d])
                            /\ peer[d].cid = 0 => frames'[d] = frames[d]
  <2>1. frames' = [d \in Devices |->
                     IF Listens(d, peer[d].cid) THEN Append(frames[d], Note("online")) ELSE frames[d]]
    BY DEF HostConnects, HostIsOnline
  <2> QED BY <1>0, <2>1, EveryoneIsTold
<1>9. PeersTyped'
  <2>1. ASSUME NEW d \in Devices PROVE PeerFits(d, peer[d], frames[d], toPeerHost[d])'
    <3>1. PeerFits(d, peer[d], frames[d], toPeerHost[d])
      BY <1>0 DEF PeersTyped
    <3>2. peer[d].cid \in 0 .. nextId' \cup {Lost}
      BY <1>1, <1>5, <3>1 DEF PeerFits
    <3> QED BY <1>1, <1>8, <3>1, <3>2 DEF PeerFits
  <2> QED BY <1>0, <1>1, <1>8, <2>1 DEF PeersTyped
<1>10. Agreement'
  <2>1. ASSUME NEW f \in Epochs, Serving(f)' PROVE f = e
    <3>1. CASE f # e
      <4>1. threads'[f] = threads[f] /\ threads[f].conn \in 0 .. nextId \cup {Lost}
        BY <1>0, <1>6, <3>1 DEF ThreadsTyped, ThreadOK
      <4> QED BY <1>1, <1>5, <2>1, <4>1 DEF Serving
    <3> QED BY <3>1
  <2>2. LeftFor(hostFrames[e])'
    <3>1. hostFrames'[e] = <<>>
      BY <1>1
    <3> QED BY <3>1, NoFrames DEF LeftFor
  <2>3. \A d \in Devices : ~Believes(d)'
    BY <1>1, <1>8 DEF Believes, Listens
  <2> QED BY <2>1, <2>2, <2>3 DEF Agreement, Epochs
<1> QED BY <1>3, <1>4, <1>7, <1>9, <1>10 DEF LinkIInv, LinkTyped

LEMMA HostOut ==
    ASSUME LinkIInv, NEW conn \in handlers, HostLeft(conn)
    PROVE  LinkIInv'
<1>0. LinkTyped /\ Agreement /\ RelayTyped /\ BudgetTyped /\ ThreadsTyped /\ PeersTyped
  BY DEF LinkIInv, LinkTyped
<1>1. /\ handlers' = handlers \ {conn} /\ roomHost' = IF roomHost = conn THEN 0 ELSE roomHost
      /\ UNCHANGED <<room, nextId, hostFrames, threads, peer, toPeerHost>>
      /\ UNCHANGED <<events, restarts, asksMade, enabled, epoch, known, secrets, secret, lease, hostRuns, linkOutbox>>
  BY DEF HostLeft, StillHost, linkHostVars, peerVars, budget
<1>2. RelayTyped'
  BY <1>0, <1>1 DEF RelayTyped
<1>3. BudgetTyped'
  BY <1>0, <1>1 DEF BudgetTyped
<1>4. ThreadsTyped'
  BY <1>0, <1>1 DEF ThreadsTyped, ThreadOK, Epochs
<1>5. /\ frames' \in [Devices -> Seq(LinkFrame)]
      /\ \A d \in Devices : peer[d].cid = 0 => frames'[d] = frames[d]
  <2>1. CASE roomHost = conn
    <3>1. frames' = [d \in Devices |->
                       IF Listens(d, peer[d].cid) THEN Append(frames[d], Note("offline")) ELSE frames[d]]
      BY <2>1 DEF HostLeft, StillHost
    <3> QED BY <1>0, <3>1, EveryoneIsTold
  <2>2. CASE roomHost # conn
    BY <1>0, <2>2 DEF HostLeft, StillHost, PeersTyped
  <2> QED BY <2>1, <2>2
<1>6. PeersTyped'
  BY <1>0, <1>1, <1>5, DevicesHear
<1>7. Agreement'
  <2>1. CASE roomHost = conn
    BY <1>1, <2>1 DEF Agreement, Serving
  <2>2. CASE roomHost # conn
    <3>1. UNCHANGED <<roomHost, frames>>
      BY <1>1, <2>2 DEF HostLeft, StillHost
    <3>2. \A e \in Epochs : Serving(e)' => Serving(e) /\ threads'[e] = threads[e] /\ hostFrames'[e] = hostFrames[e]
      BY <1>1, <3>1 DEF Serving
    <3>3. \A d \in Devices : Believes(d)' => Believes(d)
      BY <1>1, <3>1 DEF Believes, Listens
    <3>4. ASSUME NEW d \in Devices, NEW e \in Epochs, Agreed(d, threads[e], hostFrames[e])
          PROVE  Agreed(d, threads[e], hostFrames[e])'
      BY <1>1, <3>4 DEF Agreed, SharesKey, SharesIn
    <3>5. ASSUME NEW e \in Epochs, LeftFor(hostFrames[e]) PROVE LeftFor(hostFrames[e])'
      BY <1>1, <3>5 DEF LeftFor, Numbered
    <3> QED BY <1>0, <3>2, <3>3, <3>4, <3>5 DEF Agreement, Epochs
  <2> QED BY <2>1, <2>2
<1> QED BY <1>2, <1>3, <1>4, <1>6, <1>7 DEF LinkIInv, LinkTyped

LEMMA DeviceIn ==
    ASSUME LinkIInv, NEW d \in Devices, PeerConnects(d)
    PROVE  LinkIInv'
<1> DEFINE n == nextId + 1
           p == [peer[d] EXCEPT !.cid = n, !.tries = 0, !.eph = 0]
           note == Note(IF roomHost # 0 THEN "online" ELSE "offline")
<1>0. LinkTyped /\ Agreement /\ RelayTyped /\ BudgetTyped /\ ThreadsTyped /\ PeersTyped
  BY DEF LinkIInv, LinkTyped
<1>1. /\ nextId < MaxId /\ nextId' = n /\ peer[d].cid = 0 /\ peer[d].state \notin {"disconnected", "error"}
      /\ room' = With(room, n, d)
      /\ frames' = [frames EXCEPT ![d] = <<note>>]
      /\ UNCHANGED <<roomHost, handlers, hostFrames, threads, toPeerHost>>
      /\ UNCHANGED <<events, restarts, asksMade, enabled, epoch, known, secrets, secret, lease, hostRuns, linkOutbox>>
  BY DEF PeerConnects, linkHostVars, budget
<1>2. peer' = [peer EXCEPT ![d] = p]
  BY <1>0, <1>1 DEF PeerConnects, PeersTyped
<1>3. nextId \in Nat /\ n \in Nat /\ n # 0 /\ n <= MaxId /\ n # Lost /\ n > nextId
  BY <1>0, <1>1, LinkConstants DEF RelayTyped
<1>4. /\ DOMAIN room' = DOMAIN room \cup {n} /\ n \notin DOMAIN room /\ room'[n] = d
      /\ \A c \in DOMAIN room : room'[c] = room[c]
      /\ room' \in [DOMAIN room' -> Devices]
  <2>1. n \notin DOMAIN room /\ room \in [DOMAIN room -> Devices]
    BY <1>0, <1>3 DEF RelayTyped
  <2> QED BY <1>1, <2>1 DEF With
<1>5. /\ p \in PeerRec /\ p.cid = n /\ p.key = NoKey /\ p.tx = FALSE /\ p.state = peer[d].state
  <2>1. peer[d] \in PeerRec /\ peer[d].key = NoKey /\ peer[d].tx = FALSE
    BY <1>0, <1>1 DEF PeersTyped, PeerFits, PeerRec
  <2> QED BY <1>3, <2>1 DEF PeerRec
<1> HIDE DEF n, p
<1>6. <<note>> \in Seq(LinkFrame)
  <2>1. note \in LinkFrame
    <3>1. /\ (IF roomHost # 0 THEN "online" ELSE "offline") \in FrameKinds \ {"pair"} /\ "" \in FrameBodies
      BY DEF FrameKinds, FrameBodies
    <3> QED BY <3>1, NoteIs
  <2> HIDE DEF note
  <2> QED BY <2>1
<1>7. RelayTyped'
  BY <1>0, <1>1, <1>3, <1>4 DEF RelayTyped
<1>8. BudgetTyped'
  BY <1>0, <1>1 DEF BudgetTyped
<1>9. ThreadsTyped'
  <2>1. \A e \in Epochs : threads[e].conn \in 0 .. nextId' \cup {Lost}
    BY <1>0, <1>1, <1>3 DEF ThreadsTyped, ThreadOK
  <2> QED BY <1>0, <1>1, <2>1 DEF ThreadsTyped, ThreadOK, Epochs
<1>10. PeersTyped'
  <2>1. ASSUME NEW x \in Devices PROVE PeerFits(x, peer[x], frames[x], toPeerHost[x])'
    <3>1. PeerFits(x, peer[x], frames[x], toPeerHost[x])
      BY <1>0 DEF PeersTyped
    <3>2. CASE x = d
      <4>1. peer'[x] = p
        BY <1>0, <1>2, <3>2 DEF PeersTyped
      <4> QED BY <1>1, <1>3, <1>4, <1>5, <3>2, <4>1 DEF PeerFits
    <3>3. CASE x # d
      <4>1. peer'[x] = peer[x] /\ frames'[x] = frames[x] /\ toPeerHost'[x] = toPeerHost[x]
        BY <1>0, <1>1, <1>2, <3>3 DEF PeersTyped
      <4>2. peer[x].cid \in 0 .. nextId' \cup {Lost} /\ peer[x].cid # n
        BY <1>1, <1>3, <3>1 DEF PeerFits
      <4> QED BY <1>4, <3>1, <4>1, <4>2 DEF PeerFits
    <3> QED BY <3>2, <3>3
  <2> QED BY <1>0, <1>1, <1>2, <1>5, <1>6, <2>1 DEF PeersTyped
<1>11. Agreement'
  <2>1. ASSUME NEW x \in Devices, Believes(x)' PROVE Believes(x) /\ peer'[x] = peer[x]
    <3>1. CASE x = d
      <4>1. peer'[x] = p
        BY <1>0, <1>2, <3>1 DEF PeersTyped
      <4> QED BY <1>5, <2>1, <4>1 DEF Believes
    <3>2. CASE x # d
      <4>1. peer'[x] = peer[x] /\ frames'[x] = frames[x]
        BY <1>0, <1>1, <1>2, <3>2 DEF PeersTyped
      <4> QED BY <1>4, <2>1, <3>2, <4>1 DEF Believes, Listens
    <3> QED BY <3>1, <3>2
  <2>2. ASSUME NEW e \in Epochs, Serving(e)' PROVE Serving(e) /\ threads'[e] = threads[e] /\ hostFrames'[e] = hostFrames[e]
    BY <1>1, <2>2 DEF Serving
  <2>3. ASSUME NEW e \in Epochs, LeftFor(hostFrames[e]) PROVE LeftFor(hostFrames[e])'
    <3>1. Numbered' \subseteq Numbered
      BY <1>1, <1>3, <1>4 DEF Numbered
    <3> QED BY <1>1, <2>3, <3>1 DEF LeftFor, GoneFrom
  <2>4. ASSUME NEW e \in Epochs, NEW x \in Devices, Serving(e)', Believes(x)'
        PROVE  Agreed(x, threads[e], hostFrames[e])'
    <3>1. Agreed(x, threads[e], hostFrames[e])
      BY <1>0, <2>1, <2>2, <2>4 DEF Agreement
    <3> QED BY <2>1, <2>2, <2>4, <3>1 DEF Agreed, SharesKey, SharesIn
  <2> QED BY <1>0, <2>2, <2>3, <2>4 DEF Agreement, Epochs
<1> QED BY <1>7, <1>8, <1>9, <1>10, <1>11 DEF LinkIInv, LinkTyped

LEMMA DeviceOut ==
    ASSUME LinkIInv, NEW cid \in DOMAIN room, PeerLeft(cid)
    PROVE  LinkIInv'
<1> DEFINE f == Frame("leave", cid, 0, 0, NoKey, "")
<1>0. LinkTyped /\ Agreement /\ RelayTyped /\ BudgetTyped /\ ThreadsTyped /\ PeersTyped
  BY DEF LinkIInv, LinkTyped
<1>1. /\ peer[room[cid]].cid # cid /\ room' = Without(room, {cid})
      /\ hostFrames' = ToHost(hostFrames, f)
      /\ UNCHANGED <<roomHost, nextId, handlers, threads, peer, frames, toPeerHost>>
      /\ UNCHANGED <<events, restarts, asksMade, enabled, epoch, known, secrets, secret, lease, hostRuns, linkOutbox>>
  BY DEF PeerLeft, linkHostVars, peerVars, budget
<1>2. cid \in Nat /\ cid <= nextId /\ nextId \in Nat
  BY <1>0 DEF RelayTyped
<1>3. /\ DOMAIN room' = DOMAIN room \ {cid} /\ \A c \in DOMAIN room' : room'[c] = room[c]
      /\ room' \in [DOMAIN room' -> Devices]
  BY <1>0, <1>1 DEF Without, RelayTyped
<1>4. f \in LinkFrame /\ f.kind = "leave" /\ f.cid = cid
  BY <1>2, LinkConstants DEF Frame, LinkFrame, FrameKinds, FrameBodies
<1> HIDE DEF f
<1>5. ASSUME NEW e \in Epochs
      PROVE  hostFrames[e] \in Seq(LinkFrame) /\ hostFrames'[e] \in {hostFrames[e], Append(hostFrames[e], f)}
  BY <1>0, <1>1 DEF ToHost, ThreadsTyped
<1>6. RelayTyped'
  BY <1>0, <1>1, <1>3 DEF RelayTyped
<1>7. BudgetTyped'
  BY <1>0, <1>1 DEF BudgetTyped
<1>8. ThreadsTyped'
  <2>1. \A e \in Epochs : hostFrames'[e] \in Seq(LinkFrame)
    BY <1>4, <1>5, FrameAdded
  <2>2. hostFrames' \in [Epochs -> Seq(LinkFrame)]
    BY <1>1, <2>1 DEF ToHost
  <2> QED BY <1>0, <1>1, <2>2 DEF ThreadsTyped, ThreadOK, Epochs
<1>9. PeersTyped'
  <2>1. ASSUME NEW x \in Devices PROVE PeerFits(x, peer[x], frames[x], toPeerHost[x])'
    BY <1>0, <1>1, <1>3 DEF PeersTyped, PeerFits
  <2> QED BY <1>0, <1>1, <2>1 DEF PeersTyped
<1>10. Agreement'
  <2>1. Numbered' = Numbered \ {cid}
    BY <1>1, <1>2, <1>3 DEF Numbered
  <2>2. ASSUME NEW e \in Epochs, Serving(e)'
        PROVE  LeftFor(hostFrames[e])' /\ \A x \in Devices : Believes(x)' => Agreed(x, threads[e], hostFrames[e])'
    <3> DEFINE q == hostFrames[e]
               qq == hostFrames'[e]
               t == threads[e]
    <3>1. Serving(e) /\ q \in Seq(LinkFrame) /\ qq \in {q, Append(q, f)} /\ threads'[e] = t /\ LeftFor(q)
      BY <1>0, <1>1, <1>5, <2>2 DEF Serving, Agreement
    <3> HIDE DEF q, qq, t
    <3>2. GoneFrom(q, Numbered')
      BY <2>1, <3>1 DEF LeftFor, GoneFrom
    <3>3. GoneFrom(qq, Numbered')
      BY <1>4, <2>1, <3>1, <3>2, FrameAdded
    <3>4. ASSUME NEW x \in Devices, Believes(x)' PROVE Agreed(x, threads[e], hostFrames[e])'
      <4>1. Believes(x) /\ peer'[x] = peer[x]
        BY <1>1, <1>3, <3>4 DEF Believes, Listens
      <4>2. Agreed(x, t, q)
        BY <1>0, <3>1, <4>1 DEF Agreement, t, q
      <4>3. HasClose(qq) \/ (/\ ShakenBefore(qq, peer[x].cid, peer[x].key)
                             /\ Speaks(qq, peer[x].cid, peer[x].key) \/ SharesKey(x, t))
        <5>1. CASE qq = q
          BY <4>2, <5>1 DEF Agreed
        <5>2. CASE qq = Append(q, f)
          <6>1. CASE HasClose(q)
            BY <1>4, <3>1, <5>2, <6>1, FrameAdded
          <6>2. CASE ~HasClose(q)
            <7>1. /\ ShakenBefore(q, peer[x].cid, peer[x].key)
                  /\ Speaks(q, peer[x].cid, peer[x].key) \/ SharesKey(x, t)
              BY <4>2, <6>2 DEF Agreed
            <7> QED BY <1>4, <3>1, <5>2, <7>1, FrameAdded
          <6> QED BY <6>1, <6>2
        <5> QED BY <3>1, <5>1, <5>2
      <4> QED BY <3>1, <4>1, <4>3 DEF Agreed, SharesKey, SharesIn, qq, t
    <3> QED BY <3>3, <3>4 DEF LeftFor, qq
  <2> QED BY <2>2 DEF Agreement, Epochs
<1> QED BY <1>6, <1>7, <1>8, <1>9, <1>10 DEF LinkIInv, LinkTyped

\* The relay is deployed again: nobody is in its room, and no connection has a number of its.
LEMMA RelayAgain ==
    ASSUME LinkIInv, RelayRestarts
    PROVE  LinkIInv'
<1>0. LinkTyped /\ Agreement /\ RelayTyped /\ BudgetTyped /\ ThreadsTyped /\ PeersTyped
  BY DEF LinkIInv, LinkTyped
<1>1. /\ restarts' = restarts + 1 /\ events < MaxEvents /\ events' = events + 1
      /\ roomHost' = 0 /\ room' = <<>> /\ nextId' = 0 /\ handlers' = {}
      /\ threads' = [e \in Epochs |-> IF threads[e].conn = 0 THEN threads[e] ELSE [threads[e] EXCEPT !.conn = Lost]]
      /\ peer' = [d \in Devices |-> IF peer[d].cid = 0 THEN peer[d] ELSE [peer[d] EXCEPT !.cid = Lost]]
      /\ UNCHANGED <<enabled, epoch, known, secret, secrets, hostRuns, linkOutbox, lease, hostFrames, toPeerHost,
                     frames, asksMade>>
  BY DEF RelayRestarts
<1>2. RelayTyped'
  BY <1>1, LinkConstants, NoEntries DEF RelayTyped
<1>3. BudgetTyped'
  <2>1. /\ UNCHANGED <<enabled, epoch, known, secret, secrets, hostRuns, linkOutbox, lease, asksMade>>
        /\ restarts' = restarts + 1 /\ events < MaxEvents /\ events' = events + 1
    BY <1>1
  <2>2. events \in Nat /\ restarts \in Nat /\ epoch \in 1 .. 1 + events /\ MaxEvents \in Nat
    BY <1>0, LinkConstants DEF BudgetTyped
  <2>3. events' \in 0 .. MaxEvents /\ restarts' \in Nat /\ epoch' \in 1 .. 1 + events'
    BY <2>1, <2>2
  <2> QED BY <1>0, <2>1, <2>3 DEF BudgetTyped
<1>4. Lost # 0 /\ Lost \in Nat
  BY LinkConstants
<1>5. ThreadsTyped'
  <2>1. ASSUME NEW e \in Epochs PROVE ThreadOK(threads[e])' /\ threads'[e] \in Thread
    <3>1. ThreadOK(threads[e]) /\ threads[e] \in Thread
      BY <1>0 DEF ThreadsTyped, ThreadOK
    <3>2. CASE threads[e].conn = 0
      <4>1. threads'[e] = threads[e]
        BY <1>1, <3>2
      <4> QED BY <1>1, <3>1, <3>2, <4>1 DEF ThreadOK
    <3>3. CASE threads[e].conn # 0
      <4>1. PICK t : t = [threads[e] EXCEPT !.conn = Lost]
        OBVIOUS
      <4>2. threads'[e] = t
        BY <1>1, <3>3, <4>1
      <4>3. t \in Thread /\ t.conn = Lost /\ t.at = threads[e].at
        BY <1>4, <3>1, <4>1 DEF Thread
      <4> QED BY <1>4, <3>1, <3>3, <4>2, <4>3 DEF ThreadOK
    <3> QED BY <3>2, <3>3
  <2>2. threads' \in [Epochs -> Thread]
    BY <1>1, <2>1
  <2> QED BY <1>0, <1>1, <2>1, <2>2 DEF ThreadsTyped, Epochs
<1>6. PeersTyped'
  <2>1. ASSUME NEW d \in Devices PROVE PeerFits(d, peer[d], frames[d], toPeerHost[d])' /\ peer'[d] \in PeerRec
    <3>1. PeerFits(d, peer[d], frames[d], toPeerHost[d]) /\ peer[d] \in PeerRec
      BY <1>0 DEF PeersTyped
    <3>2. CASE peer[d].cid = 0
      <4>1. peer'[d] = peer[d]
        BY <1>1, <3>2
      <4> QED BY <1>1, <3>1, <3>2, <4>1, NoEntries DEF PeerFits
    <3>3. CASE peer[d].cid # 0
      <4>1. PICK p : p = [peer[d] EXCEPT !.cid = Lost]
        OBVIOUS
      <4>2. peer'[d] = p
        BY <1>1, <3>3, <4>1
      <4>3. p \in PeerRec /\ p.cid = Lost /\ p.key = peer[d].key /\ p.tx = peer[d].tx /\ p.state = peer[d].state
        BY <1>4, <3>1, <4>1 DEF PeerRec
      <4> QED BY <1>1, <1>4, <3>1, <3>3, <4>2, <4>3, NoEntries DEF PeerFits
    <3> QED BY <3>2, <3>3
  <2>2. peer' \in [Devices -> PeerRec]
    BY <1>1, <2>1
  <2> QED BY <1>0, <1>1, <2>1, <2>2 DEF PeersTyped
<1>7. Agreement'
  BY <1>1 DEF Agreement, Serving
<1> QED BY <1>2, <1>3, <1>5, <1>6, <1>7 DEF LinkIInv, LinkTyped

-----------------------------------------------------------------------------
(* Who uses the two programs, and the ends of a thread. *)

\* A step that touches neither the relay nor the ends of a link.
LEMMA LinkIsLeft ==
    ASSUME LinkIInv, UNCHANGED <<relayVars, threads, hostFrames, peer, toPeerHost, frames>>
    PROVE  RelayTyped' /\ ThreadsTyped' /\ PeersTyped' /\ Agreement'
<1>1. UNCHANGED <<roomHost, room, nextId, handlers, threads, hostFrames, peer, toPeerHost, frames>>
  BY DEF relayVars
<1>2. RelayTyped' /\ ThreadsTyped' /\ PeersTyped'
  BY <1>1 DEF LinkIInv, LinkTyped, RelayTyped, ThreadsTyped, ThreadOK, PeersTyped, PeerFits, Epochs
<1>3. Agreement'
  BY <1>1 DEF LinkIInv, Agreement, Serving, LeftFor, Numbered, Believes, Listens, Agreed, SharesKey, SharesIn, Epochs
<1> QED BY <1>2, <1>3

\* Thread e goes on as t, with the frames q to read.
LEMMA ThreadStep ==
    ASSUME LinkIInv, NEW e \in Epochs, NEW t, ThreadOK(t), NEW q \in Seq(LinkFrame),
           threads' = [threads EXCEPT ![e] = t],
           hostFrames' = [hostFrames EXCEPT ![e] = q] \/ (hostFrames' = hostFrames /\ q = hostFrames[e]),
           UNCHANGED <<relayVars, peer, toPeerHost>>, frames' \in [Devices -> Seq(LinkFrame)],
           \A d \in Devices : /\ ToldOver(frames[d]) => ToldOver(frames'[d])
                              /\ peer[d].cid = 0 => frames'[d] = frames[d],
           \/ t.conn = 0
           \/ /\ t.conn = threads[e].conn /\ \A R : GoneFrom(hostFrames[e], R) => GoneFrom(q, R)
              /\ \A d \in Devices :
                    Serving(e) /\ Believes(d) /\ ~ToldOver(frames'[d]) /\ Agreed(d, threads[e], hostFrames[e])
                    => Agreed(d, t, q)
    PROVE  RelayTyped' /\ ThreadsTyped' /\ PeersTyped' /\ Agreement'
<1>0. /\ UNCHANGED <<roomHost, room, nextId, handlers>> /\ nextId' = nextId
      /\ RelayTyped /\ ThreadsTyped /\ PeersTyped /\ Agreement
  BY DEF relayVars, LinkIInv, LinkTyped
<1>1. /\ ThreadsTyped'
      /\ \A f \in Epochs : /\ threads'[f] = IF f = e THEN t ELSE threads[f]
                           /\ hostFrames'[f] = IF f = e THEN q ELSE hostFrames[f]
  <2>1. threads' = [threads EXCEPT ![e] = t] \/ (threads' = threads /\ t = threads[e])
    OBVIOUS
  <2>2. nextId' = nextId /\ ThreadsTyped
    BY <1>0
  <2> QED BY ONLY ThreadOK(t), q \in Seq(LinkFrame), e \in Epochs, <2>1, <2>2, ThreadChanges,
               (hostFrames' = [hostFrames EXCEPT ![e] = q] \/ (hostFrames' = hostFrames /\ q = hostFrames[e]))
<1>2. RelayTyped'
  BY <1>0 DEF RelayTyped
<1>3. PeersTyped'
  BY <1>0, DevicesHear
<1>4. CASE t.conn = 0
  <2>1. ~Serving(e)'
    BY <1>1, <1>4 DEF Serving
  <2>2. Agreement'
    BY <1>0, <1>1, <2>1, ThreadAgrees
  <2> QED BY <1>1, <1>2, <1>3, <2>2
<1>5. CASE t.conn # 0
  <2>1. t.conn = threads[e].conn /\ threads'[e] = t /\ hostFrames'[e] = q
    BY <1>1, <1>5
  <2>2. ASSUME Serving(e)' PROVE Serving(e)
    BY <1>0, <2>1, <2>2 DEF Serving
  <2>3. ASSUME Serving(e)' PROVE LeftFor(hostFrames[e])'
    <3>1. LeftFor(hostFrames[e]) /\ Numbered' = Numbered
      BY <1>0, <2>2, <2>3 DEF Agreement, Numbered
    <3>2. LeftFor(q)
      BY <1>5, <3>1 DEF LeftFor
    <3> QED BY <2>1, <3>1, <3>2 DEF LeftFor
  <2>4. ASSUME Serving(e)', NEW d \in Devices, Believes(d)', Agreed(d, threads[e], hostFrames[e])
        PROVE  Agreed(d, threads[e], hostFrames[e])'
    <3>1. Believes(d) /\ ~ToldOver(frames'[d])
      BY <1>0, <2>4 DEF Believes, Listens
    <3>2. Agreed(d, t, q)
      BY <1>5, <2>2, <2>4, <3>1
    <3> QED BY <2>1, <3>2 DEF Agreed, SharesKey, SharesIn
  <2>5. Agreement'
    BY <1>0, <1>1, <2>2, <2>3, <2>4, ThreadAgrees
  <2> QED BY <1>1, <1>2, <1>3, <2>5
<1> QED BY <1>4, <1>5

\* A thread that has no connection any more.
LEMMA ThreadGoes ==
    ASSUME LinkIInv, NEW e \in Epochs, NEW t, t = NoThread \/ t = [NoThread EXCEPT !.at = "connect"],
           threads' = [threads EXCEPT ![e] = t], UNCHANGED <<relayVars, peer, toPeerHost>>,
           frames' \in [Devices -> Seq(LinkFrame)],
           \A d \in Devices : /\ ToldOver(frames[d]) => ToldOver(frames'[d])
                              /\ peer[d].cid = 0 => frames'[d] = frames[d],
           hostFrames' = hostFrames \/ hostFrames' = [hostFrames EXCEPT ![e] = <<>>]
    PROVE  RelayTyped' /\ ThreadsTyped' /\ PeersTyped' /\ Agreement'
<1>0. nextId \in Nat /\ ThreadsTyped
  BY DEF LinkIInv, LinkTyped, RelayTyped
<1>1. ThreadOK(t) /\ t.conn = 0
  BY <1>0, ThreadsWait
<1>2. PICK q \in Seq(LinkFrame) :
         hostFrames' = [hostFrames EXCEPT ![e] = q] \/ (hostFrames' = hostFrames /\ q = hostFrames[e])
  BY <1>0, NoFrames DEF ThreadsTyped
<1> QED BY <1>1, <1>2, ThreadStep

LEMMA ThreadEnds ==
    ASSUME LinkIInv, NEW e \in Epochs, GivesUpConnecting(e) \/ HostDrops(e)
    PROVE  LinkIInv'
<1>1. /\ UNCHANGED <<relayVars, enabled, epoch, known, secret, secrets, hostRuns, linkOutbox, lease, peerVars, frames>>
      /\ UNCHANGED budget \/ Spend
  BY DEF GivesUpConnecting, HostDrops
<1>2. /\ BudgetTyped' /\ frames' = frames /\ frames \in [Devices -> Seq(LinkFrame)]
      /\ UNCHANGED <<peer, toPeerHost>>
  BY <1>1, LinkConstants DEF LinkIInv, LinkTyped, BudgetTyped, PeersTyped, budget, Spend, peerVars
<1>3. CASE GivesUpConnecting(e)
  <2>1. threads' = [threads EXCEPT ![e] = NoThread] /\ hostFrames' = hostFrames
    BY <1>3 DEF GivesUpConnecting
  <2>2. RelayTyped' /\ ThreadsTyped' /\ PeersTyped' /\ Agreement'
    BY <1>1, <1>2, <2>1, ThreadGoes
  <2> QED BY <1>2, <2>2 DEF LinkIInv, LinkTyped
<1>4. CASE HostDrops(e)
  <2>1. threads' = [threads EXCEPT ![e] = [NoThread EXCEPT !.at = "connect"]] /\ hostFrames' = [hostFrames EXCEPT ![e] = <<>>]
    BY <1>4 DEF HostDrops, Broken
  <2>2. RelayTyped' /\ ThreadsTyped' /\ PeersTyped' /\ Agreement'
    BY <1>1, <1>2, <2>1, ThreadGoes
  <2> QED BY <1>2, <2>2 DEF LinkIInv, LinkTyped
<1> QED BY <1>3, <1>4

\* The user of the host, and the commands that end.
LEMMA HostIsUsed ==
    ASSUME LinkIInv, \/ SwitchOff \/ StartThread \/ ShowCode \/ TakeBack \/ HostAnswered
                     \/ \E d \in Devices : Revoke(d) \/ PeerTimesOut(d)
    PROVE  LinkIInv'
<1>0. BudgetTyped /\ LinkTyped
  BY DEF LinkIInv, LinkTyped
<1>1. CASE StartThread
  <2>1. /\ enabled' = TRUE /\ epoch' = epoch + 1 /\ events < MaxEvents /\ events' = events + 1
        /\ threads' = [threads EXCEPT ![epoch'] = [NoThread EXCEPT !.at = "connect"]]
        /\ UNCHANGED <<restarts, asksMade, known, secret, secrets, hostRuns, linkOutbox, lease>>
        /\ UNCHANGED <<relayVars, hostFrames, peerVars, frames>>
    BY <1>1 DEF StartThread, Spend
  <2>2. events \in Nat /\ epoch \in 1 .. 1 + events
    BY <1>0, LinkConstants DEF BudgetTyped
  <2>3. events' \in 0 .. MaxEvents /\ epoch' \in 1 .. 1 + events' /\ epoch' \in 1 .. 1 + MaxEvents
    BY <2>1, <2>2, LinkConstants
  <2>4. BudgetTyped' /\ epoch' \in Epochs
    BY <1>0, <2>1, <2>3, LinkConstants DEF BudgetTyped
  <2>5. frames' = frames /\ frames \in [Devices -> Seq(LinkFrame)] /\ UNCHANGED <<peer, toPeerHost>>
    BY <1>0, <2>1 DEF peerVars, LinkTyped, PeersTyped
  <2>6. RelayTyped' /\ ThreadsTyped' /\ PeersTyped' /\ Agreement'
    BY <2>1, <2>4, <2>5, ThreadGoes
  <2> QED BY <2>4, <2>6 DEF LinkIInv, LinkTyped
<1>2. ASSUME BudgetTyped', UNCHANGED <<relayVars, threads, hostFrames, peer, toPeerHost, frames>> PROVE LinkIInv'
  BY <1>2, LinkIsLeft DEF LinkIInv, LinkTyped
<1>3. CASE SwitchOff
  <2>1. /\ enabled' = FALSE /\ epoch' = epoch + 1 /\ events < MaxEvents /\ events' = events + 1
        /\ UNCHANGED <<restarts, asksMade, known, secret, secrets, hostRuns, linkOutbox, lease>>
    BY <1>3 DEF SwitchOff, Spend
  <2>2. events \in Nat /\ epoch \in 1 .. 1 + events
    BY <1>0, LinkConstants DEF BudgetTyped
  <2>3. events' \in 0 .. MaxEvents /\ epoch' \in 1 .. 1 + events'
    BY <2>1, <2>2, LinkConstants
  <2>4. BudgetTyped'
    BY <1>0, <2>1, <2>3 DEF BudgetTyped
  <2> QED BY <1>2, <1>3, <2>4 DEF SwitchOff, peerVars
<1>4. CASE ShowCode
  <2>1. BudgetTyped'
    BY <1>0, <1>4, LinkConstants DEF ShowCode, budget, BudgetTyped
  <2> QED BY <1>2, <1>4, <2>1 DEF ShowCode, peerVars
<1>5. CASE TakeBack
  <2>1. BudgetTyped'
    BY <1>0, <1>5, LinkConstants DEF TakeBack, Spend, BudgetTyped
  <2> QED BY <1>2, <1>5, <2>1 DEF TakeBack, peerVars
<1>6. CASE HostAnswered
  <2>1. PICK r \in hostRuns : hostRuns' = hostRuns \ {r} /\ linkOutbox' = Append(linkOutbox, r)
    BY <1>6 DEF HostAnswered
  <2>2. linkOutbox' \in Seq(Reply) /\ hostRuns' \subseteq Reply
    BY <1>0, <2>1, AppendProperties DEF BudgetTyped
  <2>3. UNCHANGED <<events, restarts, asksMade, enabled, epoch, known, secrets, secret, lease>>
    BY <1>6 DEF HostAnswered, budget
  <2>4. BudgetTyped'
    BY <1>0, <2>2, <2>3 DEF BudgetTyped
  <2> QED BY <1>2, <1>6, <2>4 DEF HostAnswered, peerVars
<1>7. ASSUME NEW d \in Devices, Revoke(d) PROVE LinkIInv'
  <2>1. BudgetTyped'
    BY <1>0, <1>7, LinkConstants DEF Revoke, Spend, BudgetTyped
  <2> QED BY <1>2, <1>7, <2>1 DEF Revoke, peerVars
<1>8. ASSUME NEW d \in Devices, PeerTimesOut(d) PROVE LinkIInv'
  <2>1. BudgetTyped'
    BY <1>0, <1>8 DEF PeerTimesOut, linkHostVars, budget, BudgetTyped
  <2> QED BY <1>2, <1>8, <2>1 DEF PeerTimesOut, linkHostVars
<1> QED BY <1>1, <1>3, <1>4, <1>5, <1>6, <1>7, <1>8

-----------------------------------------------------------------------------
(* The devices. *)

\* One device goes on as p, with q to read and w to send.
LEMMA DeviceGoes ==
    ASSUME LinkIInv, NEW d \in Devices, UNCHANGED <<relayVars, threads>>,
           NEW p \in PeerRec, NEW q \in Seq(LinkFrame), NEW w \in Seq(Sealed), PeerFits(d, p, q, w),
           peer' = [peer EXCEPT ![d] = p] \/ (peer' = peer /\ p = peer[d]),
           frames' = [frames EXCEPT ![d] = q] \/ (frames' = frames /\ q = frames[d]),
           toPeerHost' = [toPeerHost EXCEPT ![d] = w] \/ (toPeerHost' = toPeerHost /\ w = toPeerHost[d]),
           NEW f, \/ hostFrames' = hostFrames
                  \/ Sent(d, f) /\ FromPeer(d, f),
           p.key # NoKey => /\ p.cid = peer[d].cid
                            /\ \/ /\ p.key = peer[d].key /\ (ToldOver(frames[d]) => ToldOver(q))
                                  /\ hostFrames' = hostFrames \/ f.kind # "hs"
                               \/ Sent(d, f) /\ FromPeer(d, f) /\ SealedBy(f, p.cid, p.key)
    PROVE  RelayTyped' /\ ThreadsTyped' /\ PeersTyped' /\ Agreement'
<1>0. LinkTyped /\ Agreement /\ RelayTyped /\ PeersTyped /\ UNCHANGED <<roomHost, room, nextId, handlers, threads>>
  BY DEF relayVars, LinkIInv, LinkTyped
<1>1. RelayTyped'
  BY <1>0 DEF RelayTyped
<1>2. /\ PeersTyped' /\ peer'[d] = p /\ frames'[d] = q
      /\ \A x \in Devices : x # d => peer'[x] = peer[x] /\ frames'[x] = frames[x]
  <2>1. UNCHANGED <<room, nextId>>
    BY <1>0
  <2> QED BY <1>0, <2>1, DeviceChanges
<1>3. Believes(d)' => \/ /\ Believes(d) /\ peer'[d].cid = peer[d].cid /\ peer'[d].key = peer[d].key
                         /\ hostFrames' = hostFrames \/ f.kind # "hs"
                      \/ Sent(d, f) /\ FromPeer(d, f) /\ peer'[d].cid = peer[d].cid
                         /\ SealedBy(f, peer'[d].cid, peer'[d].key)
  <2>1. SUFFICES ASSUME Believes(d)' PROVE Believes(d) \/ (Sent(d, f) /\ FromPeer(d, f) /\ SealedBy(f, p.cid, p.key))
    BY <1>2, <2>1 DEF Believes
  <2>2. p.key # NoKey /\ ~ToldOver(q) /\ p.cid \in DOMAIN room /\ room[p.cid] = d
    BY <1>0, <1>2, <2>1 DEF Believes, Listens
  <2> QED BY <2>2 DEF Believes, Listens
<1>4. Agreement' /\ ThreadsTyped'
  BY <1>0, <1>2, <1>3, DeviceAgrees
<1> QED BY <1>1, <1>2, <1>4

\* serve returns: the connection is gone, and what was on it.
LEMMA DeviceEnds ==
    ASSUME LinkIInv, NEW d \in Devices, NEW state \in {"connecting", "disconnected", "error"}, PeerEnds(d, state),
           UNCHANGED <<relayVars, threads, hostFrames>>
    PROVE  RelayTyped' /\ ThreadsTyped' /\ PeersTyped' /\ Agreement'
<1> DEFINE code == IF state = "connecting" THEN peer[d].pairing ELSE 0
           p == [Off EXCEPT !.state = state, !.pairing = code]
<1>1. code \in Nat
  BY DEF LinkIInv, LinkTyped, PeersTyped, PeerRec
<1>2. peer' = [peer EXCEPT ![d] = p] /\ toPeerHost' = [toPeerHost EXCEPT ![d] = <<>>] /\ frames' = [frames EXCEPT ![d] = <<>>]
  BY DEF PeerEnds
<1> HIDE DEF code
<1>3. p \in PeerRec /\ p.cid = 0 /\ p.key = NoKey /\ p.tx = FALSE
  BY <1>1, LinkConstants DEF Off, PeerRec
<1> HIDE DEF p
<1>4. PeerFits(d, p, <<>>, <<>>)
  BY <1>3, LinkConstants DEF PeerFits, LinkIInv, LinkTyped, RelayTyped
<1> QED BY <1>2, <1>3, <1>4, NoFrames, DeviceGoes

\* The number of a handshake.
LEMMA EphemeralIs ==
    ASSUME NEW cid \in Nat, NEW attempt \in Nat, restarts \in Nat
    PROVE  Ephemeral(cid, attempt) \in Nat
<1>1. \A a, b \in Nat : a * b \in Nat /\ a + b \in Nat
  OBVIOUS
<1>2. MaxRestarts + 1 \in Nat /\ MaxId + 1 \in Nat
  BY LinkConstants
<1>3. attempt * (MaxRestarts + 1) \in Nat
  BY <1>1, <1>2
<1>4. attempt * (MaxRestarts + 1) + restarts \in Nat
  BY <1>3
<1>5. (attempt * (MaxRestarts + 1) + restarts) * (MaxId + 1) \in Nat
  BY <1>1, <1>2, <1>4
<1> QED BY <1>5 DEF Ephemeral

\* The first frame of a handshake goes out, and the key is forgotten.
LEMMA DeviceShakesHands ==
    ASSUME LinkIInv, NEW d \in Devices, peer[d].cid # 0, NEW code \in Nat, NEW p0,
           p0 = [peer[d] EXCEPT !.pairing = code], Handshake(d, p0),
           UNCHANGED <<relayVars, threads, toPeerHost>>,
           NEW q \in Seq(LinkFrame), frames' = [frames EXCEPT ![d] = q]
    PROVE  RelayTyped' /\ ThreadsTyped' /\ PeersTyped' /\ Agreement'
<1> DEFINE eph == Ephemeral(p0.cid, p0.tries + 1)
           f == Frame("hs", p0.cid, d, eph, NoKey, "")
           p == [p0 EXCEPT !.tries = @ + 1, !.eph = eph, !.key = NoKey]
<1>0. peer[d] \in PeerRec /\ PeerFits(d, peer[d], frames[d], toPeerHost[d]) /\ toPeerHost[d] \in Seq(Sealed)
  BY DEF LinkIInv, LinkTyped, PeersTyped
<1>1. /\ p0 \in PeerRec /\ p0.cid = peer[d].cid /\ p0.state = peer[d].state /\ p0.tx = peer[d].tx
      /\ p0.cid \in Nat /\ p0.tries + 1 \in Nat
  <2>1. p0 \in PeerRec /\ p0.cid = peer[d].cid /\ p0.state = peer[d].state /\ p0.tx = peer[d].tx
    BY <1>0 DEF PeerRec
  <2>2. p0.cid \in Nat /\ p0.tries \in Nat
    BY <2>1 DEF PeerRec
  <2> QED BY <2>1, <2>2
<1>2. eph \in Nat
  BY <1>1, EphemeralIs DEF LinkIInv, LinkTyped, BudgetTyped
<1>3. peer' = [peer EXCEPT ![d] = p] /\ FromPeer(d, f)
  BY DEF Handshake
<1> HIDE DEF eph
<1>4. /\ p \in PeerRec /\ p.cid = peer[d].cid /\ p.state = peer[d].state /\ p.tx = peer[d].tx /\ p.key = NoKey
  BY <1>1, <1>2, LinkConstants DEF PeerRec
<1>5. f \in LinkFrame /\ f.cid = peer[d].cid /\ f.kind = "hs"
  <2> QED BY <1>1, <1>2, LinkConstants DEF Frame, LinkFrame, FrameKinds, FrameBodies
<1> HIDE DEF p, f
<1>6. PeerFits(d, p, q, toPeerHost[d])
  BY <1>0, <1>4 DEF PeerFits
<1>7. Sent(d, f)
  BY <1>5 DEF Sent
<1> QED BY <1>0, <1>3, <1>4, <1>6, <1>7, DeviceGoes

\* What a device reads is a frame, and the rest of its frames are left.
LEMMA DeviceReads ==
    ASSUME LinkIInv, NEW d \in Devices, frames[d] # <<>>
    PROVE  /\ frames[d] \in Seq(LinkFrame) /\ Tail(frames[d]) \in Seq(LinkFrame) /\ Head(frames[d]) \in LinkFrame
           /\ Head(frames[d]).kind \notin {"online", "offline", "denied"} =>
                (ToldOver(frames[d]) => ToldOver(Tail(frames[d])))
<1>1. frames[d] \in Seq(LinkFrame)
  BY DEF LinkIInv, LinkTyped, PeersTyped
<1> QED BY <1>1, FrameTaken

LEMMA DeviceOnHost ==
    ASSUME LinkIInv, NEW d \in Devices, peer[d].cid # 0, frames[d] # <<>>, NEW f, OnHost(d, f),
           UNCHANGED <<relayVars, threads>>
    PROVE  RelayTyped' /\ ThreadsTyped' /\ PeersTyped' /\ Agreement'
<1>0. /\ peer[d] \in PeerRec /\ PeerFits(d, peer[d], frames[d], toPeerHost[d]) /\ toPeerHost[d] \in Seq(Sealed)
      /\ peer \in [Devices -> PeerRec]
  BY DEF LinkIInv, LinkTyped, PeersTyped
<1>1. CASE f.kind = "offline" /\ peer[d].pairing # 0
  BY <1>1, DeviceEnds DEF OnHost, PeerStops
<1>2. CASE f.kind = "offline" /\ peer[d].pairing = 0
  <2> DEFINE p == Unreachable(peer[d])
             q == Tail(frames[d])
  <2>1. peer' = [peer EXCEPT ![d] = p] /\ frames' = [frames EXCEPT ![d] = q] /\ UNCHANGED <<toPeerHost, hostFrames>>
    BY <1>2 DEF OnHost
  <2>2. p \in PeerRec /\ p.cid = peer[d].cid /\ p.key = NoKey /\ p.tx = FALSE /\ p.state = "offline"
    BY <1>0, LinkConstants DEF Unreachable, PeerRec
  <2>3. q \in Seq(LinkFrame)
    BY DeviceReads
  <2> HIDE DEF p, q
  <2>4. PeerFits(d, p, q, toPeerHost[d])
    BY <1>0, <2>2 DEF PeerFits
  <2> QED BY <1>0, <2>1, <2>2, <2>3, <2>4, DeviceGoes
<1>3. CASE f.kind # "offline" /\ peer[d].pairing # 0
  <2> DEFINE q == Tail(frames[d])
             g == Frame("pair", peer[d].cid, d, peer[d].pairing, NoKey, "")
  <2>1. /\ peer' = [peer EXCEPT ![d].key = NoKey] /\ frames' = [frames EXCEPT ![d] = q]
        /\ FromPeer(d, g) /\ UNCHANGED toPeerHost
    BY <1>3 DEF OnHost
  <2>2. PICK p : p = [peer[d] EXCEPT !.key = NoKey]
    OBVIOUS
  <2>3. peer' = [peer EXCEPT ![d] = p]
    BY <1>0, <2>1, <2>2
  <2>4. p \in PeerRec /\ p.cid = peer[d].cid /\ p.key = NoKey /\ p.tx = peer[d].tx /\ p.state = peer[d].state
    BY <1>0, <2>2, LinkConstants DEF PeerRec
  <2>5. q \in Seq(LinkFrame)
    BY DeviceReads
  <2>6. Sent(d, g)
    <3>1. d # 0 /\ peer[d].cid \in Nat /\ peer[d].pairing \in Nat
      BY <1>0, LinkConstants DEF PeerRec
    <3>2. g \in LinkFrame /\ g.cid = peer[d].cid /\ g.kind = "pair"
      BY <3>1, LinkConstants DEF Frame, LinkFrame, FrameKinds, FrameBodies
    <3> HIDE DEF g
    <3> QED BY <3>2 DEF Sent
  <2> HIDE DEF q, g
  <2>7. PeerFits(d, p, q, toPeerHost[d])
    BY <1>0, <2>4 DEF PeerFits
  <2> QED BY <1>0, <2>1, <2>3, <2>4, <2>5, <2>6, <2>7, DeviceGoes
<1>4. CASE f.kind # "offline" /\ peer[d].pairing = 0
  <2>1. Handshake(d, peer[d]) /\ frames' = [frames EXCEPT ![d] = Tail(@)] /\ UNCHANGED toPeerHost
    BY <1>4 DEF OnHost
  <2>2. peer[d] = [peer[d] EXCEPT !.pairing = 0]
    BY <1>0, <1>4 DEF PeerRec
  <2> QED BY <2>1, <2>2, DeviceReads, DeviceShakesHands
<1> QED BY <1>1, <1>2, <1>3, <1>4

LEMMA DeviceOnKey ==
    ASSUME LinkIInv, NEW d \in Devices, peer[d].cid # 0, frames[d] # <<>>, NEW f, f = Head(frames[d]),
           f.kind = "hs", OnKey(d, f), UNCHANGED <<relayVars, threads>>
    PROVE  RelayTyped' /\ ThreadsTyped' /\ PeersTyped' /\ Agreement'
<1> DEFINE q == Tail(frames[d])
           key == <<peer[d].eph, f.n, f.key[3]>>
           g == Frame("sealed", peer[d].cid, d, 0, key, "hello")
<1>0. /\ peer[d] \in PeerRec /\ PeerFits(d, peer[d], frames[d], toPeerHost[d]) /\ toPeerHost[d] \in Seq(Sealed)
      /\ peer \in [Devices -> PeerRec] /\ f \in LinkFrame
  BY DeviceReads DEF LinkIInv, LinkTyped, PeersTyped
<1>1. frames' = [frames EXCEPT ![d] = q] /\ UNCHANGED toPeerHost
  BY DEF OnKey
<1>2. q \in Seq(LinkFrame) /\ (ToldOver(frames[d]) => ToldOver(q))
  BY DeviceReads
<1>3. CASE peer[d].eph = 0
  <2>1. UNCHANGED <<peer, hostFrames>>
    BY <1>3 DEF OnKey
  <2> HIDE DEF q
  <2>2. PeerFits(d, peer[d], q, toPeerHost[d])
    BY <1>0 DEF PeerFits
  <2> QED BY <1>0, <1>1, <1>2, <2>1, <2>2, DeviceGoes
<1>4. CASE peer[d].eph # 0
  <2>1. key \in LinkKey
    <3>1. f.key \in Nat \X Nat \X Nat /\ f.n \in Nat /\ peer[d].eph \in Nat
      BY <1>0 DEF LinkFrame, LinkKey, PeerRec
    <3> QED BY <3>1 DEF LinkKey
  <2> HIDE DEF key
  <2>2. peer' = [peer EXCEPT ![d].eph = 0, ![d].key = key] /\ FromPeer(d, g)
    BY <1>4 DEF OnKey, key
  <2>3. PICK p : p = [peer[d] EXCEPT !.eph = 0, !.key = key]
    OBVIOUS
  <2>4. peer' = [peer EXCEPT ![d] = p]
    BY <1>0, <2>2, <2>3
  <2>5. p \in PeerRec /\ p.cid = peer[d].cid /\ p.key = key /\ p.tx = peer[d].tx /\ p.state = peer[d].state
    BY <1>0, <2>1, <2>3 DEF PeerRec
  <2>6. g \in LinkFrame /\ g.cid = peer[d].cid /\ g.kind = "sealed" /\ g.key = key
    <3>1. peer[d].cid \in Nat
      BY <1>0, LinkConstants DEF PeerRec
    <3> QED BY <2>1, <3>1 DEF Frame, LinkFrame, FrameKinds, FrameBodies
  <2> HIDE DEF q, g
  <2>7. Sent(d, g) /\ SealedBy(g, p.cid, p.key)
    BY <2>5, <2>6 DEF Sent, SealedBy
  <2>8. PeerFits(d, p, q, toPeerHost[d])
    BY <1>0, <2>5 DEF PeerFits
  <2> QED BY <1>0, <1>1, <1>2, <2>2, <2>4, <2>5, <2>7, <2>8, DeviceGoes
<1> QED BY <1>3, <1>4

LEMMA DeviceOnMessage ==
    ASSUME LinkIInv, NEW d \in Devices, peer[d].cid # 0, frames[d] # <<>>, NEW f, f = Head(frames[d]),
           f.kind = "sealed", OnMessage(d, f), UNCHANGED <<relayVars, threads>>
    PROVE  RelayTyped' /\ ThreadsTyped' /\ PeersTyped' /\ Agreement'
<1> DEFINE q == Tail(frames[d])
<1>0. /\ peer[d] \in PeerRec /\ PeerFits(d, peer[d], frames[d], toPeerHost[d]) /\ toPeerHost[d] \in Seq(Sealed)
      /\ peer \in [Devices -> PeerRec]
  BY DEF LinkIInv, LinkTyped, PeersTyped
<1>1. q \in Seq(LinkFrame) /\ (ToldOver(frames[d]) => ToldOver(q))
  BY DeviceReads
<1>2. CASE Retries(d)
  BY <1>2, DeviceEnds DEF Retries
<1>3. CASE frames' = [frames EXCEPT ![d] = q] /\ UNCHANGED <<peer, toPeerHost, hostFrames>>
  <2> HIDE DEF q
  <2>1. PeerFits(d, peer[d], q, toPeerHost[d])
    BY <1>0 DEF PeerFits
  <2> QED BY <1>0, <1>1, <1>3, <2>1, DeviceGoes
<1>4. CASE /\ frames' = [frames EXCEPT ![d] = q] /\ UNCHANGED <<toPeerHost, hostFrames>>
           /\ peer[d].key # NoKey
           /\ peer' = [peer EXCEPT ![d].state = "connected", ![d].tx = TRUE]
  <2> HIDE DEF q
  <2>1. PICK p : p = [peer[d] EXCEPT !.state = "connected", !.tx = TRUE]
    OBVIOUS
  <2>2. peer' = [peer EXCEPT ![d] = p]
    BY <1>0, <1>4, <2>1
  <2>3. p \in PeerRec /\ p.cid = peer[d].cid /\ p.key = peer[d].key /\ p.state = "connected"
    BY <1>0, <2>1 DEF PeerRec
  <2>4. PeerFits(d, p, q, toPeerHost[d])
    BY <1>0, <2>3 DEF PeerFits
  <2> QED BY <1>0, <1>1, <1>4, <2>2, <2>3, <2>4, DeviceGoes
<1> QED BY <1>2, <1>3, <1>4 DEF OnMessage

LEMMA DeviceStepReads ==
    ASSUME LinkIInv, NEW d \in Devices, PeerReads(d)
    PROVE  LinkIInv'
<1> DEFINE f == Head(frames[d])
<1>1. peer[d].cid # 0 /\ frames[d] # <<>> /\ UNCHANGED <<relayVars, linkHostVars, budget, threads>>
  BY DEF PeerReads, linkHostVars
<1>2. BudgetTyped'
  BY <1>1 DEF LinkIInv, LinkTyped, BudgetTyped, linkHostVars, budget
<1>3. RelayTyped' /\ ThreadsTyped' /\ PeersTyped' /\ Agreement'
  <2>1. CASE OnHost(d, f)
    BY <1>1, <2>1, DeviceOnHost
  <2>2. CASE OnPaired(d)
    <3>1. /\ Handshake(d, [peer[d] EXCEPT !.pairing = 0]) /\ UNCHANGED toPeerHost
          /\ frames' = [frames EXCEPT ![d] = Tail(frames[d])]
      BY <2>2 DEF OnPaired
    <3> QED BY <1>1, <3>1, DeviceReads, DeviceShakesHands
  <2>3. CASE OnDenied(d, f)
    <3>1. \E state \in {"connecting", "disconnected", "error"} : PeerEnds(d, state) /\ UNCHANGED hostFrames
      BY <2>3 DEF OnDenied, PeerStops, Retries
    <3> QED BY <1>1, <3>1, DeviceEnds
  <2>4. CASE f.kind = "hs" /\ OnKey(d, f)
    BY <1>1, <2>4, DeviceOnKey
  <2>5. CASE f.kind = "sealed" /\ OnMessage(d, f)
    BY <1>1, <2>5, DeviceOnMessage
  <2> QED BY <2>1, <2>2, <2>3, <2>4, <2>5 DEF PeerReads
<1> QED BY <1>2, <1>3 DEF LinkIInv, LinkTyped

LEMMA DeviceStepSends ==
    ASSUME LinkIInv, NEW d \in Devices, PeerSends(d)
    PROVE  LinkIInv'
<1> DEFINE w == toPeerHost[d]
           h == Head(w)
<1>0. /\ peer[d] \in PeerRec /\ PeerFits(d, peer[d], frames[d], w) /\ w \in Seq(Sealed)
      /\ peer \in [Devices -> PeerRec] /\ frames[d] \in Seq(LinkFrame)
  BY DEF LinkIInv, LinkTyped, PeersTyped
<1>1. /\ peer[d].cid # 0 /\ w # <<>> /\ FromPeer(d, [h EXCEPT !.cid = peer[d].cid, !.key = peer[d].key])
      /\ toPeerHost' = [toPeerHost EXCEPT ![d] = Tail(w)]
      /\ UNCHANGED <<relayVars, linkHostVars, peer, frames, budget, threads>>
  BY DEF PeerSends, linkHostVars
<1> HIDE DEF w
<1>2. h \in Sealed /\ Tail(w) \in Seq(Sealed)
  BY <1>0, <1>1, HeadTailProperties, ElementOfSeq, EmptySeq
<1> HIDE DEF h
<1>3. PICK f : f = [h EXCEPT !.cid = peer[d].cid, !.key = peer[d].key]
  OBVIOUS
<1>4. f \in LinkFrame /\ f.cid = peer[d].cid /\ f.key = peer[d].key /\ f.kind = "sealed"
  BY <1>0, <1>2, <1>3 DEF Sealed, LinkFrame, PeerRec
<1>5. Sent(d, f) /\ SealedBy(f, peer[d].cid, peer[d].key) /\ FromPeer(d, f)
  BY <1>1, <1>3, <1>4 DEF Sent, SealedBy
<1>6. PeerFits(d, peer[d], frames[d], Tail(w))
  BY <1>0, <1>1 DEF PeerFits
<1>7. RelayTyped' /\ ThreadsTyped' /\ PeersTyped' /\ Agreement'
  BY <1>0, <1>1, <1>2, <1>5, <1>6, DeviceGoes
<1>8. BudgetTyped'
  BY <1>1 DEF LinkIInv, LinkTyped, BudgetTyped, linkHostVars, budget
<1> QED BY <1>7, <1>8 DEF LinkIInv, LinkTyped

LEMMA DeviceStepAsks ==
    ASSUME LinkIInv, NEW d \in Devices, PeerAsks(d) \/ PeerClaims(d)
    PROVE  LinkIInv'
<1>0. /\ peer[d] \in PeerRec /\ PeerFits(d, peer[d], frames[d], toPeerHost[d]) /\ toPeerHost[d] \in Seq(Sealed)
      /\ frames[d] \in Seq(LinkFrame) /\ BudgetTyped
  BY DEF LinkIInv, LinkTyped, PeersTyped
<1>1. PICK n \in {0, asksMade'}, body \in {"ask", "claim"} :
         /\ asksMade' = asksMade + 1 /\ peer[d].tx
         /\ toPeerHost' = [toPeerHost EXCEPT ![d] = Append(@, Frame("sealed", 0, d, n, NoKey, body))]
         /\ UNCHANGED <<relayVars, linkHostVars, hostFrames, peer, frames, events, restarts, threads>>
  <2>1. CASE PeerAsks(d)
    <3>1. UNCHANGED threads
      BY <2>1 DEF PeerAsks, linkHostVars
    <3> QED BY <2>1, <3>1 DEF PeerAsks
  <2>2. CASE PeerClaims(d)
    <3>1. UNCHANGED threads
      BY <2>2 DEF PeerClaims, linkHostVars
    <3> QED BY <2>2, <3>1 DEF PeerClaims
  <2> QED BY <2>1, <2>2
<1> DEFINE f == Frame("sealed", 0, d, n, NoKey, body)
           w == Append(toPeerHost[d], f)
<1>2. BudgetTyped'
  BY <1>0, <1>1 DEF BudgetTyped, linkHostVars
<1>3. f \in Sealed
  <2>0. asksMade \in Nat
    BY <1>0 DEF BudgetTyped
  <2>1. n \in Nat /\ body \in FrameBodies
    <3>1. n \in Nat
      BY <1>1, <2>0
    <3>2. body \in FrameBodies
      BY DEF FrameBodies
    <3> QED BY <3>1, <3>2
  <2> QED BY <2>1, LinkConstants DEF Frame, Sealed, LinkFrame, FrameKinds, FrameBodies
<1> HIDE DEF f
<1>4. w \in Seq(Sealed) /\ toPeerHost' = [toPeerHost EXCEPT ![d] = w]
  BY <1>0, <1>1, <1>3 DEF f
<1> HIDE DEF w
<1>5. PeerFits(d, peer[d], frames[d], w)
  BY <1>0, <1>1 DEF PeerFits
<1>6. RelayTyped' /\ ThreadsTyped' /\ PeersTyped' /\ Agreement'
  BY <1>0, <1>1, <1>4, <1>5, DeviceGoes
<1> QED BY <1>2, <1>6 DEF LinkIInv, LinkTyped

\* A device that loses its connection, or is switched off or on.
LEMMA DeviceStepEnds ==
    ASSUME LinkIInv, NEW d \in Devices, PeerDrops(d) \/ PeerOff(d) \/ PeerOn(d)
    PROVE  LinkIInv'
<1>1. UNCHANGED <<relayVars, linkHostVars, threads>> /\ (UNCHANGED budget \/ Spend)
  BY DEF PeerDrops, PeerOff, PeerOn, linkHostVars
<1>2. BudgetTyped'
  BY <1>1, LinkConstants DEF LinkIInv, LinkTyped, BudgetTyped, linkHostVars, budget, Spend
<1>3. RelayTyped' /\ ThreadsTyped' /\ PeersTyped' /\ Agreement'
  <2>1. CASE PeerDrops(d) \/ PeerOff(d)
    <3>1. \E state \in {"connecting", "disconnected", "error"} : PeerEnds(d, state) /\ UNCHANGED hostFrames
      BY <2>1 DEF PeerDrops, PeerOff, PeerStops, Retries
    <3> QED BY <1>1, <3>1, DeviceEnds
  <2>2. CASE PeerOn(d)
    <3>1. peer[d].state = "disconnected" /\ peer' = [peer EXCEPT ![d] = Connecting] /\ UNCHANGED <<hostFrames, toPeerHost, frames>>
      BY <2>2 DEF PeerOn
    <3>2. /\ PeerFits(d, peer[d], frames[d], toPeerHost[d]) /\ frames[d] \in Seq(LinkFrame)
          /\ toPeerHost[d] \in Seq(Sealed)
      BY DEF LinkIInv, LinkTyped, PeersTyped
    <3>3. PeerFits(d, Connecting, frames[d], toPeerHost[d])
      BY <3>1, <3>2, DevicesOff, LinkConstants DEF PeerFits, LinkIInv, LinkTyped, RelayTyped
    <3> QED BY <1>1, <3>1, <3>2, <3>3, DevicesOff, DeviceGoes
  <2> QED BY <2>1, <2>2
<1> QED BY <1>2, <1>3 DEF LinkIInv, LinkTyped

-----------------------------------------------------------------------------
(* A pass of a thread. *)

\* The thread goes on with other sessions.
LEMMA SessionsAre ==
    ASSUME LinkIInv, NEW e \in Epochs, NEW s \in Table, NEW at \in {"top", "read"}, Session(s, e, at),
           threads[e].at \in {"top", "read"}
    PROVE  \E t : /\ ThreadOK(t) /\ t.conn = threads[e].conn /\ t.sessions = s
                  /\ threads' = [threads EXCEPT ![e] = t]
<1>1. ThreadOK(threads[e]) /\ threads \in [Epochs -> Thread]
  BY DEF LinkIInv, LinkTyped, ThreadsTyped
<1>2. PICK t : t = [threads[e] EXCEPT !.sessions = s, !.at = at]
  OBVIOUS
<1>3. t \in Thread /\ t.conn = threads[e].conn /\ t.sessions = s /\ t.at = at
  BY <1>1, <1>2 DEF ThreadOK, Thread
<1>4. threads' = [threads EXCEPT ![e] = t]
  BY <1>1, <1>2 DEF Session
<1>5. ThreadOK(t)
  BY <1>1, <1>3 DEF ThreadOK
<1> QED BY <1>3, <1>4, <1>5

\* A thread's sessions, and the devices that drive the geometry.
LEMMA SessionsOf ==
    ASSUME LinkIInv, NEW e \in Epochs
    PROVE  /\ threads[e].sessions \in Table /\ threads[e].conn \in Nat
           /\ \A c \in DOMAIN threads[e].sessions : threads[e].sessions[c] \in SessionRec /\ c \in Nat
           /\ hostFrames[e] \in Seq(LinkFrame)
           /\ \A s, devs : LeaseAfter(s, devs) \in Devices \cup {0}
           /\ Serving(e) => threads[e].conn \in handlers
<1>1. threads[e] \in Thread /\ hostFrames[e] \in Seq(LinkFrame)
  BY DEF LinkIInv, LinkTyped, ThreadsTyped
<1>2. threads[e].sessions \in Table /\ threads[e].conn \in Nat
  BY <1>1 DEF Thread
<1>3. \A c \in DOMAIN threads[e].sessions : threads[e].sessions[c] \in SessionRec /\ c \in Nat
  BY <1>2, TableIs
<1>4. \A s, devs : LeaseAfter(s, devs) \in Devices \cup {0}
  BY DEF LeaseAfter, LinkIInv, LinkTyped, BudgetTyped
<1>5. Serving(e) => threads[e].conn \in handlers
  BY DEF Serving, LinkIInv, LinkTyped, RelayTyped
<1> QED BY <1>1, <1>2, <1>3, <1>4, <1>5

LEMMA HostTop ==
    ASSUME LinkIInv, NEW e \in Epochs, Top(e)
    PROVE  LinkIInv'
<1> DEFINE s == threads[e].sessions
           cut == {c \in DOMAIN s : s[c].dev \notin known}
           left == Without(s, cut)
<1>0. frames \in [Devices -> Seq(LinkFrame)] /\ RelayTyped /\ BudgetTyped
  BY DEF LinkIInv, LinkTyped, PeersTyped
<1>1. /\ threads[e].at = "top"
      /\ UNCHANGED <<relayVars, enabled, epoch, known, secret, secrets, hostRuns, linkOutbox, peer, toPeerHost>>
      /\ UNCHANGED <<events, restarts, asksMade>>
  BY DEF Top, peerVars, budget
<1>2. CASE epoch # e
  <2>1. /\ threads' = [threads EXCEPT ![e] = NoThread] /\ UNCHANGED <<lease, frames>>
        /\ hostFrames' = [hostFrames EXCEPT ![e] = <<>>]
    BY <1>2 DEF Top
  <2>2. BudgetTyped'
    BY <1>0, <1>1, <2>1 DEF BudgetTyped
  <2>3. RelayTyped' /\ ThreadsTyped' /\ PeersTyped' /\ Agreement'
    BY <1>0, <1>1, <2>1, ThreadGoes
  <2> QED BY <2>2, <2>3 DEF LinkIInv, LinkTyped
<1>3. CASE epoch = e
  <2>1. /\ Session(left, e, "read") /\ UNCHANGED hostFrames
        /\ lease' = LeaseAfter(left, Desks(e, cut))
        /\ frames' = IF threads[e].conn \in handlers
                     THEN [d \in Devices |-> IF \E c \in cut : Listens(d, c)
                                             THEN Append(frames[d], Denied("revoked")) ELSE frames[d]]
                     ELSE frames
    BY <1>3 DEF Top
  <2>2. BudgetTyped'
    <3>1. lease' \in Devices \cup {0}
      BY <2>1, SessionsOf
    <3> QED BY <1>0, <1>1, <3>1 DEF BudgetTyped
  <2>3. s \in Table /\ hostFrames[e] \in Seq(LinkFrame)
    BY SessionsOf
  <2> HIDE DEF s, cut, left
  <2>4. left \in Table /\ DOMAIN left = DOMAIN s \ cut /\ \A k \in DOMAIN s \ cut : left[k] = s[k]
    BY <2>3, WithoutIs DEF left
  <2>5. PICK t : /\ ThreadOK(t) /\ t.conn = threads[e].conn /\ t.sessions = left
                 /\ threads' = [threads EXCEPT ![e] = t]
    BY <1>1, <2>1, <2>4, SessionsAre
  <2>6. ASSUME NEW d \in Devices
        PROVE  Append(frames[d], Denied("revoked")) \in Seq(LinkFrame) /\ ToldOver(Append(frames[d], Denied("revoked")))
    <3>1. Denied("revoked") \in LinkFrame /\ Denied("revoked").kind = "denied"
      <4>1. "close" \in FrameKinds \ {"pair"} /\ "revoked" \in FrameBodies
        BY DEF FrameKinds, FrameBodies
      <4> QED BY <4>1, NoteIs
    <3>2. frames[d] \in Seq(LinkFrame)
      BY <1>0
    <3> QED BY <3>1, <3>2, FrameAdded
  <2>7. frames' \in [Devices -> Seq(LinkFrame)]
    BY <1>0, <2>1, <2>6
  <2>8. ASSUME NEW d \in Devices
        PROVE  /\ ToldOver(frames[d]) => ToldOver(frames'[d])
               /\ peer[d].cid = 0 => frames'[d] = frames[d]
               /\ \A c \in cut : threads[e].conn \in handlers /\ Listens(d, c) => ToldOver(frames'[d])
    <3>1. \A c \in cut : Listens(d, c) => peer[d].cid # 0
      BY <1>0, LinkConstants DEF RelayTyped, Listens
    <3> QED BY <2>1, <2>6, <3>1
  <2>9. ASSUME NEW d \in Devices, Serving(e), Believes(d), ~ToldOver(frames'[d]), Agreed(d, threads[e], hostFrames[e])
        PROVE  Agreed(d, t, hostFrames[e])
    <3>1. peer[d].cid \notin cut
      BY <2>8, <2>9, SessionsOf DEF Believes
    <3>2. SharesKey(d, threads[e]) => SharesKey(d, t)
      BY <2>4, <2>5, <3>1 DEF SharesKey, SharesIn, s
    <3> QED BY <2>9, <3>2 DEF Agreed
  <2>10. RelayTyped' /\ ThreadsTyped' /\ PeersTyped' /\ Agreement'
    BY <1>1, <2>1, <2>3, <2>5, <2>7, <2>8, <2>9, ThreadStep
  <2> QED BY <2>2, <2>10 DEF LinkIInv, LinkTyped
<1> QED BY <1>2, <1>3

LEMMA OneMessage ==
    ASSUME NEW to \in Nat, NEW msg \in LinkFrame
    PROVE  LET m == [to |-> to, msg |-> msg]
           IN  <<m>> \in Seq(ToSend) /\ Len(<<m>>) = 1 /\ <<m>>[1] = m
<1> DEFINE m == [to |-> to, msg |-> msg]
<1>1. m \in ToSend
  BY DEF ToSend
<1> HIDE DEF m
<1>2. <<m>> \in Seq(ToSend) /\ Len(<<m>>) = 1 /\ <<m>>[1] = m
  BY <1>1
<1> QED BY <1>2 DEF m

\* What sessions s, left of old by the frame f, have to keep for device d.
SharesAfter(d, old, s, f) ==
    /\ SharesIn(d, old) /\ ~(f.kind = "hs" /\ f.cid = peer[d].cid) => SharesIn(d, s)
    /\ SealedBy(f, peer[d].cid, peer[d].key) => SharesIn(d, s)

\* A frame is read: the thread's sessions are left as s, and msgs are sent after the replies.
LEMMA FrameRead ==
    ASSUME LinkIInv, NEW e \in Epochs, threads[e].at = "read", hostFrames[e] # <<>>,
           hostFrames' = [hostFrames EXCEPT ![e] = Tail(@)], UNCHANGED <<relayVars, peer, toPeerHost>>,
           NEW s \in Table, Session(s, e, "top"), NEW msgs \in Seq(ToSend), HostSends(e, msgs),
           Head(hostFrames[e]).kind # "close",
           \A d \in Devices :
              Serving(e) /\ Believes(d) /\ ~ToldOver(frames'[d])
              => SharesAfter(d, threads[e].sessions, s, Head(hostFrames[e]))
    PROVE  RelayTyped' /\ ThreadsTyped' /\ PeersTyped' /\ Agreement'
<1> DEFINE q == hostFrames[e]
           f == Head(q)
<1>1. q \in Seq(LinkFrame) /\ Tail(q) \in Seq(LinkFrame)
  BY SessionsOf, FrameTaken
<1>2. PICK t : /\ ThreadOK(t) /\ t.conn = threads[e].conn /\ t.sessions = s
               /\ threads' = [threads EXCEPT ![e] = t]
  BY SessionsAre
<1>3. /\ frames' \in [Devices -> Seq(LinkFrame)]
      /\ \A d \in Devices : /\ ToldOver(frames[d]) => ToldOver(frames'[d])
                            /\ peer[d].cid = 0 => frames'[d] = frames[d]
  BY HostSendsArrive DEF LinkIInv
<1>4. ASSUME NEW d \in Devices, Serving(e), Believes(d), ~ToldOver(frames'[d]), Agreed(d, threads[e], q)
      PROVE  Agreed(d, t, Tail(q))
  <2> DEFINE c == peer[d].cid
             k == peer[d].key
  <2>1. CASE HasClose(q)
    <3>1. HasClose(Tail(q))
      BY <1>1, <2>1, FrameTaken
    <3> QED BY <3>1 DEF Agreed
  <2>2. CASE ~HasClose(q)
    <3>1. ShakenBefore(q, c, k) /\ (Speaks(q, c, k) \/ SharesKey(d, threads[e]))
      BY <1>4, <2>2 DEF Agreed
    <3>2. /\ ShakenBefore(Tail(q), c, k) /\ (Speaks(q, c, k) => Speaks(Tail(q), c, k) \/ SealedBy(f, c, k))
          /\ f.kind = "hs" /\ f.cid = c => Speaks(Tail(q), c, k)
      BY <1>1, <3>1, FrameTaken
    <3>3. /\ SharesKey(d, threads[e]) /\ ~(f.kind = "hs" /\ f.cid = c) => SharesKey(d, t)
          /\ SealedBy(f, c, k) => SharesKey(d, t)
      BY <1>2, <1>4 DEF SharesKey, SharesAfter
    <3> QED BY <3>1, <3>2, <3>3 DEF Agreed
  <2> QED BY <2>1, <2>2
<1>5. hostFrames' = [hostFrames EXCEPT ![e] = Tail(q)] /\ \A R : GoneFrom(q, R) => GoneFrom(Tail(q), R)
  BY <1>1, FrameTaken
<1> QED BY <1>1, <1>2, <1>3, <1>4, <1>5, ThreadStep

\* Who reads a frame has the fields of one.
LEMMA FrameHas ==
    ASSUME LinkIInv, NEW e \in Epochs, hostFrames[e] # <<>>
    PROVE  LET f == Head(hostFrames[e])
           IN  /\ f \in LinkFrame /\ f.cid \in Nat /\ f.n \in Nat /\ f.key \in LinkKey
               /\ f.dev \in Devices \cup {0} /\ (f.kind = "pair" => f.dev \in Devices)
<1>1. Head(hostFrames[e]) \in LinkFrame
  BY SessionsOf, FrameTaken
<1> QED BY <1>1 DEF LinkFrame

LEMMA ServeLeave ==
    ASSUME LinkIInv, NEW e \in Epochs, threads[e].at = "read", hostFrames[e] # <<>>,
           hostFrames' = [hostFrames EXCEPT ![e] = Tail(@)], UNCHANGED <<relayVars, peer, toPeerHost>>,
           NEW f, f = Head(hostFrames[e]), f.kind = "leave", OnLeave(e, f)
    PROVE  /\ RelayTyped' /\ ThreadsTyped' /\ PeersTyped' /\ Agreement'
           /\ lease' \in Devices \cup {0} /\ UNCHANGED <<known, secret, hostRuns>>
<1> DEFINE left == Without(threads[e].sessions, {f.cid})
<1>1. /\ Session(left, e, "top") /\ HostSends(e, <<>>) /\ UNCHANGED <<known, secret, hostRuns>>
      /\ \E devs : lease' = LeaseAfter(left, devs)
  BY DEF OnLeave
<1>2. lease' \in Devices \cup {0}
  BY <1>1, SessionsOf
<1>3. /\ left \in Table /\ DOMAIN left = DOMAIN threads[e].sessions \ {f.cid}
      /\ \A k \in DOMAIN threads[e].sessions \ {f.cid} : left[k] = threads[e].sessions[k]
  BY SessionsOf, WithoutIs
<1>4. <<>> \in Seq(ToSend)
  BY EmptySeq
<1>5. ASSUME NEW d \in Devices, Serving(e), Believes(d)
      PROVE  SharesAfter(d, threads[e].sessions, left, f)
  <2>1. f.cid \notin Numbered
    <3>1. LeftFor(hostFrames[e]) /\ 1 \in DOMAIN hostFrames[e] /\ f = hostFrames[e][1]
      BY <1>5, SessionsOf, FrameTaken DEF LinkIInv, Agreement
    <3> QED BY <3>1 DEF LeftFor, GoneFrom
  <2>2. peer[d].cid # f.cid
    BY <1>5, <2>1 DEF Believes, Listens, Numbered
  <2>3. SharesIn(d, threads[e].sessions) => SharesIn(d, left)
    BY <1>3, <2>2 DEF SharesIn
  <2> QED BY <2>3 DEF SharesAfter, SealedBy
<1> HIDE DEF left
<1>6. RelayTyped' /\ ThreadsTyped' /\ PeersTyped' /\ Agreement'
  BY <1>1, <1>3, <1>4, <1>5, FrameRead
<1> QED BY <1>1, <1>2, <1>6

LEMMA ServePair ==
    ASSUME LinkIInv, NEW e \in Epochs, threads[e].at = "read", hostFrames[e] # <<>>,
           hostFrames' = [hostFrames EXCEPT ![e] = Tail(@)], UNCHANGED <<relayVars, peer, toPeerHost>>,
           NEW f, f = Head(hostFrames[e]), f.kind = "pair", OnPair(e, f)
    PROVE  /\ RelayTyped' /\ ThreadsTyped' /\ PeersTyped' /\ Agreement'
           /\ known' \subseteq Devices /\ secret' \in {0, secret} /\ UNCHANGED <<lease, hostRuns>>
<1> DEFINE s == threads[e].sessions
<1>1. f.cid \in Nat /\ f.dev \in Devices /\ known \subseteq Devices
  BY FrameHas DEF LinkIInv, LinkTyped, BudgetTyped
<1>2. Session(s, e, "top") /\ UNCHANGED <<lease, hostRuns>>
  BY DEF OnPair
<1>3. known' \subseteq Devices /\ secret' \in {0, secret}
  BY <1>1 DEF OnPair
<1>4. Note("paired") \in LinkFrame /\ Denied("expired") \in LinkFrame
  <2>1. "paired" \in FrameKinds \ {"pair"} /\ "expired" \in FrameBodies
    BY DEF FrameKinds, FrameBodies
  <2> QED BY <2>1, NoteIs
<1>5. \E msgs \in Seq(ToSend) : HostSends(e, msgs)
  <2>1. \E msg \in LinkFrame : HostSends(e, <<[to |-> f.cid, msg |-> msg]>>)
    BY <1>4 DEF OnPair
  <2> QED BY <1>1, <2>1, OneMessage
<1>6. s \in Table
  BY SessionsOf
<1>7. \A d \in Devices : SharesAfter(d, threads[e].sessions, s, f)
  BY DEF SharesAfter, SealedBy
<1> HIDE DEF s
<1>8. RelayTyped' /\ ThreadsTyped' /\ PeersTyped' /\ Agreement'
  BY <1>2, <1>5, <1>6, <1>7, FrameRead
<1> QED BY <1>2, <1>3, <1>8

LEMMA ServeHandshake ==
    ASSUME LinkIInv, NEW e \in Epochs, threads[e].at = "read", hostFrames[e] # <<>>,
           hostFrames' = [hostFrames EXCEPT ![e] = Tail(@)], UNCHANGED <<relayVars, peer, toPeerHost>>,
           NEW f, f = Head(hostFrames[e]), f.kind = "hs", OnHandshake(e, f)
    PROVE  /\ RelayTyped' /\ ThreadsTyped' /\ PeersTyped' /\ Agreement'
           /\ UNCHANGED <<known, secret, lease, hostRuns>>
<1> DEFINE s == threads[e].sessions
           conn == threads[e].conn
           new == [dev |-> f.dev, key |-> <<f.n, f.n, conn>>, desk |-> FALSE]
           answer == Frame("hs", 0, 0, f.n, <<0, f.n, conn>>, "")
<1>0. UNCHANGED <<known, secret, lease, hostRuns>>
  BY DEF OnHandshake
<1>1. f.cid \in Nat /\ f.n \in Nat /\ known \subseteq Devices
  BY FrameHas DEF LinkIInv, LinkTyped, BudgetTyped
<1>2. s \in Table /\ conn \in Nat
  BY SessionsOf
<1>3. answer \in LinkFrame /\ Denied("not paired") \in LinkFrame
  <2>1. <<0, f.n, conn>> \in LinkKey
    BY <1>1, <1>2 DEF LinkKey
  <2>2. answer \in LinkFrame
    BY <1>1, <2>1 DEF Frame, LinkFrame, FrameKinds, FrameBodies
  <2>3. "paired" \in FrameKinds \ {"pair"} /\ "not paired" \in FrameBodies
    BY DEF FrameKinds, FrameBodies
  <2> QED BY <2>2, <2>3, NoteIs
<1>4. \E msgs \in Seq(ToSend) : HostSends(e, msgs)
  <2>1. \E msg \in LinkFrame : HostSends(e, <<[to |-> f.cid, msg |-> msg]>>)
    BY <1>3 DEF OnHandshake
  <2> QED BY <1>1, <2>1, OneMessage
<1>5. CASE f.dev \in known
  <2>1. Session(With(s, f.cid, new), e, "top")
    BY <1>5 DEF OnHandshake
  <2>2. new \in SessionRec
    <3>1. <<f.n, f.n, conn>> \in LinkKey /\ f.dev \in Devices
      BY <1>1, <1>2, <1>5 DEF LinkKey
    <3> QED BY <3>1 DEF SessionRec
  <2> HIDE DEF s, new
  <2> DEFINE w == With(s, f.cid, new)
  <2>3. /\ w \in Table /\ DOMAIN w = DOMAIN s \cup {f.cid} /\ \A k \in DOMAIN s : k # f.cid => w[k] = s[k]
    <3>1. PICK u \in Table : u = s
      BY <1>2
    <3>2. PICK v \in SessionRec : v = new
      BY <2>2
    <3>3. PICK c \in Nat : c = f.cid
      BY <1>1
    <3>4. With(u, c, v) \in Table
      BY WithIs
    <3>5. DOMAIN With(u, c, v) = DOMAIN u \cup {c}
      BY DEF With
    <3>6. \A k \in DOMAIN u : k # c => With(u, c, v)[k] = u[k]
      BY DEF With
    <3> QED BY <3>1, <3>2, <3>3, <3>4, <3>5, <3>6
  <2> HIDE DEF w
  <2>4. \A d \in Devices : SharesAfter(d, threads[e].sessions, w, f)
    <3>1. \A d \in Devices : SharesIn(d, s) /\ f.cid # peer[d].cid => SharesIn(d, w)
      BY <2>3 DEF SharesIn
    <3> QED BY <3>1 DEF SharesAfter, SealedBy, s
  <2>5. Session(w, e, "top")
    BY <2>1 DEF w
  <2> QED BY <1>0, <1>4, <2>3, <2>4, <2>5, FrameRead
<1>6. CASE f.dev \notin known
  <2>1. Session(s, e, "top")
    BY <1>6 DEF OnHandshake
  <2>2. \A d \in Devices : SharesAfter(d, threads[e].sessions, s, f)
    BY DEF SharesAfter, SealedBy
  <2> HIDE DEF s
  <2> QED BY <1>0, <1>2, <1>4, <2>1, <2>2, FrameRead
<1> QED BY <1>5, <1>6

LEMMA ServeSealed ==
    ASSUME LinkIInv, NEW e \in Epochs, threads[e].at = "read", hostFrames[e] # <<>>,
           hostFrames' = [hostFrames EXCEPT ![e] = Tail(@)], UNCHANGED <<relayVars, peer, toPeerHost>>,
           NEW f, f = Head(hostFrames[e]), f.kind = "sealed", OnSealed(e, f)
    PROVE  /\ RelayTyped' /\ ThreadsTyped' /\ PeersTyped' /\ Agreement'
           /\ UNCHANGED <<known, secret>> /\ lease' \in Devices \cup {0} /\ hostRuns' \subseteq Reply
<1> DEFINE s == threads[e].sessions
           c == f.cid
<1>0. UNCHANGED <<known, secret>>
  BY DEF OnSealed
<1>1. c \in Nat /\ f.n \in Nat /\ e \in Nat /\ hostRuns \subseteq Reply /\ lease \in Devices \cup {0}
  <2>1. c \in Nat /\ f.n \in Nat
    BY FrameHas
  <2>2. e \in Nat
    BY LinkConstants
  <2>3. hostRuns \subseteq Reply /\ lease \in Devices \cup {0}
    BY DEF LinkIInv, LinkTyped, BudgetTyped
  <2> QED BY <2>1, <2>2, <2>3
<1>2. /\ s \in Table /\ s \in [DOMAIN s -> SessionRec]
      /\ Serving(e) => threads[e].conn \in handlers
  BY SessionsOf, TableIs
<1>3. CASE c \notin DOMAIN s \/ s[c].key # f.key
  <2> DEFINE left == Without(s, {c})
             m == [to |-> c, msg |-> Denied("bad frame")]
  <2>1. Session(left, e, "top") /\ HostSends(e, Refusal(c)) /\ UNCHANGED <<hostRuns, lease>>
    BY <1>3 DEF OnSealed
  <2>2. Denied("bad frame") \in LinkFrame /\ Denied("bad frame").kind = "denied"
    <3>1. "paired" \in FrameKinds \ {"pair"} /\ "bad frame" \in FrameBodies
      BY DEF FrameKinds, FrameBodies
    <3> QED BY <3>1, NoteIs
  <2>3. Refusal(c) \in Seq(ToSend) /\ Len(Refusal(c)) = 1 /\ Refusal(c)[1] = m
    BY <1>1, <2>2, OneMessage DEF Refusal
  <2>4. left \in Table /\ DOMAIN left = DOMAIN s \ {c} /\ \A k \in DOMAIN s \ {c} : left[k] = s[k]
    BY <1>2, WithoutIs
  <2>5. ASSUME NEW d \in Devices, Serving(e), Believes(d), ~ToldOver(frames'[d]) PROVE peer[d].cid # c
    <3>1. 1 \in 1 .. Len(Refusal(c)) /\ Refusal(c)[1].to = c /\ Refusal(c)[1].msg.kind = "denied"
      <4>1. m.to = c /\ m.msg.kind = "denied"
        BY <2>2
      <4>2. 1 \in 1 .. 1
        OBVIOUS
      <4> HIDE DEF m
      <4> QED BY <2>3, <4>1, <4>2
    <3>2. Listens(d, c) => ToldOver(frames'[d])
      BY <1>2, <2>1, <2>3, <2>5, <3>1, HostSendsArrive DEF LinkIInv
    <3> QED BY <2>5, <3>2 DEF Believes
  <2> HIDE DEF left
  <2>6. \A d \in Devices : Serving(e) /\ Believes(d) /\ ~ToldOver(frames'[d]) =>
           SharesAfter(d, threads[e].sessions, left, f)
    <3>1. \A d \in Devices : SharesIn(d, s) /\ peer[d].cid # c => SharesIn(d, left)
      BY <2>4 DEF SharesIn
    <3>2. \A d \in Devices : SealedBy(f, peer[d].cid, peer[d].key) => peer[d].cid = c
      BY DEF SealedBy
    <3> QED BY <2>5, <3>1, <3>2 DEF SharesAfter
  <2>7. RelayTyped' /\ ThreadsTyped' /\ PeersTyped' /\ Agreement'
    BY <2>1, <2>3, <2>4, <2>6, FrameRead
  <2> QED BY <1>0, <1>1, <2>1, <2>7
<1>4. CASE ~(c \notin DOMAIN s \/ s[c].key # f.key)
  <2> DEFINE w == [s EXCEPT ![c].desk = @ \/ f.body = "hello"]
             welcome == [to |-> c, msg |-> Frame("sealed", 0, 0, 0, s[c].key, "welcome")]
             run == [rid |-> f.n, epoch |-> e, cid |-> c]
  <2>1. /\ Session(w, e, "top") /\ HostSends(e, IF f.body = "hello" THEN <<welcome>> ELSE <<>>)
        /\ hostRuns' \in {hostRuns, hostRuns \cup {run}} /\ lease' \in {lease, s[c].dev}
    BY <1>4 DEF OnSealed
  <2>2. s[c] \in SessionRec /\ c \in DOMAIN s /\ s[c].key = f.key
    BY <1>2, <1>4
  <2>3. s[c].key \in LinkKey /\ s[c].dev \in Devices /\ s[c].desk \in BOOLEAN
    BY <2>2 DEF SessionRec
  <2>4. (IF f.body = "hello" THEN <<welcome>> ELSE <<>>) \in Seq(ToSend)
    <3>1. Frame("sealed", 0, 0, 0, s[c].key, "welcome") \in LinkFrame
      BY <2>3 DEF Frame, LinkFrame, FrameKinds, FrameBodies
    <3>2. <<welcome>> \in Seq(ToSend)
      BY <1>1, <3>1, OneMessage
    <3>3. <<>> \in Seq(ToSend)
      BY EmptySeq
    <3> QED BY <3>2, <3>3
  <2>5. /\ w \in Table /\ DOMAIN w = DOMAIN s /\ \A k \in DOMAIN s : w[k].key = s[k].key
    <3>1. PICK v : v = [s[c] EXCEPT !.desk = @ \/ f.body = "hello"]
      OBVIOUS
    <3>2. v \in SessionRec /\ v.key = s[c].key
      BY <2>2, <3>1 DEF SessionRec
    <3>3. w = [s EXCEPT ![c] = v]
      BY <3>1
    <3> HIDE DEF w
    <3>4. DOMAIN w = DOMAIN s /\ \A k \in DOMAIN s : w[k] = IF k = c THEN v ELSE s[k]
      BY <1>2, <3>3
    <3>5. w \in [DOMAIN s -> SessionRec]
      BY <1>2, <3>2, <3>3
    <3>6. w \in Table
      BY <1>2, <3>4, <3>5, TableIs
    <3> QED BY <3>2, <3>4, <3>6
  <2>6. hostRuns' \subseteq Reply /\ lease' \in Devices \cup {0}
    <3>1. run \in Reply
      BY <1>1 DEF Reply
    <3> QED BY <1>1, <2>1, <2>3, <3>1
  <2> HIDE DEF w, welcome
  <2>7. \A d \in Devices : SharesAfter(d, threads[e].sessions, w, f)
    <3>1. \A d \in Devices : SharesIn(d, s) => SharesIn(d, w)
      BY <2>5 DEF SharesIn
    <3>2. \A d \in Devices : SealedBy(f, peer[d].cid, peer[d].key) => SharesIn(d, w)
      BY <2>2, <2>5 DEF SharesIn, SealedBy
    <3> QED BY <3>1, <3>2 DEF SharesAfter
  <2>8. RelayTyped' /\ ThreadsTyped' /\ PeersTyped' /\ Agreement'
    BY <2>1, <2>4, <2>5, <2>7, FrameRead
  <2> QED BY <1>0, <2>6, <2>8
<1> QED BY <1>3, <1>4

LEMMA HostServe ==
    ASSUME LinkIInv, NEW e \in Epochs, Serve(e)
    PROVE  LinkIInv'
<1> DEFINE f == Head(hostFrames[e])
<1>0. BudgetTyped
  BY DEF LinkIInv, LinkTyped
<1>1. /\ threads[e].at = "read" /\ linkOutbox' = <<>>
      /\ UNCHANGED <<relayVars, enabled, epoch, secrets, peer, toPeerHost, events, restarts, asksMade>>
  BY DEF Serve, peerVars, budget
<1>2. ASSUME known' \subseteq Devices, secret' \in {0, secret}, lease' \in Devices \cup {0}, hostRuns' \subseteq Reply
      PROVE  BudgetTyped'
  <2>1. linkOutbox' \in Seq(Reply)
    BY <1>1, EmptySeq
  <2>2. secret' \in 0 .. secrets
    BY <1>0, <1>2 DEF BudgetTyped
  <2> QED BY <1>0, <1>1, <1>2, <2>1, <2>2 DEF BudgetTyped
<1>3. known \subseteq Devices /\ lease \in Devices \cup {0} /\ hostRuns \subseteq Reply
  BY <1>0 DEF BudgetTyped
<1>4. CASE hostFrames[e] = <<>> \/ f.kind = "close"
  <2>1. /\ UNCHANGED <<known, secret, hostRuns, lease>> /\ HostSends(e, <<>>)
        /\ IF hostFrames[e] = <<>> THEN Session(threads[e].sessions, e, "top") /\ UNCHANGED hostFrames ELSE Broken(e)
    BY <1>4 DEF Serve
  <2>2. <<>> \in Seq(ToSend)
    BY EmptySeq
  <2>3. /\ frames' \in [Devices -> Seq(LinkFrame)]
        /\ \A d \in Devices : /\ ToldOver(frames[d]) => ToldOver(frames'[d])
                              /\ peer[d].cid = 0 => frames'[d] = frames[d]
    BY <2>1, <2>2, HostSendsArrive DEF LinkIInv
  <2>4. RelayTyped' /\ ThreadsTyped' /\ PeersTyped' /\ Agreement'
    <3>1. CASE hostFrames[e] = <<>>
      <4> DEFINE q == hostFrames[e]
      <4>1. threads[e].sessions \in Table /\ q \in Seq(LinkFrame) /\ hostFrames' = hostFrames
        BY <2>1, <3>1, SessionsOf
      <4>2. PICK t : /\ ThreadOK(t) /\ t.conn = threads[e].conn /\ t.sessions = threads[e].sessions
                     /\ threads' = [threads EXCEPT ![e] = t]
        BY <1>1, <2>1, <3>1, <4>1, SessionsAre
      <4>3. \A d \in Devices : Agreed(d, threads[e], q) => Agreed(d, t, q)
        BY <4>2 DEF Agreed, SharesKey, SharesIn
      <4> QED BY <1>1, <2>3, <4>1, <4>2, <4>3, ThreadStep
    <3>2. CASE hostFrames[e] # <<>>
      <4>1. /\ threads' = [threads EXCEPT ![e] = [NoThread EXCEPT !.at = "connect"]]
            /\ hostFrames' = [hostFrames EXCEPT ![e] = <<>>]
        BY <2>1, <3>2 DEF Broken
      <4> QED BY <1>1, <2>3, <4>1, ThreadGoes
    <3> QED BY <3>1, <3>2
  <2>5. BudgetTyped'
    BY <1>2, <1>3, <2>1
  <2> QED BY <2>4, <2>5 DEF LinkIInv, LinkTyped
<1>5. CASE hostFrames[e] # <<>> /\ f.kind # "close"
  <2>1. /\ hostFrames' = [hostFrames EXCEPT ![e] = Tail(@)]
        /\ \/ f.kind = "leave" /\ OnLeave(e, f)
           \/ f.kind = "pair" /\ OnPair(e, f)
           \/ f.kind = "hs" /\ OnHandshake(e, f)
           \/ f.kind = "sealed" /\ OnSealed(e, f)
    BY <1>5 DEF Serve
  <2>2. UNCHANGED <<relayVars, peer, toPeerHost>>
    BY <1>1
  <2>3. CASE f.kind = "leave" /\ OnLeave(e, f)
    BY <1>1, <1>2, <1>3, <1>5, <2>1, <2>2, <2>3, ServeLeave DEF LinkIInv, LinkTyped
  <2>4. CASE f.kind = "pair" /\ OnPair(e, f)
    BY <1>1, <1>2, <1>3, <1>5, <2>1, <2>2, <2>4, ServePair DEF LinkIInv, LinkTyped
  <2>5. CASE f.kind = "hs" /\ OnHandshake(e, f)
    BY <1>1, <1>2, <1>3, <1>5, <2>1, <2>2, <2>5, ServeHandshake DEF LinkIInv, LinkTyped
  <2>6. CASE f.kind = "sealed" /\ OnSealed(e, f)
    BY <1>1, <1>2, <1>3, <1>5, <2>1, <2>2, <2>6, ServeSealed DEF LinkIInv, LinkTyped
  <2> QED BY <2>1, <2>3, <2>4, <2>5, <2>6
<1> QED BY <1>4, <1>5

LEMMA AgreementStays ==
    ASSUME LinkIInv, [LinkNext]_linkVars
    PROVE  LinkIInv'
<1>1. CASE UNCHANGED linkVars
  <2>1. UNCHANGED <<relayVars, threads, hostFrames, peer, toPeerHost, frames>>
    BY <1>1 DEF linkVars, linkHostVars, peerVars
  <2>2. BudgetTyped'
    BY <1>1 DEF linkVars, linkHostVars, budget, LinkIInv, LinkTyped, BudgetTyped
  <2> QED BY <2>1, <2>2, LinkIsLeft DEF LinkIInv, LinkTyped
<1>2. ASSUME NEW e \in Epochs, HostStep(e) \/ HostDrops(e) PROVE LinkIInv'
  BY <1>2, HostIn, ThreadEnds, HostTop, HostServe DEF HostStep
<1>3. ASSUME NEW c \in handlers, HostLeft(c) PROVE LinkIInv'
  BY <1>3, HostOut
<1>4. ASSUME NEW c \in DOMAIN room, PeerLeft(c) PROVE LinkIInv'
  BY <1>4, DeviceOut
<1>5. ASSUME NEW d \in Devices,
             \/ PeerStep(d) \/ PeerDrops(d) \/ PeerAsks(d) \/ PeerClaims(d) \/ PeerTimesOut(d)
             \/ PeerOff(d) \/ PeerOn(d) \/ Revoke(d)
      PROVE  LinkIInv'
  BY <1>5, DeviceIn, DeviceStepReads, DeviceStepSends, DeviceStepAsks, DeviceStepEnds, HostIsUsed DEF PeerStep
<1>6. ASSUME \/ RelayRestarts \/ SwitchOff \/ StartThread \/ ShowCode \/ TakeBack \/ HostAnswered PROVE LinkIInv'
  BY <1>6, RelayAgain, HostIsUsed
<1> QED BY <1>1, <1>2, <1>3, <1>4, <1>5, <1>6 DEF LinkNext

\* What the inductive invariant says of the two conjuncts.
LEMMA AgreementSays ==
    ASSUME LinkIInv PROVE LinkTypeOK /\ LinkAgrees
<1>1. LinkTyped /\ RelayTyped /\ BudgetTyped /\ ThreadsTyped /\ PeersTyped /\ Agreement
  BY DEF LinkIInv, LinkTyped
<1>2. /\ roomHost \in 0 .. MaxId /\ nextId \in 0 .. MaxId /\ handlers \subseteq 1 .. MaxId
      /\ \A c \in DOMAIN room : c \in 1 .. MaxId /\ room[c] \in Devices
  BY <1>1, LinkConstants DEF RelayTyped
<1>3. /\ enabled \in BOOLEAN /\ epoch \in Epochs /\ known \subseteq Devices
      /\ secret \in 0 .. secrets /\ lease \in Devices \cup {0}
  BY <1>1, LinkConstants DEF BudgetTyped
<1>4. ASSUME NEW e \in Epochs
      PROVE  /\ threads[e].at \in {"none", "connect", "top", "read"}
             /\ (threads[e].conn # 0) = (threads[e].at \in {"top", "read"})
             /\ \A c \in DOMAIN threads[e].sessions :
                   threads[e].sessions[c].dev \in Devices /\ threads[e].sessions[c].desk \in BOOLEAN
  <2>1. ThreadOK(threads[e])
    BY <1>1 DEF ThreadsTyped
  <2>2. \A c \in DOMAIN threads[e].sessions : threads[e].sessions[c] \in SessionRec
    BY SessionsOf
  <2> QED BY <2>1, <2>2 DEF ThreadOK, Thread, SessionRec
<1>5. ASSUME NEW d \in Devices
      PROVE  /\ peer[d].state \in {"connecting", "connected", "offline", "error", "disconnected"}
             /\ peer[d].tx => peer[d].state = "connected" /\ peer[d].cid # 0
             /\ peer[d].cid = 0 => frames[d] = <<>> /\ toPeerHost[d] = <<>>
  <2>1. peer[d] \in PeerRec /\ PeerFits(d, peer[d], frames[d], toPeerHost[d])
    BY <1>1 DEF PeersTyped
  <2> QED BY <2>1 DEF PeerRec, PeerFits
<1>6. LinkTypeOK
  BY <1>2, <1>3, <1>4, <1>5 DEF LinkTypeOK
<1>7. ASSUME NEW d \in Devices, NEW e \in Epochs,
             peer[d].key # NoKey, Listens(d, peer[d].cid), threads[e].conn = roomHost, roomHost # 0,
             ~\E i \in DOMAIN frames[d] : frames[d][i].kind \in {"online", "offline", "denied", "hs"},
             ~\E i \in DOMAIN hostFrames[e] :
                 hostFrames[e][i].kind = "close" \/ (hostFrames[e][i].cid = peer[d].cid /\ hostFrames[e][i].kind = "sealed")
      PROVE  peer[d].cid \in DOMAIN threads[e].sessions /\ threads[e].sessions[peer[d].cid].key = peer[d].key
  <2>1. Believes(d) /\ Serving(e)
    BY <1>7 DEF Believes, Serving, ToldOver
  <2>2. Agreed(d, threads[e], hostFrames[e])
    BY <1>1, <2>1 DEF Agreement
  <2>3. ~HasClose(hostFrames[e]) /\ ~Speaks(hostFrames[e], peer[d].cid, peer[d].key)
    BY <1>7 DEF HasClose, Speaks, SealedBy
  <2> QED BY <2>2, <2>3 DEF Agreed, SharesKey, SharesIn
<1>8. LinkAgrees
  BY <1>7 DEF LinkAgrees
<1> QED BY <1>6, <1>8

\* However connections drop, programs are switched off and on, devices are revoked and the
\* relay restarts: the relay, the host and the devices keep their types, an open host
\* connection is the room's, no call waits on a connection that is gone, and a device that
\* believes in its key, with no word on its way that says otherwise, shares it with the
\* session of the thread that serves the room, or has sent a frame that will be refused.
THEOREM LinkIsAgreed == LinkSpec => []LinkInv
<1>1. LinkIInv /\ [LinkNext]_linkVars => LinkIInv'
  BY AgreementStays
<1>2. LinkIInv /\ HostStays /\ WaitsForSomebody => LinkInv
  BY AgreementSays DEF LinkInv
<1> QED BY <1>1, <1>2, AgreementStarts, RoomKeepsItsHost, PTL DEF LinkSpec

-----------------------------------------------------------------------------
(* Whose the lease of the geometry is. *)

\* No thread is newer than the one of this epoch, which the room knows, or lost with it.
NewestServes ==
    /\ \A e \in Epochs : e > epoch => threads[e].conn = 0
    /\ \/ threads[epoch].conn = 0
       \/ Serving(epoch)
       \/ threads[epoch].conn = Lost /\ roomHost = 0 /\ handlers = {}
\* A device that connected since hears of no host.
Unsealed(q) == \A i \in DOMAIN q : q[i].kind # "sealed"
Deaf(p, q) == p.cid = Lost \/ (~p.tx /\ Unsealed(q))
LostIsDeaf == threads[epoch].conn = Lost => \A d \in Devices : Deaf(peer[d], frames[d])
InTheRoom == \A d \in Devices : peer[d].cid \in DOMAIN room \cup {0, Lost}
NoneLost == \A e \in Epochs : GoneFrom(hostFrames[e], {Lost})
LeaseIInv == NewestServes /\ LostIsDeaf /\ InTheRoom /\ NoneLost

\* A thread's connection goes on or ends.
LEMMA ThreadLease ==
    ASSUME LinkIInv, NewestServes, LostIsDeaf, UNCHANGED <<roomHost, epoch, peer>>, handlers' \subseteq handlers,
           \A e \in Epochs : threads'[e].conn \in {threads[e].conn, 0},
           threads[epoch].conn = Lost => frames' = frames
    PROVE  NewestServes' /\ LostIsDeaf'
<1>0. epoch \in Epochs /\ Lost # 0
  BY LinkConstants DEF LinkIInv, LinkTyped, BudgetTyped, Epochs
<1>1. threads'[epoch].conn \in {threads[epoch].conn, 0}
  BY <1>0
<1>2. NewestServes'
  BY <1>1 DEF NewestServes, Serving, Epochs
<1>3. LostIsDeaf'
  BY <1>0, <1>1 DEF LostIsDeaf
<1> QED BY <1>2, <1>3

\* One device goes on as it is, or ends.
LEMMA DeviceLease ==
    ASSUME LinkIInv, LeaseIInv, UNCHANGED <<relayVars, threads, epoch>>, NEW d \in Devices,
           \A x \in Devices \ {d} : peer'[x] = peer[x] /\ frames'[x] = frames[x],
           Deaf(peer[d], frames[d]) => Deaf(peer'[d], frames'[d]),
           peer'[d].cid \in {peer[d].cid, 0}
    PROVE  NewestServes' /\ LostIsDeaf' /\ InTheRoom'
<1>0. UNCHANGED <<roomHost, room, handlers, threads, epoch>>
  BY DEF relayVars
<1>1. NewestServes'
  BY <1>0 DEF LeaseIInv, NewestServes, Serving, Epochs
<1>2. LostIsDeaf'
  BY <1>0 DEF LeaseIInv, LostIsDeaf
<1>3. InTheRoom'
  BY <1>0 DEF LeaseIInv, InTheRoom
<1> QED BY <1>1, <1>2, <1>3

\* A frame that reaches the thread of the room is not the leave of a lost connection.
LEMMA NoneIsLost ==
    ASSUME LinkIInv, NoneLost, NEW f \in LinkFrame, f.kind = "leave" => f.cid # Lost,
           hostFrames' = ToHost(hostFrames, f) \/ hostFrames' = hostFrames
    PROVE  NoneLost'
<1>1. ASSUME NEW e \in Epochs
      PROVE  hostFrames[e] \in Seq(LinkFrame) /\ hostFrames'[e] \in {hostFrames[e], Append(hostFrames[e], f)}
  BY DEF ToHost, LinkIInv, LinkTyped, ThreadsTyped
<1>2. ASSUME NEW e \in Epochs PROVE GoneFrom(hostFrames'[e], {Lost})
  <2>1. GoneFrom(hostFrames[e], {Lost})
    BY DEF NoneLost
  <2>2. GoneFrom(Append(hostFrames[e], f), {Lost})
    BY <1>1, <2>1, FrameAdded
  <2> QED BY <1>1, <2>1, <2>2
<1> QED BY <1>2 DEF NoneLost, Epochs

\* What a thread has read is behind it.
LEMMA NoneReadIsLost ==
    ASSUME LinkIInv, NoneLost, NEW e \in Epochs,
           \/ hostFrames' = [hostFrames EXCEPT ![e] = <<>>]
           \/ hostFrames[e] # <<>> /\ hostFrames' = [hostFrames EXCEPT ![e] = Tail(@)]
           \/ hostFrames' = hostFrames
    PROVE  NoneLost'
<1>1. hostFrames \in [Epochs -> Seq(LinkFrame)]
  BY DEF LinkIInv, LinkTyped, ThreadsTyped
<1>2. GoneFrom(<<>>, {Lost}) /\ (hostFrames[e] # <<>> => GoneFrom(Tail(hostFrames[e]), {Lost}))
  <2>1. GoneFrom(hostFrames[e], {Lost}) /\ hostFrames[e] \in Seq(LinkFrame)
    BY <1>1 DEF NoneLost
  <2> QED BY <2>1, FrameTaken, NoFrames
<1>3. ASSUME NEW x \in Epochs PROVE GoneFrom(hostFrames'[x], {Lost})
  BY <1>1, <1>2 DEF NoneLost
<1> QED BY <1>3 DEF NoneLost, Epochs

LEMMA LeaseStarts ==
    ASSUME LinkInit PROVE LeaseIInv
<1>0. 1 \in Epochs /\ epoch = 1 /\ Lost # 0
  BY LinkConstants DEF LinkInit
<1>1. \A e \in Epochs : threads[e].conn = 0 /\ hostFrames[e] = <<>>
  BY DEF LinkInit, NoThread
<1>2. \A d \in Devices : peer[d].cid = 0
  BY DEF LinkInit, Connecting, Off
<1>3. NewestServes /\ LostIsDeaf
  BY <1>0, <1>1 DEF NewestServes, LostIsDeaf
<1>4. InTheRoom /\ NoneLost
  BY <1>1, <1>2, NoFrames DEF InTheRoom, NoneLost
<1> QED BY <1>3, <1>4 DEF LeaseIInv

\* A new thread is the room's.
LEMMA LeaseHostIn ==
    ASSUME LinkIInv, LeaseIInv, NEW e \in Epochs, HostConnects(e)
    PROVE  LeaseIInv'
<1> DEFINE n == nextId + 1
           t == [at |-> "top", conn |-> n, sessions |-> <<>>]
<1>0. RelayTyped /\ ThreadsTyped /\ NewestServes /\ InTheRoom /\ NoneLost
  BY DEF LinkIInv, LinkTyped, LeaseIInv
<1>1. /\ nextId < MaxId /\ roomHost' = n /\ threads' = [threads EXCEPT ![e] = t] /\ epoch = e
      /\ hostFrames' = [f \in Epochs |->
            IF f = e THEN <<>>
            ELSE IF roomHost # 0 /\ threads[f].conn = roomHost THEN Append(hostFrames[f], Note("close"))
            ELSE hostFrames[f]]
      /\ UNCHANGED <<room, peer, epoch>>
  BY DEF HostConnects, peerVars
<1>2. n \in Nat /\ n # 0 /\ n # Lost
  BY <1>0, <1>1, LinkConstants DEF RelayTyped
<1>3. \A f \in Epochs : threads'[f].conn = IF f = e THEN n ELSE threads[f].conn
  BY <1>0, <1>1 DEF ThreadsTyped
<1>4. e \in Nat
  BY LinkConstants
<1> HIDE DEF n, t
<1>5. NewestServes'
  <2>1. ASSUME NEW f \in Epochs, f > epoch' PROVE threads'[f].conn = 0
    <3>1. f # e
      BY <1>1, <1>4, <2>1
    <3> QED BY <1>0, <1>1, <1>3, <2>1, <3>1 DEF NewestServes
  <2>2. Serving(epoch)'
    BY <1>1, <1>2, <1>3 DEF Serving
  <2> QED BY <2>1, <2>2 DEF NewestServes, Epochs
<1>6. LostIsDeaf' /\ InTheRoom'
  BY <1>0, <1>1, <1>2, <1>3 DEF LostIsDeaf, InTheRoom
<1>7. NoneLost'
  <2>1. Note("close") \in LinkFrame /\ Note("close").kind = "close"
    <3>1. "close" \in FrameKinds \ {"pair"} /\ "" \in FrameBodies
      BY DEF FrameKinds, FrameBodies
    <3> QED BY <3>1, NoteIs
  <2>2. ASSUME NEW f \in Epochs PROVE GoneFrom(hostFrames'[f], {Lost})
    <3>1. GoneFrom(hostFrames[f], {Lost}) /\ hostFrames[f] \in Seq(LinkFrame)
      BY <1>0 DEF NoneLost, ThreadsTyped
    <3>2. GoneFrom(Append(hostFrames[f], Note("close")), {Lost})
      BY <2>1, <3>1, FrameAdded
    <3> QED BY <1>1, <3>1, <3>2, NoFrames
  <2> QED BY <2>2 DEF NoneLost, Epochs
<1> QED BY <1>5, <1>6, <1>7 DEF LeaseIInv

\* A handler that ends is not that of the thread of this epoch.
LEMMA LeaseHostOut ==
    ASSUME LinkIInv, LeaseIInv, NEW c \in handlers, HostLeft(c)
    PROVE  LeaseIInv'
<1>0. epoch \in Epochs /\ NewestServes
  BY LinkConstants DEF LinkIInv, LinkTyped, BudgetTyped, Epochs, LeaseIInv
<1>1. UNCHANGED <<room, threads, hostFrames, peer, epoch>> /\ handlers' \subseteq handlers
  BY DEF HostLeft, linkHostVars, peerVars
<1>2. threads[epoch].conn # 0 => UNCHANGED <<roomHost, frames>>
  <2>1. (\A e \in Epochs : threads[e].conn # c) \/ roomHost # c
    BY DEF HostLeft
  <2>2. threads[epoch].conn # 0 => roomHost # c
    BY <1>0, <2>1 DEF NewestServes, Serving
  <2> QED BY <2>2 DEF HostLeft, StillHost
<1>3. NewestServes' /\ LostIsDeaf'
  <2>1. CASE threads[epoch].conn = 0
    BY <1>0, <1>1, <2>1, LinkConstants DEF NewestServes, LostIsDeaf, Epochs
  <2>2. CASE threads[epoch].conn # 0
    BY <1>1, <1>2, <2>2, ThreadLease DEF LeaseIInv
  <2> QED BY <2>1, <2>2
<1>4. InTheRoom' /\ NoneLost'
  BY <1>1 DEF LeaseIInv, InTheRoom, NoneLost, Epochs
<1> QED BY <1>3, <1>4 DEF LeaseIInv

\* A device connects: what it hears first is no session.
LEMMA LeaseDeviceIn ==
    ASSUME LinkIInv, LeaseIInv, NEW d \in Devices, PeerConnects(d)
    PROVE  LeaseIInv'
<1> DEFINE n == nextId + 1
           p == [peer[d] EXCEPT !.cid = n, !.tries = 0, !.eph = 0]
           q == <<Note(IF roomHost # 0 THEN "online" ELSE "offline")>>
<1>0. /\ peer \in [Devices -> PeerRec] /\ frames \in [Devices -> Seq(LinkFrame)]
      /\ PeerFits(d, peer[d], frames[d], toPeerHost[d]) /\ RelayTyped
  BY DEF LinkIInv, LinkTyped, PeersTyped
<1>1. /\ nextId < MaxId /\ peer[d].cid = 0 /\ room' = With(room, n, d) /\ frames' = [frames EXCEPT ![d] = q]
      /\ UNCHANGED <<roomHost, handlers, hostFrames, threads, epoch>>
  BY DEF PeerConnects, linkHostVars
<1>2. peer' = [peer EXCEPT ![d] = p]
  BY <1>0 DEF PeerConnects
<1>3. p.cid = n /\ p.tx = FALSE
  BY <1>0, <1>1 DEF PeerFits, PeerRec
<1>4. Unsealed(q)
  <2>1. ASSUME NEW kind \in {"online", "offline"} PROVE Note(kind).kind # "sealed"
    BY DEF Note, Frame
  <2>2. PICK kind \in {"online", "offline"} : q = <<Note(kind)>>
    OBVIOUS
  <2>3. DOMAIN <<Note(kind)>> = {1} /\ <<Note(kind)>>[1] = Note(kind)
    OBVIOUS
  <2> QED BY <2>1, <2>2, <2>3 DEF Unsealed
<1>5. DOMAIN room' = DOMAIN room \cup {n}
  BY <1>1 DEF With
<1> HIDE DEF p, q, n
<1>6. \A x \in Devices : /\ peer'[x] = IF x = d THEN p ELSE peer[x]
                         /\ frames'[x] = IF x = d THEN q ELSE frames[x]
  BY <1>0, <1>1, <1>2
<1>7. NewestServes'
  BY <1>1 DEF LeaseIInv, NewestServes, Serving, Epochs
<1>8. LostIsDeaf'
  BY <1>1, <1>3, <1>4, <1>6 DEF LeaseIInv, LostIsDeaf, Deaf
<1>9. InTheRoom' /\ NoneLost'
  BY <1>1, <1>3, <1>5, <1>6 DEF LeaseIInv, InTheRoom, NoneLost, Epochs
<1> QED BY <1>7, <1>8, <1>9 DEF LeaseIInv

\* Who leaves the room is nobody's connection.
LEMMA LeaseDeviceOut ==
    ASSUME LinkIInv, LeaseIInv, NEW c \in DOMAIN room, PeerLeft(c)
    PROVE  LeaseIInv'
<1> DEFINE f == Frame("leave", c, 0, 0, NoKey, "")
<1>0. RelayTyped /\ PeersTyped
  BY DEF LinkIInv, LinkTyped
<1>1. /\ peer[room[c]].cid # c /\ room' = Without(room, {c}) /\ hostFrames' = ToHost(hostFrames, f)
      /\ UNCHANGED <<roomHost, handlers, threads, epoch, peer, frames>>
  BY DEF PeerLeft, linkHostVars, peerVars
<1>2. c \in Nat /\ c # Lost
  BY <1>0, LinkConstants DEF RelayTyped
<1>3. f \in LinkFrame /\ f.cid = c
  BY <1>2, LinkConstants DEF Frame, LinkFrame, FrameKinds, FrameBodies
<1> HIDE DEF f
<1>4. NoneLost'
  BY <1>1, <1>2, <1>3, NoneIsLost DEF LeaseIInv
<1>5. InTheRoom'
  <2>1. ASSUME NEW d \in Devices PROVE peer[d].cid # c
    BY <1>0, <1>1 DEF PeersTyped, PeerFits
  <2>2. DOMAIN room' = DOMAIN room \ {c}
    BY <1>1 DEF Without
  <2> QED BY <1>1, <2>1, <2>2 DEF LeaseIInv, InTheRoom
<1>6. NewestServes' /\ LostIsDeaf'
  BY <1>1 DEF LeaseIInv, NewestServes, LostIsDeaf, Serving, Epochs
<1> QED BY <1>4, <1>5, <1>6 DEF LeaseIInv

LEMMA LeaseRelayAgain ==
    ASSUME LinkIInv, LeaseIInv, RelayRestarts
    PROVE  LeaseIInv'
<1>0. ThreadsTyped /\ PeersTyped /\ epoch \in Epochs /\ Lost # 0
  BY LinkConstants DEF LinkIInv, LinkTyped, BudgetTyped, Epochs
<1>1. /\ roomHost' = 0 /\ room' = <<>> /\ handlers' = {} /\ UNCHANGED <<epoch, hostFrames, frames>>
      /\ threads' = [e \in Epochs |-> IF threads[e].conn = 0 THEN threads[e] ELSE [threads[e] EXCEPT !.conn = Lost]]
      /\ peer' = [d \in Devices |-> IF peer[d].cid = 0 THEN peer[d] ELSE [peer[d] EXCEPT !.cid = Lost]]
  BY DEF RelayRestarts
<1>2. ASSUME NEW e \in Epochs PROVE threads'[e].conn = IF threads[e].conn = 0 THEN 0 ELSE Lost
  <2>1. threads[e] \in Thread
    BY <1>0 DEF ThreadsTyped
  <2> QED BY <1>1, <2>1 DEF Thread
<1>3. ASSUME NEW d \in Devices
      PROVE  peer'[d].cid \in {0, Lost} /\ Deaf(peer'[d], frames'[d])
  <2>1. peer[d] \in PeerRec /\ PeerFits(d, peer[d], frames[d], toPeerHost[d])
    BY <1>0 DEF PeersTyped
  <2>2. CASE peer[d].cid = 0
    <3>1. peer'[d] = peer[d] /\ ~peer[d].tx /\ frames'[d] = <<>>
      BY <1>1, <2>1, <2>2 DEF PeerFits
    <3> QED BY <2>2, <3>1, NoEntries DEF Deaf, Unsealed
  <2>3. CASE peer[d].cid # 0
    <3>1. peer'[d].cid = Lost
      BY <1>1, <2>1, <2>3 DEF PeerRec
    <3> QED BY <3>1 DEF Deaf
  <2> QED BY <2>2, <2>3
<1>4. NewestServes' /\ LostIsDeaf'
  BY <1>0, <1>1, <1>2, <1>3 DEF LeaseIInv, NewestServes, LostIsDeaf, Epochs
<1>5. InTheRoom' /\ NoneLost'
  BY <1>1, <1>3 DEF LeaseIInv, InTheRoom, NoneLost, Epochs
<1> QED BY <1>4, <1>5 DEF LeaseIInv

\* Thread e goes on as t, of the same connection or none, and has read what it read.
LEMMA LeaseThread ==
    ASSUME LinkIInv, LeaseIInv, UNCHANGED <<relayVars, epoch, peer>>, NEW e \in Epochs, NEW t,
           threads' = [threads EXCEPT ![e] = t], t.conn \in {threads[e].conn, 0},
           threads[e].conn \in handlers \/ frames' = frames,
           \/ hostFrames' = [hostFrames EXCEPT ![e] = <<>>]
           \/ hostFrames[e] # <<>> /\ hostFrames' = [hostFrames EXCEPT ![e] = Tail(@)]
           \/ hostFrames' = hostFrames
    PROVE  LeaseIInv'
<1>0. UNCHANGED <<roomHost, room, handlers>> /\ ThreadsTyped
  BY DEF relayVars, LinkIInv, LinkTyped
<1>1. \A f \in Epochs : threads'[f].conn \in {threads[f].conn, 0}
  BY <1>0 DEF ThreadsTyped
<1>2. threads[epoch].conn = Lost => frames' = frames
  BY LinkConstants DEF LeaseIInv, NewestServes, Serving, LinkIInv, LinkTyped, RelayTyped
<1>3. NewestServes' /\ LostIsDeaf'
  BY <1>0, <1>1, <1>2, ThreadLease DEF LeaseIInv
<1>4. NoneLost'
  BY NoneReadIsLost DEF LeaseIInv
<1>5. InTheRoom'
  BY <1>0 DEF LeaseIInv, InTheRoom
<1> QED BY <1>3, <1>4, <1>5 DEF LeaseIInv

\* What a thread sends goes nowhere without a connection.
LEMMA SendsNothing ==
    ASSUME NEW e, NEW msgs, HostSends(e, msgs), threads[e].conn \notin handlers
    PROVE  frames' = frames
BY DEF HostSends, FromHost

\* A thread that gives up, drops its connection, or makes a pass.
LEMMA LeaseThreadSteps ==
    ASSUME LinkIInv, LeaseIInv, NEW e \in Epochs, GivesUpConnecting(e) \/ HostDrops(e) \/ Top(e) \/ Serve(e)
    PROVE  LeaseIInv'
<1>0. LinkIInv /\ LeaseIInv /\ threads[e] \in Thread /\ NoThread.conn = 0 /\ [NoThread EXCEPT !.at = "connect"].conn = 0
  BY NoThreadIs DEF LinkIInv, LinkTyped, ThreadsTyped
<1>1. UNCHANGED <<relayVars, epoch, peer>>
  BY DEF GivesUpConnecting, HostDrops, Top, Serve, peerVars
<1>2. ASSUME NEW s, NEW at, Session(s, e, at)
      PROVE  \E t : t.conn = threads[e].conn /\ threads' = [threads EXCEPT ![e] = t]
  <2>1. PICK t : t = [threads[e] EXCEPT !.sessions = s, !.at = at]
    OBVIOUS
  <2>2. t.conn = threads[e].conn
    BY <1>0, <2>1 DEF Thread
  <2>3. threads' = [threads EXCEPT ![e] = t]
    BY <1>0, <1>2, <2>1 DEF Session, LinkIInv, LinkTyped, ThreadsTyped
  <2> QED BY <2>2, <2>3
<1>3. CASE GivesUpConnecting(e)
  BY <1>0, <1>1, <1>3, LeaseThread DEF GivesUpConnecting
<1>4. CASE HostDrops(e)
  BY <1>0, <1>1, <1>4, LeaseThread DEF HostDrops, Broken
<1>5. CASE Top(e)
  <2>1. CASE epoch # e
    <3>1. threads' = [threads EXCEPT ![e] = NoThread] /\ frames' = frames /\ hostFrames' = [hostFrames EXCEPT ![e] = <<>>]
      BY <1>5, <2>1 DEF Top
    <3> QED BY <1>0, <1>1, <3>1, LeaseThread
  <2>2. CASE epoch = e
    <3>1. /\ \E s : Session(s, e, "read")
          /\ threads[e].conn \in handlers \/ frames' = frames
          /\ hostFrames' = hostFrames
      BY <1>5, <2>2 DEF Top
    <3> QED BY <1>0, <1>1, <1>2, <3>1, LeaseThread
  <2> QED BY <2>1, <2>2
<1>6. CASE Serve(e)
  <2>1. CASE hostFrames[e] = <<>> \/ Head(hostFrames[e]).kind = "close"
    <3>1. /\ HostSends(e, <<>>)
          /\ \/ Session(threads[e].sessions, e, "top") /\ hostFrames' = hostFrames
             \/ Broken(e)
      BY <1>6, <2>1 DEF Serve
    <3>2. threads[e].conn \in handlers \/ frames' = frames
      BY <3>1, SendsNothing
    <3>3. CASE Session(threads[e].sessions, e, "top") /\ hostFrames' = hostFrames
      BY <1>0, <1>1, <1>2, <3>2, <3>3, LeaseThread
    <3>4. CASE Broken(e)
      BY <1>0, <1>1, <3>2, <3>4, LeaseThread DEF Broken
    <3> QED BY <3>1, <3>3, <3>4
  <2>2. CASE ~(hostFrames[e] = <<>> \/ Head(hostFrames[e]).kind = "close")
    <3> DEFINE f == Head(hostFrames[e])
    <3>1. /\ hostFrames' = [hostFrames EXCEPT ![e] = Tail(@)]
          /\ OnLeave(e, f) \/ OnPair(e, f) \/ OnHandshake(e, f) \/ OnSealed(e, f)
      BY <1>6, <2>2 DEF Serve
    <3> HIDE DEF f
    <3>2. (\E s : Session(s, e, "top")) /\ \E msgs : HostSends(e, msgs)
      BY <3>1 DEF OnLeave, OnPair, OnHandshake, OnSealed
    <3>3. threads[e].conn \in handlers \/ frames' = frames
      BY <3>2, SendsNothing
    <3> QED BY <1>0, <1>1, <1>2, <2>2, <3>1, <3>2, <3>3, LeaseThread
  <2> QED BY <2>1, <2>2
<1> QED BY <1>3, <1>4, <1>5, <1>6

\* The users of the two programs.
LEMMA LeaseUsers ==
    ASSUME LinkIInv, LeaseIInv,
           SwitchOff \/ StartThread \/ ShowCode \/ TakeBack \/ HostAnswered \/ \E d \in Devices : Revoke(d) \/ PeerTimesOut(d)
    PROVE  LeaseIInv'
<1>0. /\ epoch \in Epochs /\ epoch \in 1 .. 1 + events /\ events \in Nat /\ Lost # 0 /\ MaxEvents \in Nat
      /\ Epochs = 1 .. 1 + MaxEvents /\ ThreadsTyped
  BY LinkConstants DEF LinkIInv, LinkTyped, BudgetTyped, Epochs
<1>1. UNCHANGED <<relayVars, peer, frames, hostFrames>>
  BY DEF SwitchOff, StartThread, ShowCode, TakeBack, HostAnswered, Revoke, PeerTimesOut, peerVars
<1>2. UNCHANGED <<roomHost, room, handlers>>
  BY <1>1 DEF relayVars
<1>3. InTheRoom' /\ NoneLost'
  BY <1>1, <1>2 DEF LeaseIInv, InTheRoom, NoneLost, Epochs
<1>4. CASE UNCHANGED <<threads, epoch>>
  BY <1>1, <1>2, <1>3, <1>4 DEF LeaseIInv, NewestServes, LostIsDeaf, Serving, Epochs
<1>5. CASE SwitchOff \/ StartThread
  <2>1. epoch' = epoch + 1 /\ events < MaxEvents
    BY <1>5 DEF SwitchOff, StartThread, Spend
  <2>2. epoch' \in Epochs /\ epoch' > epoch
    BY <1>0, <2>1
  <2>3. ASSUME NEW e \in Epochs, e > epoch PROVE threads'[e].conn = 0
    <3>1. threads[e].conn = 0
      BY <2>3 DEF LeaseIInv, NewestServes
    <3> QED BY <1>0, <1>5, <3>1, NoThreadIs DEF SwitchOff, StartThread, ThreadsTyped
  <2>4. \A e \in Epochs : e > epoch' => e > epoch
    BY <1>0, <2>1
  <2>5. NewestServes' /\ LostIsDeaf'
    BY <1>0, <2>2, <2>3, <2>4 DEF NewestServes, LostIsDeaf, Epochs
  <2> QED BY <1>3, <2>5 DEF LeaseIInv
<1>6. UNCHANGED <<threads, epoch>> \/ SwitchOff \/ StartThread
  BY DEF ShowCode, TakeBack, HostAnswered, Revoke, PeerTimesOut, linkHostVars
<1> QED BY <1>4, <1>5, <1>6

\* The frames of a device.
LEMMA LessUnsealed ==
    ASSUME NEW q \in Seq(LinkFrame), q # <<>>, Unsealed(q)
    PROVE  Unsealed(Tail(q)) /\ Head(q).kind # "sealed"
<1>1. /\ Tail(q) \in Seq(LinkFrame) /\ Len(Tail(q)) = Len(q) - 1 /\ \A i \in 1 .. Len(Tail(q)) : Tail(q)[i] = q[i + 1]
      /\ Head(q) = q[1] /\ 1 \in DOMAIN q
  BY HeadTailProperties, FrameTaken
<1>2. DOMAIN q = 1 .. Len(q) /\ DOMAIN Tail(q) = 1 .. Len(Tail(q)) /\ Len(q) \in Nat
  BY <1>1, LenProperties
<1>3. \A i \in DOMAIN Tail(q) : i + 1 \in DOMAIN q
  BY <1>1, <1>2
<1> QED BY <1>1, <1>2, <1>3 DEF Unsealed

\* What is not a leave is not that of a lost connection.
LEMMA NoLeaveAdded ==
    ASSUME NEW q \in Seq(LinkFrame), NEW f, f.kind # "leave", NEW R, GoneFrom(q, R)
    PROVE  GoneFrom(Append(q, f), R)
<1> DEFINE S == LinkFrame \cup {f}
<1>1. q \in Seq(S)
  BY SeqMonotonic
<1>2. f \in S
  OBVIOUS
<1> HIDE DEF S
<1>3. /\ Append(q, f) \in Seq(S) /\ Len(Append(q, f)) = Len(q) + 1
      /\ \A i \in 1 .. Len(q) : Append(q, f)[i] = q[i]
      /\ Append(q, f)[Len(q) + 1] = f
  BY <1>1, <1>2, AppendProperties
<1>4. DOMAIN q = 1 .. Len(q) /\ DOMAIN Append(q, f) = 1 .. Len(q) + 1 /\ Len(q) \in Nat
  BY <1>1, <1>3, LenProperties
<1>5. \A i \in DOMAIN Append(q, f) : i \in DOMAIN q \/ i = Len(q) + 1
  BY <1>4
<1> QED BY <1>3, <1>4, <1>5 DEF GoneFrom

\* Device d goes on as p, with q to read, and sends a frame at most.
LEMMA LeaseDevice ==
    ASSUME LinkIInv, LeaseIInv, UNCHANGED <<relayVars, threads, epoch>>, NEW d \in Devices, NEW p, NEW q,
           peer' = [peer EXCEPT ![d] = p], frames' = [frames EXCEPT ![d] = q],
           p.cid \in {peer[d].cid, 0}, Deaf(peer[d], frames[d]) => Deaf(p, q),
           hostFrames' = hostFrames \/ \E f : f.kind # "leave" /\ FromPeer(d, f)
    PROVE  LeaseIInv'
<1>0. peer \in [Devices -> PeerRec] /\ frames \in [Devices -> Seq(LinkFrame)] /\ hostFrames \in [Epochs -> Seq(LinkFrame)]
  BY DEF LinkIInv, LinkTyped, PeersTyped, ThreadsTyped
<1>1. peer'[d] = p /\ frames'[d] = q /\ \A x \in Devices \ {d} : peer'[x] = peer[x] /\ frames'[x] = frames[x]
  BY <1>0
<1>2. NewestServes' /\ LostIsDeaf' /\ InTheRoom'
  BY <1>1, DeviceLease
<1>3. ASSUME NEW e \in Epochs PROVE GoneFrom(hostFrames'[e], {Lost})
  <2>1. GoneFrom(hostFrames[e], {Lost}) /\ hostFrames[e] \in Seq(LinkFrame)
    BY <1>0 DEF LeaseIInv, NoneLost
  <2>2. \A f : f.kind # "leave" => GoneFrom(Append(hostFrames[e], f), {Lost})
    BY <2>1, NoLeaveAdded
  <2> QED BY <2>1, <2>2 DEF FromPeer, ToHost
<1>4. NoneLost'
  BY <1>3 DEF NoneLost, Epochs
<1> QED BY <1>2, <1>4 DEF LeaseIInv

LEMMA LeaseDeviceEnds ==
    ASSUME LinkIInv, LeaseIInv, UNCHANGED <<relayVars, threads, epoch, hostFrames>>, NEW d \in Devices,
           NEW state, PeerEnds(d, state)
    PROVE  LeaseIInv'
<1>1. PICK p : /\ \E code : p = [Off EXCEPT !.state = state, !.pairing = code]
               /\ peer' = [peer EXCEPT ![d] = p] /\ frames' = [frames EXCEPT ![d] = <<>>]
  BY DEF PeerEnds
<1>2. p.cid = 0 /\ p.tx = FALSE
  BY <1>1 DEF Off
<1>3. Deaf(p, <<>>)
  BY <1>2, NoEntries DEF Deaf, Unsealed
<1> QED BY <1>1, <1>2, <1>3, LeaseDevice

LEMMA LeaseHandshake ==
    ASSUME LinkIInv, LeaseIInv, UNCHANGED <<relayVars, threads, epoch>>, NEW d \in Devices, frames[d] # <<>>,
           NEW code, Handshake(d, [peer[d] EXCEPT !.pairing = code]), frames' = [frames EXCEPT ![d] = Tail(@)]
    PROVE  LeaseIInv'
<1>0. peer[d] \in PeerRec /\ frames[d] \in Seq(LinkFrame)
  BY DEF LinkIInv, LinkTyped, PeersTyped
<1>1. PICK p0 : p0 = [peer[d] EXCEPT !.pairing = code]
  OBVIOUS
<1>2. p0.cid = peer[d].cid /\ p0.tx = peer[d].tx /\ DOMAIN p0 = DOMAIN peer[d]
  BY <1>0, <1>1 DEF PeerRec
<1>3. Handshake(d, p0)
  BY <1>1
<1>4. PICK p, f : /\ \E n : p = [p0 EXCEPT !.tries = @ + 1, !.eph = n, !.key = NoKey]
                  /\ peer' = [peer EXCEPT ![d] = p] /\ f.kind = "hs" /\ FromPeer(d, f)
  BY <1>3 DEF Handshake, Frame
<1>5. p.cid = peer[d].cid /\ p.tx = peer[d].tx
  BY <1>0, <1>2, <1>4 DEF PeerRec
<1>6. Deaf(peer[d], frames[d]) => Deaf(p, Tail(frames[d]))
  BY <1>0, <1>5, LessUnsealed DEF Deaf
<1> QED BY <1>4, <1>5, <1>6, LeaseDevice

LEMMA LeaseDeviceReads ==
    ASSUME LinkIInv, LeaseIInv, NEW d \in Devices, PeerReads(d)
    PROVE  LeaseIInv'
<1> DEFINE f == Head(frames[d])
           q == Tail(frames[d])
<1>0. /\ LinkIInv /\ LeaseIInv /\ peer[d] \in PeerRec /\ peer \in [Devices -> PeerRec] /\ frames[d] \in Seq(LinkFrame)
      /\ frames[d] # <<>> /\ UNCHANGED <<relayVars, threads, epoch>>
  BY DEF LinkIInv, LinkTyped, PeersTyped, PeerReads, linkHostVars
<1>1. Unsealed(frames[d]) => Unsealed(q) /\ f.kind # "sealed"
  BY <1>0, LessUnsealed
<1>2. ASSUME NEW state, PeerEnds(d, state), hostFrames' = hostFrames PROVE LeaseIInv'
  BY <1>0, <1>2, LeaseDeviceEnds
<1>3. ASSUME NEW p, peer' = [peer EXCEPT ![d] = p], frames' = [frames EXCEPT ![d] = q], p.cid = peer[d].cid,
             p.tx => peer[d].tx \/ f.kind = "sealed",
             hostFrames' = hostFrames \/ \E g : g.kind # "leave" /\ FromPeer(d, g)
      PROVE  LeaseIInv'
  <2>1. Deaf(peer[d], frames[d]) => Deaf(p, q)
    BY <1>1, <1>3 DEF Deaf
  <2> HIDE DEF q
  <2> QED BY <1>0, <1>3, <2>1, LeaseDevice
<1>4. peer = [peer EXCEPT ![d] = peer[d]]
  BY <1>0
<1>5. ASSUME NEW code, Handshake(d, [peer[d] EXCEPT !.pairing = code]), frames' = [frames EXCEPT ![d] = Tail(@)]
      PROVE  LeaseIInv'
  BY <1>0, <1>5, LeaseHandshake
<1> HIDE DEF q
<1>6. CASE OnHost(d, f)
  <2>1. CASE f.kind = "offline" /\ peer[d].pairing # 0
    BY <1>2, <1>6, <2>1 DEF OnHost, PeerStops
  <2>2. CASE f.kind = "offline" /\ peer[d].pairing = 0
    <3>1. /\ peer' = [peer EXCEPT ![d] = Unreachable(peer[d])] /\ frames' = [frames EXCEPT ![d] = q]
          /\ hostFrames' = hostFrames
      BY <1>6, <2>2 DEF OnHost, q
    <3>2. Unreachable(peer[d]).cid = peer[d].cid /\ Unreachable(peer[d]).tx = FALSE
      BY <1>0 DEF Unreachable, PeerRec
    <3> QED BY <1>3, <3>1, <3>2
  <2>3. CASE f.kind # "offline" /\ peer[d].pairing # 0
    <3>1. PICK p : p = [peer[d] EXCEPT !.key = NoKey]
      OBVIOUS
    <3>2. PICK g : g = Frame("pair", peer[d].cid, d, peer[d].pairing, NoKey, "")
      OBVIOUS
    <3>3. peer' = [peer EXCEPT ![d] = p] /\ FromPeer(d, g) /\ frames' = [frames EXCEPT ![d] = q]
      BY <1>0, <1>6, <2>3, <3>1, <3>2 DEF OnHost, q
    <3>4. p.cid = peer[d].cid /\ p.tx = peer[d].tx /\ g.kind = "pair"
      BY <1>0, <3>1, <3>2 DEF PeerRec, Frame
    <3> QED BY <1>3, <3>3, <3>4
  <2>4. CASE f.kind # "offline" /\ peer[d].pairing = 0
    <3>1. peer[d] = [peer[d] EXCEPT !.pairing = 0]
      BY <1>0, <2>4 DEF PeerRec
    <3> QED BY <1>5, <1>6, <2>4, <3>1 DEF OnHost
  <2> QED BY <2>1, <2>2, <2>3, <2>4
<1>7. CASE OnPaired(d)
  BY <1>5, <1>7 DEF OnPaired
<1>8. CASE OnDenied(d, f)
  BY <1>2, <1>8 DEF OnDenied, PeerStops, Retries
<1>9. CASE OnKey(d, f)
  <2>0. frames' = [frames EXCEPT ![d] = q]
    BY <1>9 DEF OnKey, q
  <2>1. CASE peer[d].eph = 0
    <3>1. UNCHANGED <<peer, hostFrames>>
      BY <1>9, <2>1 DEF OnKey
    <3> QED BY <1>3, <1>4, <2>0, <3>1
  <2>2. CASE peer[d].eph # 0
    <3>1. PICK key : /\ peer' = [peer EXCEPT ![d].eph = 0, ![d].key = key]
                     /\ FromPeer(d, Frame("sealed", peer[d].cid, d, 0, key, "hello"))
      BY <1>9, <2>2 DEF OnKey
    <3>2. PICK p : p = [peer[d] EXCEPT !.eph = 0, !.key = key]
      OBVIOUS
    <3>3. PICK g : g = Frame("sealed", peer[d].cid, d, 0, key, "hello")
      OBVIOUS
    <3>4. peer' = [peer EXCEPT ![d] = p] /\ FromPeer(d, g)
      BY <1>0, <3>1, <3>2, <3>3
    <3>5. p.cid = peer[d].cid /\ p.tx = peer[d].tx /\ g.kind = "sealed"
      BY <1>0, <3>2, <3>3 DEF PeerRec, Frame
    <3> QED BY <1>3, <2>0, <3>4, <3>5
  <2> QED BY <2>1, <2>2
<1>10. CASE f.kind = "sealed" /\ OnMessage(d, f)
  <2>1. CASE Retries(d)
    BY <1>2, <2>1 DEF Retries
  <2>2. CASE frames' = [frames EXCEPT ![d] = q] /\ UNCHANGED <<peer, hostFrames>>
    BY <1>3, <1>4, <2>2
  <2>3. CASE /\ frames' = [frames EXCEPT ![d] = q] /\ UNCHANGED hostFrames
             /\ peer' = [peer EXCEPT ![d].state = "connected", ![d].tx = TRUE]
    <3>1. PICK p : p = [peer[d] EXCEPT !.state = "connected", !.tx = TRUE]
      OBVIOUS
    <3>2. peer' = [peer EXCEPT ![d] = p]
      BY <1>0, <2>3, <3>1
    <3>3. p.cid = peer[d].cid
      BY <1>0, <3>1 DEF PeerRec
    <3> QED BY <1>3, <1>10, <2>3, <3>2, <3>3
  <2> QED BY <1>10, <2>1, <2>2, <2>3 DEF OnMessage, q
<1> QED BY <1>6, <1>7, <1>8, <1>9, <1>10 DEF PeerReads

LEMMA LeaseDeviceSteps ==
    ASSUME LinkIInv, LeaseIInv, NEW d \in Devices,
           PeerSends(d) \/ PeerAsks(d) \/ PeerClaims(d) \/ PeerDrops(d) \/ PeerOff(d) \/ PeerOn(d)
    PROVE  LeaseIInv'
<1>0. /\ LinkIInv /\ LeaseIInv /\ peer[d] \in PeerRec /\ peer \in [Devices -> PeerRec]
      /\ frames \in [Devices -> Seq(LinkFrame)] /\ PeerFits(d, peer[d], frames[d], toPeerHost[d])
      /\ UNCHANGED <<relayVars, threads, epoch>>
  BY DEF LinkIInv, LinkTyped, PeersTyped, PeerSends, PeerAsks, PeerClaims, PeerDrops, PeerOff, PeerOn, linkHostVars
<1>1. peer = [peer EXCEPT ![d] = peer[d]] /\ frames = [frames EXCEPT ![d] = frames[d]]
  BY <1>0
<1>2. CASE PeerSends(d)
  <2>1. PICK f : f = [Head(toPeerHost[d]) EXCEPT !.cid = peer[d].cid, !.key = peer[d].key]
    OBVIOUS
  <2>2. Head(toPeerHost[d]) \in Sealed
    BY <1>2, HeadTailProperties, ElementOfSeq, EmptySeq DEF PeerSends, LinkIInv, LinkTyped, PeersTyped
  <2>3. f.kind = "sealed"
    BY <2>1, <2>2 DEF Sealed, LinkFrame
  <2>4. FromPeer(d, f) /\ UNCHANGED <<peer, frames>>
    BY <1>2, <2>1 DEF PeerSends
  <2> QED BY <1>0, <1>1, <2>3, <2>4, LeaseDevice
<1>3. CASE PeerAsks(d) \/ PeerClaims(d)
  <2>1. UNCHANGED <<hostFrames, peer, frames>>
    BY <1>3 DEF PeerAsks, PeerClaims
  <2> QED BY <1>0, <1>1, <2>1, LeaseDevice
<1>4. CASE PeerDrops(d) \/ PeerOff(d)
  <2>1. (\E state : PeerEnds(d, state)) /\ hostFrames' = hostFrames
    BY <1>4 DEF PeerDrops, PeerOff, PeerStops, Retries
  <2> QED BY <1>0, <2>1, LeaseDeviceEnds
<1>5. CASE PeerOn(d)
  <2>1. peer[d].cid = 0 /\ frames[d] = <<>>
    BY <1>0, <1>5 DEF PeerOn, PeerFits
  <2>2. peer' = [peer EXCEPT ![d] = Connecting] /\ UNCHANGED <<hostFrames, frames>>
    BY <1>5 DEF PeerOn
  <2>3. Connecting.cid = 0 /\ Connecting.tx = FALSE
    BY DEF Connecting, Off
  <2>4. Deaf(Connecting, frames[d])
    BY <2>1, <2>3, NoEntries DEF Deaf, Unsealed
  <2> QED BY <1>0, <1>1, <2>2, <2>3, <2>4, LeaseDevice
<1> QED BY <1>2, <1>3, <1>4, <1>5

LEMMA LeaseStays ==
    ASSUME LinkIInv, LeaseIInv, [LinkNext]_linkVars
    PROVE  LeaseIInv'
<1>1. CASE UNCHANGED linkVars
  BY <1>1 DEF linkVars, relayVars, linkHostVars, peerVars, LeaseIInv, NewestServes, LostIsDeaf, InTheRoom, NoneLost,
              Serving, Epochs
<1>2. ASSUME NEW e \in Epochs, HostStep(e) \/ HostDrops(e) PROVE LeaseIInv'
  BY <1>2, LeaseHostIn, LeaseThreadSteps DEF HostStep
<1>3. ASSUME NEW c \in handlers, HostLeft(c) PROVE LeaseIInv'
  BY <1>3, LeaseHostOut
<1>4. ASSUME NEW c \in DOMAIN room, PeerLeft(c) PROVE LeaseIInv'
  BY <1>4, LeaseDeviceOut
<1>5. ASSUME NEW d \in Devices,
             \/ PeerStep(d) \/ PeerDrops(d) \/ PeerAsks(d) \/ PeerClaims(d) \/ PeerTimesOut(d)
             \/ PeerOff(d) \/ PeerOn(d) \/ Revoke(d)
      PROVE  LeaseIInv'
  BY <1>5, LeaseDeviceIn, LeaseDeviceReads, LeaseDeviceSteps, LeaseUsers DEF PeerStep
<1>6. ASSUME \/ RelayRestarts \/ SwitchOff \/ StartThread \/ ShowCode \/ TakeBack \/ HostAnswered PROVE LeaseIInv'
  BY <1>6, LeaseRelayAgain, LeaseUsers
<1> QED BY <1>1, <1>2, <1>3, <1>4, <1>5, <1>6 DEF LinkNext

\* The device claimed the lease on a link that is still up.
Claimant(d) ==
    \E c \in DOMAIN threads[epoch].sessions :
        LET s == threads[epoch].sessions[c]
        IN  s.desk /\ s.dev = d /\ s.key = claimed.key /\ peer[d].cid = c /\ peer[d].tx
LeaseStep ==
    (claimed.dev # 0 /\ lease = claimed.dev /\ Claimant(claimed.dev) /\ lease' # claimed.dev /\ claimed' = claimed)
    => claimed.dev \notin known \/ \E e \in Epochs \ {epoch} : threads'[e] # threads[e]

\* A leave that the thread of this epoch reads is not of a device that is linked to it.
LEMMA NoLinkLeaves ==
    ASSUME LinkIInv, LeaseIInv, threads[epoch].at = "read", hostFrames[epoch] # <<>>,
           NEW f, f = Head(hostFrames[epoch]), f.kind = "leave", NEW d \in Devices, peer[d].tx
    PROVE  peer[d].cid # f.cid
<1>0. epoch \in Epochs
  BY LinkConstants DEF LinkIInv, LinkTyped, BudgetTyped, Epochs
<1>1. threads[epoch].conn # 0 /\ peer[d].cid # 0
  BY <1>0 DEF LinkIInv, LinkTyped, ThreadsTyped, ThreadOK, PeersTyped, PeerFits
<1>2. 1 \in DOMAIN hostFrames[epoch] /\ f = hostFrames[epoch][1]
  BY <1>0, SessionsOf, FrameTaken
<1>3. f.cid # Lost
  BY <1>0, <1>2 DEF LeaseIInv, NoneLost, GoneFrom
<1>4. CASE Serving(epoch)
  <2>1. f.cid \notin Numbered
    BY <1>0, <1>2, <1>4 DEF LinkIInv, Agreement, LeftFor, GoneFrom
  <2>2. peer[d].cid \in DOMAIN room \cup {0, Lost}
    BY DEF LeaseIInv, InTheRoom
  <2> QED BY <1>1, <1>3, <2>1, <2>2 DEF Numbered
<1>5. CASE threads[epoch].conn = Lost
  BY <1>3, <1>5 DEF LeaseIInv, LostIsDeaf, Deaf
<1> QED BY <1>1, <1>4, <1>5 DEF LeaseIInv, NewestServes

LEMMA LeaseLeaves ==
    ASSUME LinkIInv, LeaseIInv, [LinkNext]_linkVars
    PROVE  LeaseStep
<1> DEFINE d == claimed.dev
<1>1. SUFFICES ASSUME d # 0, lease = d, Claimant(d), lease' # d, claimed' = claimed, d \in known,
                      \A e \in Epochs \ {epoch} : threads'[e] = threads[e]
               PROVE  FALSE
  BY DEF LeaseStep
<1> HIDE DEF d
<1>0. epoch \in Epochs /\ d \in Devices /\ LinkIInv /\ LeaseIInv /\ threads \in [Epochs -> Thread]
  BY <1>1, LinkConstants DEF LinkIInv, LinkTyped, BudgetTyped, ThreadsTyped, Epochs
<1>2. PICK c \in DOMAIN threads[epoch].sessions :
         /\ threads[epoch].sessions[c].desk /\ threads[epoch].sessions[c].dev = d
         /\ peer[d].cid = c /\ peer[d].tx
  BY <1>1 DEF Claimant
<1>3. ASSUME NEW e \in Epochs, Top(e) PROVE FALSE
  <2> DEFINE s == threads[e].sessions
             cut == {x \in DOMAIN s : s[x].dev \notin known}
  <2>1. epoch = e /\ \E left : lease' = LeaseAfter(left, Desks(e, cut))
    BY <1>1, <1>3 DEF Top
  <2>2. lease \in Desks(e, cut)
    BY <1>1, <2>1 DEF LeaseAfter
  <2> QED BY <1>1, <2>2 DEF Desks
<1>4. ASSUME NEW e \in Epochs, Serve(e) PROVE FALSE
  <2> DEFINE f == Head(hostFrames[e])
             s == threads[e].sessions
  <2>1. /\ threads[e].at = "read" /\ hostFrames[e] # <<>>
        /\ (f.kind = "leave" /\ OnLeave(e, f)) \/ (f.kind = "sealed" /\ OnSealed(e, f))
    BY <1>1, <1>4 DEF Serve, OnPair, OnHandshake
  <2> HIDE DEF f
  <2>2. CASE f.kind = "leave" /\ OnLeave(e, f)
    <3>1. \E left : Session(left, e, "top")
      BY <2>2 DEF OnLeave
    <3>2. e = epoch
      <4>1. threads'[e].at = "top"
        BY <1>0, <3>1 DEF Session, Thread
      <4>2. threads'[e] # threads[e]
        BY <2>1, <4>1
      <4> QED BY <1>1, <4>2
    <3>3. c # f.cid
      BY <1>0, <1>2, <2>1, <2>2, <3>2, NoLinkLeaves DEF f
    <3> DEFINE left == Without(s, {f.cid})
    <3>4. c \in DOMAIN left /\ left[c] = s[c]
      BY <1>2, <3>2, <3>3 DEF Without
    <3>5. \E devs : lease' = LeaseAfter(left, devs)
      BY <2>2 DEF OnLeave
    <3> HIDE DEF left
    <3>6. lease' = lease
      BY <1>1, <1>2, <3>2, <3>4, <3>5 DEF LeaseAfter
    <3> QED BY <1>1, <3>6
  <2>3. CASE OnSealed(e, f)
    <3>1. \/ UNCHANGED lease
          \/ \E x : lease' = x.dev /\ claimed' = [dev |-> x.dev, key |-> x.key]
      BY <2>3 DEF OnSealed
    <3>2. ASSUME NEW x, lease' = x.dev, claimed' = [dev |-> x.dev, key |-> x.key] PROVE claimed'.dev = lease'
      BY <3>2
    <3> QED BY <1>1, <3>1, <3>2 DEF d
  <2> QED BY <2>1, <2>2, <2>3
<1>5. ASSUME TakeBack PROVE FALSE
  BY <1>1, <1>5 DEF TakeBack, NoClaim, d
<1>6. CASE UNCHANGED lease
  BY <1>1, <1>6
<1>7. ASSUME NEW e \in Epochs, HostStep(e) \/ HostDrops(e) PROVE Top(e) \/ Serve(e) \/ UNCHANGED lease
  BY <1>7 DEF HostStep, HostConnects, GivesUpConnecting, HostDrops
<1>8. ASSUME NEW x, HostLeft(x) \/ PeerLeft(x) PROVE UNCHANGED lease
  BY <1>8 DEF HostLeft, PeerLeft, linkHostVars
<1>9. ASSUME NEW x, \/ PeerStep(x) \/ PeerDrops(x) \/ PeerAsks(x) \/ PeerClaims(x) \/ PeerTimesOut(x)
                    \/ PeerOff(x) \/ PeerOn(x) \/ Revoke(x)
      PROVE UNCHANGED lease
  BY <1>9 DEF PeerStep, PeerConnects, PeerReads, PeerSends, PeerDrops, PeerAsks, PeerClaims, PeerTimesOut, PeerOff,
              PeerOn, Revoke, linkHostVars
<1>10. ASSUME RelayRestarts \/ SwitchOff \/ StartThread \/ ShowCode \/ HostAnswered PROVE UNCHANGED lease
  BY <1>10 DEF RelayRestarts, SwitchOff, StartThread, ShowCode, HostAnswered
<1>11. UNCHANGED linkVars => UNCHANGED lease
  BY DEF linkVars, linkHostVars
<1> QED BY <1>3, <1>4, <1>5, <1>6, <1>7, <1>8, <1>9, <1>10, <1>11 DEF LinkNext

\* The lease of the geometry (geometry_owner) leaves a device that claimed it on a link that is
\* still up only because another claimed it, the user of the host took it back or revoked the
\* device, or a thread of an earlier epoch ended, for any devices, drops, takeovers, restarts of
\* the relay and leaves that are read late (desk_gone, claim_geometry, geometry_take_back).
THEOREM LeaseStaysWithItsClaimant == LinkSpec => LeaseIsKept
<1>1. LinkInit => LinkIInv /\ LeaseIInv
  BY AgreementStarts, LeaseStarts
<1>2. LinkIInv /\ LeaseIInv /\ [LinkNext]_linkVars => LinkIInv' /\ LeaseIInv'
  BY AgreementStays, LeaseStays
<1>3. LinkIInv /\ LeaseIInv /\ [LinkNext]_linkVars => [LeaseStep]_linkVars
  BY LeaseLeaves
<1>4. [][LeaseStep]_linkVars <=> LeaseIsKept
  BY DEF LeaseIsKept, LeaseStep, Claimant
<1> QED BY <1>1, <1>2, <1>3, <1>4, PTL DEF LinkSpec
=============================================================================
