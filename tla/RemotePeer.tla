----------------------------- MODULE RemotePeer -----------------------------
(***************************************************************************)
(* A remote peer: a claude that hub_remote_open starts on another machine  *)
(* inside a local terminal.  It can only print, so the app's tick          *)
(* (process_remote_signals, src-tauri/src/state.rs) reads what it printed  *)
(* and wakes the instance that opened it; a peer that falls silent without *)
(* a signal wakes it too (crates/mulpex-core/src/remote.rs and mcp.rs).    *)
(*                                                                         *)
(* A signal is its fingerprint, one of Words.  Signals move from the       *)
(* screen to the log when they scroll off, and a repaint removes them.     *)
(***************************************************************************)
EXTENDS Naturals, Sequences, SequencesExt

CONSTANTS
    Words,          \* fingerprints: kind and summary
    MaxTurns        \* bound: turns given to the peer

ASSUME RemotePeerAssumption == MaxTurns \in Nat

Quiet == "ended"    \* Kind::Ended, which the app makes up
ASSUME QuietAssumption == Quiet \notin Words

VARIABLES
    peer,           \* the far side: none, launched, prompt, typed, working, gone
    calm,           \* no output for IDLE_TURN_END_MS
    shown, logged,  \* signals on the screen, in the log
    peerRow, opener,    \* the terminal and its driver are open
    meta,           \* terminals/remote/<id>.json is there
    open,           \* where hub_remote_open is
    awaiting,       \* Core.remote_awaiting
    seen,           \* <id>.seen.<reader>: <<>> or the last fingerprint, per reader
    wakes,          \* messages written to the driver's inbox
    turns, ends,    \* turns given; per turn, how it ended
    fresh           \* a signal was printed that no tick has looked at

remotePeerVars == <<peer, calm, shown, logged, peerRow, opener, meta, open, awaiting, seen, wakes, turns, ends, fresh>>

Readers == {"watch", "driver"}

RemotePeerInit ==
    /\ peer = "none" /\ calm = FALSE /\ shown = <<>> /\ logged = <<>>
    /\ peerRow = FALSE /\ opener = TRUE /\ meta = FALSE /\ open = "no"
    /\ awaiting = FALSE /\ seen = [r \in Readers |-> <<>>]
    /\ wakes = <<>> /\ turns = 0 /\ ends = <<>> /\ fresh = FALSE

-----------------------------------------------------------------------------
(* hub_remote_open: the launch, then the record that makes it a peer       *)

\* In a terminal of its own, or in one that is at a prompt and quiet; the task, if there
\* is one, is on the command line.
Launch ==
    /\ open = "no" /\ opener /\ peer = "none" /\ turns < MaxTurns
    /\ peerRow' = TRUE /\ peer' = "launched" /\ open' = "launched"
    /\ turns' \in {0, 1}
    /\ UNCHANGED <<calm, shown, logged, opener, meta, awaiting, seen, wakes, ends, fresh>>

Record ==
    /\ open = "launched" /\ opener
    /\ meta' = TRUE /\ open' = "yes"
    /\ UNCHANGED <<peer, calm, shown, logged, peerRow, opener, awaiting, seen, wakes, turns, ends, fresh>>

\* hub_terminal_send: the tick types it and arms the backstop.
SendTurn ==
    /\ open = "yes" /\ opener /\ peerRow /\ peer = "prompt" /\ turns < MaxTurns
    /\ turns' = turns + 1 /\ peer' = "typed"
    /\ awaiting' = (awaiting \/ meta)
    /\ UNCHANGED <<calm, shown, logged, peerRow, opener, meta, open, seen, wakes, ends, fresh>>

-----------------------------------------------------------------------------
(* The far side                                                            *)

Boot ==
    /\ peerRow /\ peer = "launched"
    /\ peer' = IF turns = 1 THEN "working" ELSE "prompt"
    /\ UNCHANGED <<calm, shown, logged, peerRow, opener, meta, open, awaiting, seen, wakes, turns, ends, fresh>>

\* What was typed arrives, and the screen moves.
StartTurn ==
    /\ peerRow /\ peer = "typed"
    /\ peer' = "working" /\ calm' = FALSE
    /\ UNCHANGED <<shown, logged, peerRow, opener, meta, open, awaiting, seen, wakes, turns, ends, fresh>>

\* A turn ends with a signal, or the peer forgets to print one.
EndTurn ==
    /\ peerRow /\ peer = "working"
    /\ peer' = "prompt"
    /\ \E w \in Words \cup {Quiet} :
        /\ ends' = Append(ends, w)
        /\ shown' = IF w = Quiet THEN shown ELSE Append(shown, w)
        /\ fresh' = (fresh \/ w # Quiet)
    /\ UNCHANGED <<calm, logged, peerRow, opener, meta, open, awaiting, seen, wakes, turns>>

CalmDown ==
    /\ peerRow /\ peer = "prompt" /\ ~calm
    /\ calm' = TRUE
    /\ UNCHANGED <<peer, shown, logged, peerRow, opener, meta, open, awaiting, seen, wakes, turns, ends, fresh>>

\* The top of the screen scrolls into the log.
ScrollOff ==
    /\ peerRow /\ shown # <<>>
    /\ shown' = Tail(shown) /\ logged' = Append(logged, Head(shown))
    /\ UNCHANGED <<peer, calm, peerRow, opener, meta, open, awaiting, seen, wakes, turns, ends, fresh>>

\* A full-screen program paints over its oldest rows; one that was never looked at stays.
PaintOver ==
    /\ peerRow /\ shown # <<>> /\ ~fresh
    /\ shown' = Tail(shown)
    /\ UNCHANGED <<peer, calm, logged, peerRow, opener, meta, open, awaiting, seen, wakes, turns, ends, fresh>>

CloseTerminal ==
    /\ peerRow
    /\ peerRow' = FALSE /\ peer' = "gone"
    /\ UNCHANGED <<calm, shown, logged, opener, meta, open, awaiting, seen, wakes, turns, ends, fresh>>

CloseOpener ==
    /\ opener
    /\ opener' = FALSE
    /\ UNCHANGED <<peer, calm, shown, logged, peerRow, meta, open, awaiting, seen, wakes, turns, ends, fresh>>

-----------------------------------------------------------------------------
(* The tick                                                                *)

\* forget_all.
Forget == meta' = FALSE /\ seen' = [r \in Readers |-> <<>>]

TickGone ==
    /\ meta /\ ~peerRow
    /\ Forget
    /\ UNCHANGED <<peer, calm, shown, logged, peerRow, opener, open, awaiting, wakes, turns, ends, fresh>>

\* Mutant: only the transcript is searched.
Signal_LogOnly == IF logged # <<>> THEN <<Last(logged)>> ELSE <<>>

\* The last signal of the log, else the last one on the screen.
Signal == IF logged # <<>> THEN <<Last(logged)>> ELSE IF shown # <<>> THEN <<Last(shown)>> ELSE <<>>

\* Silence, on a screen with its input box and no spinner.
IsQuiet == calm /\ peer \in {"prompt", "typed"}

\* Mutant: silence is the end of a turn, asked for or not.
Owed_Always == IsQuiet

\* Silence counts once the driver has spoken since the last wake.
Owed == IsQuiet /\ awaiting

TakeIfNew(r) == seen[r] # Signal /\ seen' = [seen EXCEPT ![r] = Signal]

Wake(w) == wakes' = Append(wakes, [what |-> w, given |-> turns, ended |-> Len(ends)]) /\ awaiting' = FALSE

\* process_remote_signals; `wakes` is the inbox of an opener that is there.
TickSignal ==
    /\ meta /\ peerRow /\ opener
    /\ \/ Signal # <<>> /\ TakeIfNew("watch") /\ Wake(Signal[1])
       \/ Signal = <<>> /\ Owed /\ Wake(Quiet) /\ UNCHANGED seen
    /\ fresh' = FALSE
    /\ UNCHANGED <<peer, calm, shown, logged, peerRow, opener, meta, open, turns, ends>>

\* A tick that finds a signal it knows.
TickKnown ==
    /\ meta /\ peerRow /\ opener /\ fresh
    /\ Signal # <<>> /\ seen["watch"] = Signal
    /\ fresh' = FALSE
    /\ UNCHANGED <<peer, calm, shown, logged, peerRow, opener, meta, open, awaiting, seen, wakes, turns, ends>>

\* hub_terminal_read by the driver, under its own reader name.
DriverRead ==
    /\ open = "yes" /\ opener /\ peerRow /\ meta
    /\ Signal # <<>> /\ TakeIfNew("driver")
    /\ UNCHANGED <<peer, calm, shown, logged, peerRow, opener, meta, open, awaiting, wakes, turns, ends, fresh>>

-----------------------------------------------------------------------------
Driver == Launch \/ Record \/ SendTurn \/ DriverRead
Far == Boot \/ StartTurn \/ EndTurn \/ CalmDown \/ ScrollOff \/ PaintOver
TickRemote == TickGone \/ TickSignal \/ TickKnown

RemotePeerNext == Driver \/ Far \/ CloseTerminal \/ CloseOpener \/ TickRemote

\* The app ticks, hub_remote_open returns, and a claude at its prompt is silent.
RemotePeerFair == WF_remotePeerVars(TickRemote) /\ WF_remotePeerVars(Record) /\ WF_remotePeerVars(CalmDown)

RemotePeerSpec == RemotePeerInit /\ [][RemotePeerNext]_remotePeerVars
RemotePeerFairSpec == RemotePeerSpec /\ RemotePeerFair

-----------------------------------------------------------------------------
(* Properties                                                              *)

\* Types.
RemotePeerTypeOK ==
    /\ peer \in {"none", "launched", "prompt", "typed", "working", "gone"}
    /\ shown \in Seq(Words) /\ logged \in Seq(Words)
    /\ \A r \in Readers : seen[r] \in {<<>>} \cup {<<w>> : w \in Words}
    /\ turns <= MaxTurns /\ Len(ends) <= turns

Silences == {i \in DOMAIN wakes : wakes[i].what = Quiet}

\* state.rs "the debt is settled: nothing further is owed until the driver speaks again":
\* however the screen and the log change meanwhile, silence wakes the driver once for
\* each time it spoke, and never before.
SilenceWakesOnce ==
    \A i \in Silences : wakes[i].given > 0 /\ \A j \in Silences : j < i => wakes[j].given < wakes[i].given

\* A signal is told only if the peer printed it, and a run of ticks that sees the same
\* one tells it once ("a marker sitting on a screen that never scrolls").
ToldWasSaid ==
    /\ \A i \in DOMAIN wakes : wakes[i].what # Quiet => \E t \in 1..wakes[i].ended : ends[t] = wakes[i].what
    /\ \A i \in DOMAIN wakes : i > 1 /\ wakes[i].what # Quiet => wakes[i].what # wakes[i - 1].what

\* The first turn that ends in a signal is told, whatever the driver, the screen and the
\* user do, while both ends are there.
FirstSignalIsTold ==
    []<>((\E t \in DOMAIN ends : ends[t] # Quiet) => wakes # <<>> \/ ~opener \/ ~peerRow)

\* The record of a terminal goes with it, so that no later terminal is taken for it.
RecordGoes == []<>~(meta /\ ~peerRow)

\* What a caller is told of its remote peer was said there, and a silence wakes it once
\* (remote.rs).
PeerInv == RemotePeerTypeOK /\ SilenceWakesOnce /\ ToldWasSaid

\* The first signal of a peer is told, and the record of one that left goes.
PeerLive == FirstSignalIsTold /\ RecordGoes
=============================================================================
