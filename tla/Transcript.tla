----------------------------- MODULE Transcript -----------------------------
(***************************************************************************)
(* The transcript of one terminal (crates/mulpex-ptyd/src/vtgrid.rs): the  *)
(* screen that the recorder emulates, the log of the rows that left it,    *)
(* the frames of a full-screen program, and hub_terminal_read              *)
(* (crates/mulpex-core/src/mcp.rs), which runs in other processes, takes   *)
(* no lock and keeps one cursor per reader.                                *)
(*                                                                         *)
(* A line is a number, the n-th thing printed; a byte offset of the log is *)
(* an index into the sequence of logged lines.  The log is trimmed from    *)
(* the front in place, in three writes: the kept lines, the length and,    *)
(* last, the header.  A reader reads header, data, header.                 *)
(***************************************************************************)
EXTENDS Naturals, Sequences, SequencesExt

CONSTANTS
    Readers,        \* instances that read this terminal
    MaxRows,        \* rows of the largest pane
    MaxLog,         \* MAX_LOG: lines the log may have
    KeepLog,        \* KEEP_LOG: lines a trim keeps
    MaxFrames,      \* frames the frame log may have
    Tries,          \* how often LogView::open tries
    MaxLines,       \* bound: lines printed
    MaxReads        \* bound: reads per reader

ASSUME TranscriptAssumption ==
    /\ {MaxRows, MaxLog, KeepLog, MaxFrames, Tries, MaxLines, MaxReads} \subseteq Nat
    /\ 0 < MaxRows /\ 0 < KeepLog /\ KeepLog < MaxLog /\ 0 < MaxFrames /\ 0 < Tries

VARIABLES
    screen, height, alt,      \* Screen: visible lines, height, `suppressed`
    next,                   \* number of the next line printed
    erased,                 \* lines painted over, cleared with the alternate screen, or cut off
    hist,                   \* every line ever logged, in order
    data, head,             \* the log file: its lines, and the base in its header
    base, trim,             \* Recorder: base, and how far a trim is
    ended,                  \* the shell has exited
    shot,                   \* the file <id>.screen
    frames,                 \* the frame log
    rd,                     \* per reader: the read in progress
    cursor,                 \* the files cursors/<id>.<reader>; none reads as the beginning
    gave,                   \* per reader: the window its last read returned
    torn,                   \* readers whose last window was read across a trim
    reads                   \* per reader: reads begun

recorderVars == <<screen, height, alt, next, erased, hist, data, head, base, trim, ended, shot, frames>>
readerVars   == <<rd, cursor, gave, torn, reads>>
transcriptVars         == <<recorderVars, readerVars>>

\* A read that opens the log for the n-th time; one that is not there.
Open(full, wait, n) ==
    [at |-> "before", full |-> full, wait |-> wait, try |-> n, base |-> 0, raw |-> <<>>, moved |-> FALSE]
Idle == [Open(FALSE, FALSE, 0) EXCEPT !.at = "idle"]

TranscriptInit ==
    /\ screen = <<>> /\ height = MaxRows /\ alt = FALSE
    /\ next = 1 /\ erased = {} /\ hist = <<>>
    /\ data = <<>> /\ head = 0 /\ base = 0 /\ trim = "no"
    /\ ended = FALSE /\ shot = <<>> /\ frames = <<>>
    /\ rd = [r \in Readers |-> Idle]
    /\ cursor = [r \in Readers |-> [at |-> 0, frame |-> 0]]
    /\ gave = [r \in Readers |-> [from |-> 0, text |-> <<>>, to |-> 0]]
    /\ torn = {}
    /\ reads = [r \in Readers |-> 0]

-----------------------------------------------------------------------------
(* The recorder                                                            *)

\* The thread that reads the PTY is between two chunks.
Free == ~ended /\ trim = "no"

\* append: what left the screen ends the log; too long a log begins a trim.
Append2Log(lines) ==
    /\ hist' = hist \o lines
    /\ data' = data \o lines
    /\ trim' = IF Len(data') > MaxLog THEN "move" ELSE "no"
    /\ UNCHANGED <<base, head>>

NoLog == UNCHANGED <<hist, data, base, head, trim>>

\* flush_visible: what an alternate screen shows is a live view, not history.
Visible == IF alt THEN <<>> ELSE screen
Lost(lines) == erased' = erased \cup ToSet(lines)

\* maybe_snapshot, take_final_alt_frame: no empty frame and none twice in a row;
\* trim_frames drops whole records off the front.
Framed(text) ==
    LET stamp == IF frames = <<>> THEN 1 ELSE Last(frames).n + 1
        all == frames \o <<[n |-> stamp, text |-> text]>>
    IN  IF text = <<>> \/ (frames # <<>> /\ Last(frames).text = text) THEN frames
        ELSE IF Len(all) > MaxFrames THEN Tail(all) ELSE all

\* print, newline, scroll_up: the top row scrolls off a full screen, into the log
\* unless a full-screen program is drawing.
PrintLine ==
    /\ Free /\ next <= MaxLines
    /\ next' = next + 1
    /\ IF Len(screen) < height
       THEN /\ screen' = screen \o <<next>>
            /\ NoLog /\ UNCHANGED erased
       ELSE /\ screen' = Tail(screen) \o <<next>>
            /\ IF alt THEN Lost(<<Head(screen)>>) /\ NoLog
                      ELSE Append2Log(<<Head(screen)>>) /\ UNCHANGED erased
    /\ UNCHANGED <<height, alt, ended, shot, frames, readerVars>>

\* CR, cursor up and erase: a row on screen is painted anew.
Repaint ==
    /\ Free /\ next <= MaxLines /\ screen # <<>>
    /\ next' = next + 1
    /\ screen' = Front(screen) \o <<next>>
    /\ Lost(<<Last(screen)>>)
    /\ NoLog
    /\ UNCHANGED <<height, alt, ended, shot, frames, readerVars>>

\* Mutant: A screen clear that forgets to flush.
Clear_Drops ==
    /\ Free /\ screen # <<>>
    /\ NoLog
    /\ screen' = <<>>
    /\ IF alt THEN Lost(screen) ELSE UNCHANGED erased
    /\ UNCHANGED <<height, alt, next, ended, shot, frames, readerVars>>

\* ESC [ 2 J, ESC c.
Clear ==
    /\ Free /\ screen # <<>>
    /\ Append2Log(Visible)
    /\ screen' = <<>>
    /\ IF alt THEN Lost(screen) ELSE UNCHANGED erased
    /\ UNCHANGED <<height, alt, next, ended, shot, frames, readerVars>>

\* ESC [ ? 1049 h: the main screen becomes history, closed by a note.
EnterAlt ==
    /\ Free /\ ~alt /\ next <= MaxLines
    /\ Append2Log(screen \o <<next>>)
    /\ next' = next + 1
    /\ screen' = <<>> /\ alt' = TRUE
    /\ UNCHANGED <<height, erased, ended, shot, frames, readerVars>>

\* ESC [ ? 1049 l: the last frame is taken, whatever the interval says.
LeaveAlt ==
    /\ Free /\ alt
    /\ frames' = Framed(screen)
    /\ Lost(screen)
    /\ screen' = <<>> /\ alt' = FALSE
    /\ NoLog
    /\ UNCHANGED <<height, next, ended, shot, readerVars>>

\* maybe_snapshot, when its interval has passed.
Snapshot ==
    /\ Free /\ alt
    /\ frames' = Framed(screen)
    /\ frames' # frames
    /\ UNCHANGED <<screen, height, alt, next, erased, hist, data, head, base, trim, ended, shot, readerVars>>

\* resize: no reflow, the top rows stay.
Resize ==
    /\ Free
    /\ height' \in 1..MaxRows
    /\ screen' = SubSeq(screen, 1, IF Len(screen) < height' THEN Len(screen) ELSE height')
    /\ Lost(SubSeq(screen, height' + 1, Len(screen)))
    /\ NoLog
    /\ UNCHANGED <<alt, next, ended, shot, frames, readerVars>>

\* write_screen, in push or settle: a rename, so a reader sees a whole screen.
Publish ==
    /\ trim = "no" /\ shot # screen
    /\ shot' = screen
    /\ UNCHANGED <<screen, height, alt, next, erased, hist, data, head, base, trim, ended, frames, readerVars>>

\* Mutant: Exit without the forced frame.
Finish_Unforced ==
    /\ Free
    /\ frames' = frames
    /\ Append2Log(Visible)
    /\ IF alt THEN Lost(screen) ELSE UNCHANGED erased
    /\ screen' = <<>> /\ shot' = <<>>
    /\ ended' = TRUE
    /\ UNCHANGED <<height, alt, next, readerVars>>

\* finish: the last frame, the visible rows, an empty screen.
Finish ==
    /\ Free
    /\ frames' = IF alt THEN Framed(screen) ELSE frames
    /\ Append2Log(Visible)
    /\ IF alt THEN Lost(screen) ELSE UNCHANGED erased
    /\ screen' = <<>> /\ shot' = <<>>
    /\ ended' = TRUE
    /\ UNCHANGED <<height, alt, next, readerVars>>

Kept == SubSeq(data, Len(data) - KeepLog + 1, Len(data))

\* trim: the kept lines are written over the front ...
TrimMove ==
    /\ trim = "move"
    /\ data' = Kept \o SubSeq(data, KeepLog + 1, Len(data))
    /\ base' = base + (Len(data) - KeepLog)
    /\ trim' = "cut"
    /\ UNCHANGED <<screen, height, alt, next, erased, hist, head, ended, shot, frames, readerVars>>

\* ... the file is cut ...
TrimCut ==
    /\ trim = "cut"
    /\ data' = SubSeq(data, 1, KeepLog)
    /\ trim' = "head"
    /\ UNCHANGED <<screen, height, alt, next, erased, hist, head, base, ended, shot, frames, readerVars>>

\* ... and the header says so.
TrimHeader ==
    /\ trim = "head"
    /\ head' = base
    /\ trim' = "no"
    /\ UNCHANGED <<screen, height, alt, next, erased, hist, data, base, ended, shot, frames, readerVars>>

-----------------------------------------------------------------------------
(* hub_terminal_read: LogView::open, then the window and the cursor        *)

Goto(r, step) == rd' = [rd EXCEPT ![r] = step]

ReadStart(r) ==
    /\ rd[r].at = "idle" /\ reads[r] < MaxReads
    /\ reads' = [reads EXCEPT ![r] = @ + 1]
    /\ \E full, wait \in BOOLEAN : Goto(r, Open(full, wait, 1))
    /\ UNCHANGED <<recorderVars, cursor, gave, torn>>

ReadBefore(r) ==
    /\ rd[r].at = "before"
    /\ Goto(r, [rd[r] EXCEPT !.at = "raw", !.base = head])
    /\ UNCHANGED <<recorderVars, cursor, gave, torn, reads>>

\* `moved` is what the reader cannot see: the data it reads is not where the header says.
ReadRaw(r) ==
    /\ rd[r].at = "raw"
    /\ Goto(r, [rd[r] EXCEPT !.at = "after", !.raw = data, !.moved = trim \in {"cut", "head"}])
    /\ UNCHANGED <<recorderVars, cursor, gave, torn, reads>>

Unmoved(r) == head = rd[r].base

\* The same base before and after: a view.  Otherwise again, or "no such terminal".
ReadAfter(r) ==
    /\ rd[r].at = "after"
    /\ \/ /\ Unmoved(r)
          /\ Goto(r, [rd[r] EXCEPT !.at = "view"])
       \/ /\ ~Unmoved(r) /\ rd[r].try < Tries
          /\ Goto(r, Open(rd[r].full, rd[r].wait, rd[r].try + 1))
       \/ /\ ~Unmoved(r) /\ rd[r].try = Tries
          /\ Goto(r, Idle)
    /\ UNCHANGED <<recorderVars, cursor, gave, torn, reads>>

Total(r) == rd[r].base + Len(rd[r].raw)

\* effective_start: the cursor, or what the log still has of what follows it.
Start(r) ==
    IF rd[r].full \/ cursor[r].at < rd[r].base THEN rd[r].base ELSE cursor[r].at

\* A wait for output goes on while there is none, until the deadline.
WaitMore(r) ==
    /\ rd[r].at = "view" /\ rd[r].wait
    /\ Total(r) <= Start(r) /\ ~ended
    /\ Goto(r, Open(rd[r].full, TRUE, 1))
    /\ UNCHANGED <<recorderVars, cursor, gave, torn, reads>>

Text(r) == SubSeq(rd[r].raw, Start(r) - rd[r].base + 1, Len(rd[r].raw))

\* The frames this reader has not been shown.
FreshFrames(r) == SelectSeq(frames, LAMBDA f : f.n > cursor[r].frame)
Chosen(r) == IF rd[r].full THEN frames ELSE FreshFrames(r)

FrameMark(r) == IF Chosen(r) = <<>> THEN cursor[r].frame ELSE Last(Chosen(r)).n

\* The answer.  A wait that timed out with no text consumes nothing.
Give(r) ==
    /\ rd[r].at = "view"
    /\ ~(rd[r].wait /\ Text(r) = <<>> /\ ~ended)
    /\ gave' = [gave EXCEPT ![r] = [from |-> Start(r), text |-> Text(r), to |-> Total(r)]]
    /\ torn' = IF rd[r].moved THEN torn \cup {r} ELSE torn \ {r}
    /\ cursor' = [cursor EXCEPT ![r] = [at |-> Total(r), frame |-> FrameMark(r)]]
    /\ Goto(r, Idle)
    /\ UNCHANGED <<recorderVars, reads>>

ReadTimesOut(r) ==
    /\ rd[r].at = "view" /\ rd[r].wait /\ Text(r) = <<>> /\ ~ended
    /\ Goto(r, Idle)
    /\ UNCHANGED <<recorderVars, cursor, gave, torn, reads>>

-----------------------------------------------------------------------------
Record == PrintLine \/ Repaint \/ Clear \/ EnterAlt \/ LeaveAlt \/ Snapshot \/ Resize \/ Publish \/ Finish
Trim == TrimMove \/ TrimCut \/ TrimHeader
ReadTerminal(r) == ReadStart(r) \/ ReadBefore(r) \/ ReadRaw(r) \/ ReadAfter(r) \/ WaitMore(r) \/ Give(r) \/ ReadTimesOut(r)

TranscriptNext == Record \/ Trim \/ \E r \in Readers : ReadTerminal(r)

TranscriptSpec == TranscriptInit /\ [][TranscriptNext]_transcriptVars

-----------------------------------------------------------------------------
(* Properties                                                              *)

\* Types; what is on screen fits it, and the header never runs ahead of the data.
TranscriptTypeOK ==
    /\ screen \in Seq(1..MaxLines) /\ hist \in Seq(1..MaxLines) /\ data \in Seq(1..MaxLines)
    /\ height \in 1..MaxRows /\ Len(screen) <= height /\ next \in 1..(MaxLines + 1)
    /\ head <= base /\ base <= Len(hist) /\ Len(data) <= MaxLog + MaxRows + 1
    /\ trim \in {"no", "move", "cut", "head"}
    /\ \A r \in Readers : cursor[r].at <= Len(hist)

\* vtgrid.rs "a row is written to the log only when it scrolls off the top": through
\* scrolls, repaints, clears, full-screen programs and the exit, every line printed is
\* logged once and in order, or still on screen, or was painted over or cut off.
EveryLineOnce ==
    LET told == hist \o Visible
    IN  /\ \A i, j \in DOMAIN told : i < j => told[i] < told[j]
        /\ 1..(next - 1) = ToSet(told) \cup ToSet(screen) \cup erased
        /\ ToSet(told) \cap erased = {}

\* A read returns the lines that its offsets stand for, however the writer trims
\* meanwhile (mcp.rs LogView::open), unless it was read across the moving of the data.
WindowIsTrue ==
    \A r \in Readers \ torn : gave[r].text = SubSeq(hist, gave[r].from + 1, gave[r].to)

\* The last thing a full-screen program showed is a frame, though leaving the alternate
\* screen and exiting both clear it (take_final_alt_frame, maybe_snapshot(true)).
LastScreenIsKept ==
    [][alt /\ screen # <<>> /\ (~alt' \/ (ended' /\ ~ended)) => frames' # <<>> /\ Last(frames').text = screen]_transcriptVars

\* The transcript of a terminal has each line once and in order, and a read of it returns
\* the lines its offsets stand for (vtgrid.rs, LogView).
TranscriptInv == TranscriptTypeOK /\ EveryLineOnce /\ WindowIsTrue
=============================================================================
