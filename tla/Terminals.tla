----------------------------- MODULE Terminals -----------------------------
(***************************************************************************)
(* A terminal that an instance types into: the request queue termreq/      *)
(* between hub_terminal_send and the app's tick, the mark that says which  *)
(* command the terminal is busy with, and the exit code that               *)
(* hub_terminal_read reports for it (crates/mulpex-core/src/mcp.rs,        *)
(* src-tauri/src/state.rs).                                                *)
(*                                                                         *)
(* A send is a number, which is its stamp in the queue and, when the line  *)
(* is wrapped, the token of its completion marker.  The user types into    *)
(* the same terminal; the number 0 is theirs.                              *)
(***************************************************************************)
EXTENDS Naturals, Sequences, SequencesExt, FiniteSetsExt

CONSTANTS
    MaxSends,       \* bound: sends of the instance
    MaxTyped        \* bound: lines of the user

ASSUME TerminalsAssumption == MaxSends \in Nat \ {0} /\ MaxTyped \in Nat

VARIABLES
    row,            \* the terminal's row: open, exited or closed
    sent,           \* the sends so far: what each one is
    step,           \* where hub_terminal_send is
    act,            \* mark_action of the send in progress
    reqs, dones,    \* files of termreq/: requests, replies
    applied,        \* requests the app has applied, in order
    typed,          \* lines the terminal has not read
    fg,             \* what runs in it: <<>>, or the number of the line
    onScreen, log,    \* completion markers on the screen, in the log
    mark,           \* the file <id>.mark: a token, or 0
    fed,            \* pairs <<line, reader>>: lines that a running command read
    told,           \* what the last read reported finished: [n, of]
    byUser          \* lines the user has typed

terminalsVars == <<row, sent, step, act, reqs, dones, applied, typed, fg, onScreen, log, mark, fed, told, byUser>>

caller == <<sent, step, act>>
queue  == <<reqs, dones, applied>>
shell  == <<typed, fg, onScreen, log, fed, byUser>>

Kinds == {"line", "lines", "interrupt", "close"}

\* The user opened the terminal; or hub_terminal_open did, with a command typed into it
\* (seed_and_mark: several lines are not wrapped).
ByUser == sent = <<>> /\ typed = <<>> /\ mark = 0
BySeed ==
    \E kind \in {"line", "lines"} :
        /\ sent = <<[kind |-> kind, wrapped |-> kind = "line", found |-> "none"]>>
        /\ typed = <<1>>
        /\ mark = IF kind = "line" THEN 1 ELSE 0

TerminalsInit ==
    /\ row = "open" /\ step = "idle" /\ act = "keep"
    /\ ByUser \/ BySeed
    /\ reqs = {} /\ dones = {} /\ applied = <<>>
    /\ fg = <<>> /\ onScreen = {} /\ log = {}
    /\ fed = {} /\ told = [n |-> 0, of |-> 0] /\ byUser = 0

N == Len(sent)
Wrapped(n) == n # 0 /\ sent[n].wrapped
Interrupt(n) == n # 0 /\ sent[n].kind = "interrupt"

-----------------------------------------------------------------------------
(* hub_terminal_send, hub_terminal_close: an instance makes one call at a time *)

\* No command is tracked, or the marker of the tracked one is in the log.
AtPrompt == mark = 0 \/ mark \in log

\* mark_action, for a terminal that is not a remote peer's.
MarkAction(kind, idle) ==
    CASE kind = "interrupt" -> "clear"
      [] kind = "line" /\ idle -> "track"
      [] kind = "lines" /\ idle -> "clear"
      [] OTHER -> "keep"

\* Where the tracked command is, and its marker: the sender cannot tell one that runs
\* from one whose marker has not left the screen.
Tracked == CASE mark = 0 -> "none" [] mark \in log -> "logged" [] mark \in onScreen -> "shown" [] OTHER -> "running"

Look ==
    /\ step = "idle" /\ N < MaxSends
    /\ \E kind \in Kinds :
        /\ act' = MarkAction(kind, AtPrompt)
        /\ sent' = Append(sent, [kind |-> kind, wrapped |-> act' = "track", found |-> Tracked])
        /\ step' = IF kind = "close" THEN "post" ELSE "mark"
    /\ UNCHANGED <<row, queue, shell, mark, told>>

SetMark ==
    /\ step = "mark"
    /\ mark' = CASE act = "track" -> N [] act = "clear" -> 0 [] OTHER -> mark
    /\ step' = "post"
    /\ UNCHANGED <<row, sent, act, queue, shell, told>>

\* app_request.
Post ==
    /\ step = "post"
    /\ reqs' = reqs \cup {N}
    /\ step' = "wait"
    /\ UNCHANGED <<row, sent, act, dones, applied, shell, mark, told>>

Reply ==
    /\ step = "wait" /\ N \in dones
    /\ dones' = dones \ {N}
    /\ step' = "idle"
    /\ UNCHANGED <<row, sent, act, reqs, applied, shell, mark, told>>

\* "Mulpex did not respond": the request may be applied all the same.
SendTimesOut ==
    /\ step = "wait" /\ N \notin dones
    /\ step' = "idle"
    /\ UNCHANGED <<row, sent, act, queue, shell, mark, told>>

-----------------------------------------------------------------------------
(* The tick                                                                *)

\* Mutant: requests in the order the directory lists them.
Sorted_Not(s) ==
    CHOOSE f \in Injection(1..Cardinality(s), s) : \A i, j \in DOMAIN f : i < j => f[i] > f[j]

\* The names begin with the stamp.
Sorted(s) ==
    CHOOSE f \in Injection(1..Cardinality(s), s) : \A i, j \in DOMAIN f : i < j => f[i] < f[j]

\* What is applied of a list of requests: nothing after a close.
UpToClose(list) ==
    LET closes == {i \in DOMAIN list : sent[list[i]].kind = "close"}
    IN  IF closes = {} THEN list ELSE SubSeq(list, 1, Min(closes) - 1)

\* process_terminal_requests, apply_terminal_request: each request is removed, applied
\* and answered; a terminal that is gone or has exited is an error reply.
Tick ==
    /\ reqs # {}
    /\ reqs' = {} /\ dones' = dones \cup reqs
    /\ LET list == Sorted(reqs)
           typing == UpToClose(list)
       IN  IF row = "closed"
           THEN UNCHANGED <<row, applied, typed, fg>>
           ELSE /\ applied' = IF row = "open" THEN applied \o typing ELSE applied
                /\ IF typing = list
                   THEN /\ typed' = IF row = "open" THEN typed \o typing ELSE typed
                        /\ UNCHANGED <<row, fg>>
                   ELSE row' = "closed" /\ typed' = <<>> /\ fg' = <<>>
    /\ UNCHANGED <<caller, onScreen, log, mark, fed, told, byUser>>

\* DONE_TTL: the reply of a caller that has given up is collected.
Stray ==
    /\ \E n \in dones : (n < N \/ step = "idle") /\ dones' = dones \ {n}
    /\ UNCHANGED <<row, caller, reqs, applied, shell, mark, told>>

-----------------------------------------------------------------------------
(* The terminal: a shell, the program in it, and the recorder's screen     *)

UserTypes ==
    /\ row = "open" /\ byUser < MaxTyped
    /\ typed' = Append(typed, 0) /\ byUser' = byUser + 1
    /\ UNCHANGED <<row, caller, queue, fg, onScreen, log, mark, fed, told>>

\* At the prompt a line is a command, and an interrupt does nothing or ends the shell.
ReadLine ==
    /\ row = "open" /\ fg = <<>> /\ typed # <<>>
    /\ typed' = Tail(typed)
    /\ \/ ~Interrupt(Head(typed)) /\ fg' = <<Head(typed)>> /\ UNCHANGED row
       \/ Interrupt(Head(typed)) /\ row' \in {"open", "exited"} /\ UNCHANGED fg
    /\ UNCHANGED <<caller, queue, onScreen, log, mark, fed, told, byUser>>

\* A running program reads a line, or is ended by an interrupt and prints no marker.
Feed ==
    /\ row = "open" /\ fg # <<>> /\ typed # <<>>
    /\ typed' = Tail(typed)
    /\ IF Interrupt(Head(typed))
       THEN fg' = <<>> /\ UNCHANGED fed
       ELSE fed' = fed \cup {<<Head(typed), fg[1]>>} /\ UNCHANGED fg
    /\ UNCHANGED <<row, caller, queue, onScreen, log, mark, told, byUser>>

\* The command is over; one that was wrapped prints its marker.
FinishRun ==
    /\ row = "open" /\ fg # <<>>
    /\ fg' = <<>>
    /\ onScreen' = IF Wrapped(fg[1]) THEN onScreen \cup {fg[1]} ELSE onScreen
    /\ UNCHANGED <<row, caller, queue, typed, log, mark, fed, told, byUser>>

\* A row reaches the log when it scrolls off, and everything does when the shell exits.
Scroll ==
    /\ onScreen # {}
    /\ log' = log \cup {Min(onScreen)} /\ onScreen' = onScreen \ {Min(onScreen)}
    /\ UNCHANGED <<row, caller, queue, typed, fg, mark, fed, told, byUser>>

-----------------------------------------------------------------------------
\* hub_terminal_read: command_finished, and the exit code of the mark's command.
ReadBack ==
    /\ step = "idle" /\ row # "closed"
    /\ told' = [n |-> IF mark \in log THEN mark ELSE 0, of |-> N]
    /\ told' # told
    /\ UNCHANGED <<row, caller, queue, shell, mark>>

Send == Look \/ SetMark \/ Post \/ Reply \/ SendTimesOut
Shell == UserTypes \/ ReadLine \/ Feed \/ FinishRun \/ Scroll

TerminalsNext == Send \/ ReadBack \/ Tick \/ Stray \/ Shell

TerminalsSpec == TerminalsInit /\ [][TerminalsNext]_terminalsVars

-----------------------------------------------------------------------------
(* Properties                                                              *)

\* Types; a mark is the number of a wrapped line.
TerminalsTypeOK ==
    /\ row \in {"open", "exited", "closed"} /\ step \in {"idle", "mark", "post", "wait"}
    /\ act \in {"track", "keep", "clear"} /\ N <= MaxSends
    /\ mark = 0 \/ Wrapped(mark)
    /\ \A n \in onScreen \cup log : Wrapped(n)
    /\ onScreen \cap log = {}

\* app_request "two sends from one instance must arrive in the order they were made",
\* each at most once, though calls time out and leave their requests behind.
SentInOrder == \A i, j \in DOMAIN applied : i < j => applied[i] < applied[j]

\* hub_terminal_send "appending `; printf ...` to it would feed the running program
\* nonsense": a command that is tracked never reads a wrapped line.
NoMarkerAsInput == \A p \in fed : ~(Wrapped(p[1]) /\ Wrapped(p[2]))

\* Lines sent after the command that the last read reported finished.
Later == {n \in (told.n + 1)..told.of : told.n # 0 /\ sent[n].kind \in {"line", "lines"}}

\* mark_action "a wrong answer rather than an error": no line was sent after the end of
\* the command whose exit code a read reports, unless the sender could not see the end.
ExitIsCurrent == \A n \in Later : sent[n].found \in {"running", "shown"}

\* What agents type into a terminal arrives in their order and no running program reads a
\* marker; an exit code they read is that of their last command (hub_terminal_send, _read).
TerminalsInv == TerminalsTypeOK /\ SentInOrder /\ NoMarkerAsInput /\ ExitIsCurrent
=============================================================================
