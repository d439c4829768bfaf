------------------------------ MODULE PhoneNotes ------------------------------
(***************************************************************************)
(* The one notification a phone keeps: which claudes need the user and     *)
(* which have finished (remote/mod.rs). The poll loop compares one view    *)
(* with the last; the connection's thread says which phone is looking, and *)
(* its connection to the relay breaks and comes back.                      *)
(***************************************************************************)
EXTENDS Naturals, FiniteSets

CONSTANTS
    PhoneClaudes,     \* the claudes of the view
    Silent,      \* those that are muted, or spawned by another
    MaxNoteTurns,    \* bound: what the claudes do
    MaxBreaks,   \* bound: the connections to the relay that break
    MaxSwitches  \* bound: remote control turned off and on

ASSUME PhoneNotesAssumption ==
    Silent \subseteq PhoneClaudes /\ IsFiniteSet(PhoneClaudes) /\ {MaxNoteTurns, MaxBreaks, MaxSwitches} \subseteq Nat

VARIABLES
    words,      \* the status of each claude
    lastStatus, \* last_status: the statuses of the last view, or none yet
    unseen,     \* summary.unseen
    last,       \* summary.last
    seat,       \* the phone's session on the host: none, or what it watches and says
    phoneLinked,     \* the connection to the relay is up
    viewing,    \* the phone is in viewing
    eyes,       \* the phone has the app in front
    toldWords,       \* what the phone has been told, by push or by its own screen
    skipped,    \* what was not pushed because the phone was taken to be looking
    phoneSeen,       \* the finished claudes the phone has seen, until they work again
    noteTurns, breaks, switches
noteVars == <<words, lastStatus, unseen, last, seat, phoneLinked, viewing, eyes, toldWords, skipped, phoneSeen, noteTurns, breaks, switches>>

NoView == [c \in PhoneClaudes |-> "none"]
NoSeat == [open |-> FALSE, watch |-> FALSE, visible |-> FALSE]
NothingSaid == [needs |-> {}, done |-> {}]

NotesInit ==
    /\ words \in [PhoneClaudes -> {"working", "waiting", "needs"}]
    /\ lastStatus = NoView /\ unseen = {} /\ last = NothingSaid
    /\ seat = NoSeat /\ phoneLinked = TRUE /\ viewing = FALSE /\ eyes = FALSE
    /\ toldWords = NothingSaid /\ skipped = NothingSaid /\ phoneSeen = {}
    /\ noteTurns = 0 /\ breaks = 0 /\ switches = 0

-----------------------------------------------------------------------------
\* A claude ends its turn, asks its user, is answered or is typed to.
WordTurns(c) ==
    /\ noteTurns < MaxNoteTurns /\ noteTurns' = noteTurns + 1
    /\ \E w \in {"working", "waiting", "needs"} \ {words[c]} : words' = [words EXCEPT ![c] = w]
    /\ UNCHANGED <<lastStatus, unseen, last, seat, phoneLinked, viewing, eyes, toldWords, skipped, phoneSeen, breaks, switches>>

CountedRows == PhoneClaudes \ Silent
FirstView == lastStatus = NoView

NeedsNow == {c \in CountedRows : words[c] = "needs"}

\* Mutant: whatever waits has finished.
Finishes_Waits(c) == words[c] = "waiting"

Finishes(c) == lastStatus[c] = "working" /\ words[c] = "waiting"

StillDone(c) == c \in unseen /\ words[c] = "waiting"

DoneNow == {c \in CountedRows : Finishes(c) \/ StillDone(c)}

\* summary_for: nothing on the first view, and afterwards only what changed.
Summary == [needs |-> NeedsNow, done |-> DoneNow]

SummaryIsDue == ~FirstView /\ Summary # last /\ Summary # NothingSaid

\* What stays known of the claudes that are still on the list.
Still(s, n) == [needs |-> s.needs \cap n.needs, done |-> s.done \cap n.done]
Both(s, n) == [needs |-> s.needs \cup n.needs, done |-> s.done \cup n.done]

\* notify: not to a phone with a chat open in front.
TickSummary ==
    /\ words # lastStatus \/ (~FirstView /\ Summary # last)
    /\ lastStatus' = words
    /\ IF FirstView THEN unseen' = {} /\ UNCHANGED <<last, toldWords, skipped, phoneSeen>>
       ELSE /\ unseen' = DoneNow /\ last' = Summary
            /\ phoneSeen' = {c \in phoneSeen : words[c] = "waiting"}
            /\ toldWords' = IF SummaryIsDue /\ ~viewing THEN Summary ELSE IF eyes /\ seat.open THEN Summary ELSE Still(toldWords, Summary)
            /\ skipped' = IF SummaryIsDue /\ viewing THEN Summary
                          ELSE IF SummaryIsDue THEN NothingSaid ELSE Still(skipped, Summary)
    /\ UNCHANGED <<words, seat, phoneLinked, viewing, eyes, noteTurns, breaks, switches>>

-----------------------------------------------------------------------------
(* The phone. Its user opens a chat and puts it away; what it says reaches  *)
(* the host while both are connected.                                       *)

\* on_handshake and "hello": a session starts in front, watches nothing and gets the view.
PhoneConnects ==
    /\ phoneLinked /\ ~seat.open /\ seat' = [open |-> TRUE, watch |-> FALSE, visible |-> TRUE] /\ eyes' = TRUE
    /\ toldWords' = last
    /\ UNCHANGED <<words, lastStatus, unseen, last, phoneLinked, viewing, skipped, phoneSeen, noteTurns, breaks, switches>>
LooksAtChat ==
    /\ phoneLinked /\ seat.visible /\ ~seat.watch /\ seat' = [seat EXCEPT !.watch = TRUE]
    /\ UNCHANGED <<words, lastStatus, unseen, last, phoneLinked, viewing, eyes, toldWords, skipped, phoneSeen, noteTurns, breaks, switches>>
LeavesChat ==
    /\ phoneLinked /\ seat.watch /\ seat' = [seat EXCEPT !.watch = FALSE]
    /\ UNCHANGED <<words, lastStatus, unseen, last, phoneLinked, viewing, eyes, toldWords, skipped, phoneSeen, noteTurns, breaks, switches>>

\* "visible": put away, or back in front, which sees everything that is done.
PutAway ==
    /\ seat.visible /\ phoneLinked /\ seat' = [seat EXCEPT !.visible = FALSE] /\ eyes' = FALSE
    /\ UNCHANGED <<words, lastStatus, unseen, last, phoneLinked, viewing, toldWords, skipped, phoneSeen, noteTurns, breaks, switches>>
BackInFront ==
    /\ phoneLinked /\ seat.open /\ ~seat.visible /\ seat' = [seat EXCEPT !.visible = TRUE] /\ eyes' = TRUE
    /\ unseen' = {} /\ phoneSeen' = {c \in CountedRows : lastStatus[c] = "waiting"} /\ toldWords' = last
    /\ UNCHANGED <<words, lastStatus, last, phoneLinked, viewing, skipped, noteTurns, breaks, switches>>

\* The relay reports that the phone left.
PhoneLeaves ==
    /\ phoneLinked /\ seat.open /\ seat' = NoSeat /\ eyes' = FALSE
    /\ UNCHANGED <<words, lastStatus, unseen, last, phoneLinked, viewing, toldWords, skipped, phoneSeen, noteTurns, breaks, switches>>

\* The connection to the relay breaks: the sessions went with its Server. A phone that has
\* lost it may be put away.
RelayBreaks ==
    /\ phoneLinked /\ breaks < MaxBreaks /\ breaks' = breaks + 1
    /\ phoneLinked' = FALSE /\ seat' = NoSeat
    /\ UNCHANGED <<words, lastStatus, unseen, last, viewing, eyes, toldWords, skipped, phoneSeen, noteTurns, switches>>
PutAwayOffline ==
    /\ ~seat.open /\ eyes /\ eyes' = FALSE
    /\ UNCHANGED <<words, lastStatus, unseen, last, seat, phoneLinked, viewing, toldWords, skipped, phoneSeen, noteTurns, breaks, switches>>
RelayReturns ==
    /\ ~phoneLinked /\ phoneLinked' = TRUE
    /\ UNCHANGED <<words, lastStatus, unseen, last, seat, viewing, eyes, toldWords, skipped, phoneSeen, noteTurns, breaks, switches>>

Looking == seat.open /\ seat.watch /\ seat.visible

\* sync_viewing, in the loop of a connection that is up.
SyncViewing ==
    /\ phoneLinked /\ viewing # Looking /\ viewing' = Looking
    /\ UNCHANGED <<words, lastStatus, unseen, last, seat, phoneLinked, eyes, toldWords, skipped, phoneSeen, noteTurns, breaks, switches>>

\* set_enabled, off and on: what was said is forgotten, and who was looking is not.
Switched ==
    /\ switches < MaxSwitches /\ switches' = switches + 1
    /\ lastStatus' = NoView /\ unseen' = {} /\ last' = NothingSaid
    /\ seat' = NoSeat /\ phoneLinked' = FALSE
    /\ toldWords' = NothingSaid /\ skipped' = NothingSaid /\ phoneSeen' = {}
    /\ UNCHANGED <<words, viewing, eyes, noteTurns, breaks>>

NotesNext ==
    \/ \E c \in PhoneClaudes : WordTurns(c)
    \/ TickSummary \/ SyncViewing
    \/ PhoneConnects \/ LooksAtChat \/ LeavesChat \/ PutAway \/ BackInFront \/ PhoneLeaves
    \/ RelayBreaks \/ PutAwayOffline \/ RelayReturns \/ Switched

NotesSpec == NotesInit /\ [][NotesNext]_noteVars

\* The poll loop ticks, a connection loop passes and a broken connection is retried.
NotesFair == WF_noteVars(TickSummary) /\ WF_noteVars(SyncViewing) /\ WF_noteVars(RelayReturns)
NotesFairSpec == NotesSpec /\ NotesFair

-----------------------------------------------------------------------------
NotesTypeOK ==
    /\ \A c \in PhoneClaudes : words[c] \in {"working", "waiting", "needs"} /\ lastStatus[c] \in {"none", words[c], "working", "waiting", "needs"}
    /\ unseen \subseteq CountedRows /\ last.needs \cup last.done \subseteq CountedRows
    /\ seat.watch \/ seat.visible => seat.open
    /\ seat.open => phoneLinked

\* docs/remote-control.md "not yet seen - opening the app sees them": a finished claude that
\* the phone has seen is not announced again before it works again.
SeenIsNotRetold == phoneSeen \cap unseen = {}

\* mod.rs summary_for "so only a change sends again": whatever the summary counts as said has
\* reached the phone, or was kept from a phone that was taken to be looking.
SaidWasTold ==
    /\ last.needs \subseteq toldWords.needs \cup skipped.needs
    /\ last.done \subseteq toldWords.done \cup skipped.done

\* A claude that keeps needing its user stays on the list in the end.
NeedsAreListed == \A c \in CountedRows : <>[](words[c] = "needs") => <>[](c \in last.needs)

\* The phone is told once of what it has not seen, and what counts as told was (remote/mod.rs,
\* summary_for).
NotesInv == NotesTypeOK /\ SeenIsNotRetold /\ SaidWasTold
=============================================================================
