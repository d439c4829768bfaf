------------------------------- MODULE PhoneAsk -------------------------------
(***************************************************************************)
(* What a phone asks of one claude: to answer its open dialog, or to be    *)
(* typed a message (remote/mod.rs, remote/dialog.rs, hook.rs, and the      *)
(* desktop's remoteKeys and remoteType). The host turns an answer into     *)
(* keys against the dialog on disk, the desktop plays them, and the reply  *)
(* goes to the session that asked.                                         *)
(***************************************************************************)
EXTENDS Naturals, FiniteSets

CONSTANTS
    MaxDialogs, \* bound: the dialogs the claude opens
    MaxAsked,   \* bound: what the phone asks
    MaxCuts     \* bound: the sessions of the phone that end

ASSUME PhoneAskAssumption == {MaxDialogs, MaxAsked, MaxCuts} \subseteq Nat

VARIABLES
    shape,   \* dialog |-> the kind of it and the keys it takes
    openDialog,  \* the dialogs so far
    hook,    \* what the PreToolUse hook has done
    file,    \* dialog/<id>.json: the dialog it holds, or 0
    word,    \* the status file
    screen,  \* the dialog on claude's screen, or 0
    deskWord, card, \* the status the desktop has, and the dialog the phone shows
    session, \* cid of the phone's session, or 0
    cids,    \* the sessions so far
    req,     \* the phone's request and where it is
    pending, \* rid |-> the session that asked
    outbox,  \* the reply that waits for the connection, and for which session
    heard,   \* what the phone was told, and in which session it had asked
    played,  \* the keys that reached a dialog: <<the dialog meant, the dialog hit>>
    askedByPhone, cuts
askVars == <<shape, openDialog, hook, file, word, screen, deskWord, card, session, cids, req, pending, outbox, heard, played, askedByPhone, cuts>>

Dialogs == 1 .. MaxDialogs
Shapes == {"plan", "ask"}
NoReq == [kind |-> "none", at |-> "idle", for |-> 0, by |-> 0, left |-> 0]
NoDialogAnswer == [cid |-> 0, ok |-> FALSE]
Unheard == [by |-> 0, in |-> 0, ok |-> FALSE, left |-> 0]

AskInit ==
    /\ shape \in [Dialogs -> Shapes]
    /\ openDialog = 0 /\ hook = "idle" /\ file = 0 /\ word = "working" /\ screen = 0
    /\ deskWord = "working" /\ card = 0
    /\ session = 0 /\ cids = 0 /\ req = NoReq /\ pending = 0 /\ outbox = NoDialogAnswer /\ heard = Unheard
    /\ played = {} /\ askedByPhone = 0 /\ cuts = 0

claude == <<shape, openDialog, hook, file, word, screen>>
phone == <<session, cids, req, pending, outbox, heard, askedByPhone, cuts>>

-----------------------------------------------------------------------------
(* The claude and its hooks.                                                *)

\* askq and plan: write_dialog, then write_needs, and then the dialog opens.
HookWrites(d) ==
    \/ hook = "idle" /\ hook' = "wrote" /\ file' = d /\ UNCHANGED <<word, screen>>
    \/ hook = "wrote" /\ hook' = "idle" /\ word' = "needs" /\ screen' = d /\ UNCHANGED file

ClaudeAsks ==
    /\ screen = 0 /\ (hook = "wrote" \/ (word = "working" /\ openDialog < MaxDialogs))
    /\ openDialog' = IF hook = "idle" THEN openDialog + 1 ELSE openDialog
    /\ HookWrites(openDialog')
    /\ UNCHANGED <<shape, deskWord, card, phone, played>>

\* The user answers at the desktop, and the tool's PostToolUse says working.
UserAnswers ==
    /\ screen # 0 /\ screen' = 0 /\ word' = "working"
    /\ UNCHANGED <<shape, openDialog, hook, file, deskWord, card, phone, played>>

\* Esc on a dialog fires no hook; clear_escaped_dialogs finds it in the transcript.
UserEscapes ==
    /\ screen # 0 /\ screen' = 0
    /\ UNCHANGED <<shape, openDialog, hook, file, word, deskWord, card, phone, played>>
TickClears ==
    /\ word = "needs" /\ screen = 0 /\ hook = "idle" /\ word' = "waiting"
    /\ UNCHANGED <<shape, openDialog, hook, file, screen, deskWord, card, phone, played>>

\* What the desktop and the phone see. project_view carries the dialog while it needs.
TickShows ==
    /\ deskWord' = word
    /\ card' = IF session = 0 THEN card ELSE IF word = "needs" THEN file ELSE 0
    /\ <<deskWord', card'>> # <<deskWord, card>>
    /\ UNCHANGED <<claude, phone, played>>

-----------------------------------------------------------------------------
(* The phone.                                                               *)

SessionStarts ==
    /\ session = 0 /\ cids <= MaxCuts /\ cids' = cids + 1 /\ session' = cids + 1
    /\ UNCHANGED <<claude, deskWord, card, req, pending, outbox, heard, askedByPhone, cuts, played>>
SessionEnds ==
    /\ session # 0 /\ cuts < MaxCuts /\ cuts' = cuts + 1 /\ session' = 0
    /\ UNCHANGED <<claude, deskWord, card, cids, req, pending, outbox, heard, askedByPhone, played>>

PhoneAsks(k) ==
    /\ session # 0 /\ req = NoReq /\ askedByPhone < MaxAsked /\ askedByPhone' = askedByPhone + 1
    /\ k = "answer" => card # 0
    /\ req' = [kind |-> k, at |-> "sent", for |-> IF k = "answer" THEN card ELSE 0, by |-> session, left |-> 0]
    /\ heard' = Unheard
    /\ UNCHANGED <<claude, deskWord, card, session, cids, pending, outbox, cuts, played>>

Answered(c, ok) == outbox' = [cid |-> c, ok |-> ok] /\ pending' = 0

\* on_answer: the keys fit the dialog on disk as it is now. A frame of a session that is
\* gone is never opened.
Fits(d) == file # 0 /\ shape[file] = shape[d]
HostAnswers ==
    /\ req.kind = "answer" /\ req.at = "sent"
    /\ IF session # req.by THEN req' = NoReq /\ UNCHANGED <<pending, outbox>>
       ELSE IF ~Fits(req.for) THEN req' = [req EXCEPT !.at = "told"] /\ Answered(session, FALSE)
       ELSE /\ req' = [req EXCEPT !.at = "desk", !.left = IF shape[file] = "plan" THEN 1 ELSE 2]
            /\ pending' = req.by /\ UNCHANGED outbox
    /\ UNCHANGED <<claude, deskWord, card, session, cids, heard, askedByPhone, cuts, played>>

\* remoteKeys: only while the claude waits on something, and then key by key.
DeskStarts ==
    /\ req.kind = "answer" /\ req.at = "desk"
    /\ IF deskWord = "needs" THEN req' = [req EXCEPT !.at = "play"] /\ UNCHANGED <<pending, outbox>>
       ELSE req' = [req EXCEPT !.at = "told"] /\ Answered(pending, FALSE)
    /\ UNCHANGED <<claude, deskWord, card, session, cids, heard, askedByPhone, cuts, played>>

LastKey == req.left = 1

\* A key reaches what is on the screen; the last one that a dialog takes answers it.
DeskPlays ==
    /\ req.at = "play" /\ req.left > 0
    /\ IF screen = 0 THEN UNCHANGED <<played, screen, word>>
       ELSE /\ played' = played \cup {<<req.for, screen>>}
            /\ IF req.left = 1 THEN screen' = 0 /\ word' = "working" ELSE UNCHANGED <<screen, word>>
    /\ req' = [req EXCEPT !.left = @ - 1, !.at = IF LastKey THEN "told" ELSE "play"]
    /\ IF LastKey THEN Answered(pending, TRUE) ELSE UNCHANGED <<pending, outbox>>
    /\ UNCHANGED <<shape, openDialog, hook, file, deskWord, card, session, cids, heard, askedByPhone, cuts>>

\* on_type and remoteType: never into an open dialog. A long message is put in a file first.
HostTypes ==
    /\ req.kind = "type" /\ req.at = "sent"
    /\ IF session # req.by THEN req' = NoReq /\ UNCHANGED pending
       ELSE req' = [req EXCEPT !.at = "desk"] /\ pending' = req.by
    /\ UNCHANGED <<claude, deskWord, card, session, cids, outbox, heard, askedByPhone, cuts, played>>

MayType == deskWord # "needs" /\ screen = 0

DeskTypes ==
    /\ req.kind = "type" /\ req.at = "desk"
    /\ req' = [req EXCEPT !.at = "told"] /\ Answered(pending, MayType)
    /\ word' = IF MayType /\ word = "waiting" THEN "working" ELSE word
    /\ played' = IF MayType /\ screen # 0 THEN played \cup {<<0, screen>>} ELSE played
    /\ UNCHANGED <<shape, openDialog, hook, file, screen, deskWord, card, session, cids, heard, askedByPhone, cuts>>

\* Mutant: a reply goes to the phone's session, whichever it is.
ForThem_Any(c) == session # 0

ForThem(c) == session = c

\* serve: the outbox, to the session it is for, if that is still there.
ServeReplies ==
    /\ outbox # NoDialogAnswer /\ outbox' = NoDialogAnswer
    /\ heard' = IF ForThem(outbox.cid) THEN [by |-> req.by, in |-> session, ok |-> outbox.ok, left |-> req.left] ELSE heard
    /\ req' = IF req.at = "told" THEN NoReq ELSE req
    /\ UNCHANGED <<claude, deskWord, card, session, cids, pending, askedByPhone, cuts, played>>

AskNext ==
    \/ ClaudeAsks \/ UserAnswers \/ UserEscapes \/ TickClears \/ TickShows
    \/ SessionStarts \/ SessionEnds \/ \E k \in {"answer", "type"} : PhoneAsks(k)
    \/ HostAnswers \/ DeskStarts \/ DeskPlays \/ HostTypes \/ DeskTypes \/ ServeReplies

AskSpec == AskInit /\ [][AskNext]_askVars

-----------------------------------------------------------------------------
AskTypeOK ==
    /\ openDialog \in 0 .. MaxDialogs /\ {file, screen, card} \subseteq 0 .. openDialog
    /\ word \in {"working", "waiting", "needs"} /\ deskWord \in {"working", "waiting", "needs"}
    /\ session \in 0 .. cids /\ req.left \in 0 .. 2

\* hook.rs write_dialog "Written before needs, so a reader that sees needs finds the dialog
\* it belongs to": a dialog on the screen is the one on disk, and whoever reads needs finds
\* the newest.
NeedsHasItsDialog ==
    /\ screen # 0 => word = "needs" /\ file = screen
    /\ word = "needs" => file = openDialog

\* mod.rs reply "queue it for the phone that asked": a phone that is told how its request
\* ended is told in the session it asked in, and ok says that every key was played.
RepliesComeHome ==
    heard # Unheard => heard.by = heard.in /\ (heard.ok => heard.left = 0)

\* App.svelte remoteType "never onto a draft or into an open dialog".
NothingIsTypedIn == \A p \in played : p[1] # 0

\* A phone that answers a dialog: needs is never shown without its dialog, the reply goes to
\* the session that asked, and no prompt is typed into a dialog (write_dialog, remote/mod.rs).
AskInv == AskTypeOK /\ NeedsHasItsDialog /\ RepliesComeHome /\ NothingIsTypedIn
=============================================================================
