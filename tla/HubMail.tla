------------------------------- MODULE HubMail -------------------------------
(***************************************************************************)
(* Peer messages of the hub: the files inbox/<id>/<uuid>.json that one     *)
(* instance's MCP helper writes (mcp.rs, hub_send), another's takes        *)
(* (take_inbox) and the app bounces when the recipient is gone (state.rs,  *)
(* hub_snapshot, bounce_dead_inbox), while rows open, die, are closed,     *)
(* held for a save, restarted in place or handed to another agent.         *)
(*                                                                         *)
(* A helper reads who is live once and writes file by file afterwards; the *)
(* app lists a dead inbox, answers file by file and then removes it.  Row  *)
(* operations hold the workspace lock that a tick of the poll loop holds   *)
(* too, so they fall between ticks; processes die at any time.             *)
(*                                                                         *)
(* Abstracted: message bodies and labels; failed file operations; rows     *)
(* that die within the start grace (they stay as failed rows); the closing *)
(* of a whole project; a bounce notice is written in one step and is not   *)
(* itself followed.                                                        *)
(***************************************************************************)
EXTENDS Naturals

CONSTANTS
    Instance,       \* rows; numbers are never reused (next_id)
    Home,           \* the project of each
    Restored,       \* the rows the launch brings back
    MaxCalls,       \* bound: how often each calls hub_send
    MaxChanges,     \* bound: row operations and deaths in a behaviour
    None            \* no message

\* What the n-th call of an instance leaves for one recipient.
Message ==
    UNION {[from : {i}, to : Instance \ {i}, n : 1..MaxCalls[i]] : i \in Instance}

ASSUME HubMailAssumption ==
    /\ MaxCalls \in [Instance -> Nat] /\ MaxChanges \in Nat
    /\ Restored \subseteq Instance /\ None \notin Message

VARIABLES
    row,        \* Core.sessions and the saving marks, per row
    closing,    \* the rows whose death is final
    handed,     \* the rows that go on with another agent
    changes,    \* how much happened to rows
    list,       \* state_dir/instances, of all projects
    reg,        \* the instances the workspace registry names
    call,       \* the tool call each instance's helper is in
    file,       \* the message files
    sent, given, returned,  \* see Mailbox
    app         \* the tick of the poll loop

rows == <<row, closing, handed, list, changes>>
vars == <<rows, reg, call, file, sent, given, returned, app>>

Call == [tool : {"none", "send", "read"}, left : SUBSET Message,
         at : Message \cup {None}, got : SUBSET Message]

NoCall == [tool |-> "none", left |-> {}, at |-> None, got |-> {}]
Sending(L, m) == [tool |-> "send", left |-> L, at |-> m, got |-> {}]
Reading(L, G) == [tool |-> "read", left |-> L, at |-> None, got |-> G]

Resting == [at |-> "rest", left |-> {}, dead |-> {}, todo |-> {}]

TypeOK ==
    /\ row \in [Instance -> {"new", "up", "dead", "held", "gone"}]
    /\ closing \subseteq Instance
    /\ handed \subseteq Instance /\ changes \in 0..MaxChanges
    /\ list \subseteq Instance /\ reg \subseteq Instance
    /\ call \in [Instance -> Call]
    /\ file \in [Message -> {"none", "open", "full"}]
    /\ sent \subseteq Message /\ given \subseteq Message /\ returned \subseteq Message
    /\ app \in [at : {"rest", "reaped", "sweep", "bounce"}, left : SUBSET Instance,
                dead : SUBSET Instance, todo : SUBSET Message]

Init ==
    /\ row = [i \in Instance |-> IF i \in Restored THEN "up" ELSE "new"]
    /\ closing = {} /\ handed = {} /\ changes = 0
    /\ list = Restored /\ reg = {}
    /\ call = [i \in Instance |-> NoCall]
    /\ file = [m \in Message |-> "none"]
    /\ sent = {} /\ given = {} /\ returned = {}
    /\ app = Resting

-----------------------------------------------------------------------------
Inbox(i) == {m \in Message : m.to = i /\ file[m] # "none"}

\* Mutant: only the rows whose process runs.
LiveIn_Running(r) == {i \in Instance : r[i] = "up"}

\* live_instances: every session that is not held for a save (nor failed).
LiveIn(r) == {i \in Instance : r[i] \in {"up", "dead"}}

Live == LiveIn(row)

\* The lock on the workspace is free.
Unlocked == app.at = "rest"

Change(i, state) ==
    /\ changes < MaxChanges /\ changes' = changes + 1
    /\ row' = [row EXCEPT ![i] = state]

Publish(r) == list' = LiveIn(r)

\* The process group of i is gone, and what its helper had in memory with it.
Kill(i) == call' = [call EXCEPT ![i] = NoCall]

-----------------------------------------------------------------------------
(* Rows (Core, under the workspace lock).                                  *)

Open(i) ==
    /\ Unlocked /\ row[i] = "new"
    /\ Change(i, "up") /\ Publish(row')
    /\ UNCHANGED <<closing, handed, reg, call, file, sent, given, returned, app>>

\* The agent exits or crashes.
Exit(i) ==
    /\ row[i] = "up"
    /\ Change(i, "dead") /\ Kill(i)
    /\ UNCHANGED <<closing, handed, list, reg, file, sent, given, returned, app>>

\* The mark is what makes this death final; a held row loses its hold.
Close(i) ==
    /\ Unlocked /\ row[i] \in {"up", "dead", "held"}
    /\ closing' = closing \cup {i}
    /\ Change(i, "dead") /\ Kill(i)
    /\ UNCHANGED <<handed, list, reg, file, sent, given, returned, app>>

\* The row is held: out of the peer list, its agent killed.
BeginSave(i) ==
    /\ Unlocked /\ row[i] \in {"up", "dead"}
    /\ Change(i, "held") /\ Publish(row') /\ Kill(i)
    /\ UNCHANGED <<closing, handed, reg, file, sent, given, returned, app>>

\* restart_instance: a new process on the same row.
Restart(i) ==
    /\ Unlocked /\ row[i] \in {"up", "dead"}
    /\ Change(i, "up") /\ Publish(row') /\ Kill(i)
    /\ UNCHANGED <<closing, handed, reg, file, sent, given, returned, app>>

\* replace_with_agent: the handoff that held the row starts the other agent on it.
ReplaceWithAgent(i) ==
    /\ Unlocked /\ row[i] = "held"
    /\ handed' = handed \cup {i}
    /\ Change(i, "up") /\ Publish(row')
    /\ UNCHANGED <<closing, reg, call, file, sent, given, returned, app>>

-----------------------------------------------------------------------------
(* A helper (mcp.rs): one tool call at a time.                             *)

Idle(i) == row[i] = "up" /\ call[i].tool = "none"
UnchangedButCall == UNCHANGED <<rows, reg, sent, given, returned, app>>

\* Whom i takes for live: the peer list of its own project, the registry of others.
Reachable(i) == {r \in Instance \ {i} : IF Home[r] = Home[i] THEN r \in list ELSE r \in reg}

\* The n-th hub_send, to one, to a list or to all: every recipient is looked up
\* before the first file is written.
HubSend(i, R, n) ==
    /\ Idle(i) /\ R # {} /\ R \subseteq Reachable(i)
    /\ n \in 1..MaxCalls[i] /\ \A m \in sent : m.from = i => m.n < n
    /\ LET M == [from : {i}, to : R, n : {n}]
       IN  /\ sent' = sent \cup M
           /\ call' = [call EXCEPT ![i] = Sending(M, None)]
    /\ UNCHANGED <<rows, reg, file, given, returned, app>>

\* fs::write is two calls: create the file...
WriteOpen(i, m) ==
    /\ call[i].tool = "send" /\ call[i].at = None /\ m \in call[i].left
    /\ call' = [call EXCEPT ![i] = Sending(call[i].left \ {m}, m)]
    /\ file' = [file EXCEPT ![m] = "open"]
    /\ UnchangedButCall

\* ...and fill it, wherever it is by then.
WriteFull(i, m) ==
    /\ call[i].tool = "send" /\ call[i].at = m /\ m # None
    /\ call' = [call EXCEPT ![i] = IF @.left = {} THEN NoCall ELSE Sending(@.left, None)]
    /\ file' = [file EXCEPT ![m] = IF @ = "open" THEN "full" ELSE @]
    /\ UnchangedButCall

\* hub_inbox, take_inbox: list the directory, take file by file, hand over what
\* could be parsed.
ListInbox(i) ==
    /\ Idle(i) /\ Inbox(i) # {}
    /\ call' = [call EXCEPT ![i] = Reading(Inbox(i), {})]
    /\ UnchangedButCall /\ UNCHANGED file

\* Mutant: a file that was read stays.
TakeOne_Leaves(i, m) ==
    /\ call[i].tool = "read" /\ m \in call[i].left
    /\ call' = [call EXCEPT ![i] = Reading(@.left \ {m},
                                        IF file[m] = "full" THEN @.got \cup {m} ELSE @.got)]
    /\ UnchangedButCall /\ UNCHANGED file

TakeOne(i, m) ==
    /\ call[i].tool = "read" /\ m \in call[i].left
    /\ call' = [call EXCEPT ![i] = Reading(@.left \ {m},
                                        IF file[m] = "full" THEN @.got \cup {m} ELSE @.got)]
    /\ file' = [file EXCEPT ![m] = "none"]
    /\ UnchangedButCall

HandOver(i) ==
    /\ call[i].tool = "read" /\ call[i].left = {}
    /\ given' = given \cup call[i].got
    /\ Kill(i)
    /\ UNCHANGED <<rows, reg, file, sent, returned, app>>

-----------------------------------------------------------------------------
(* A tick of the poll loop (hub.rs), with the workspace locked.            *)

\* is_removable: no process, and not held unless it was closed.
Removable(i) == row[i] = "dead" \/ (row[i] = "held" /\ i \in closing)

\* reap_dead: the rows whose process is gone leave.
Reap ==
    /\ app.at = "rest"
    /\ row' = [i \in Instance |-> IF Removable(i) THEN "gone" ELSE row[i]]
    /\ closing' = {i \in closing : ~Removable(i)}
    /\ Publish(row')
    /\ app' = [app EXCEPT !.at = "reaped"]
    /\ UNCHANGED <<handed, changes, reg, call, file, sent, given, returned>>

UnchangedByTick == UNCHANGED <<rows, reg, call, sent, given>>

\* Mutant: the inboxes of the rows still in the list, not all that exist.
HubSnapshot_OfRows ==
    /\ app.at = "reaped"
    /\ app' = [app EXCEPT !.at = "sweep",
                          !.left = {i \in Instance \ Live : row[i] # "gone" /\ Inbox(i) # {}}]
    /\ UnchangedByTick /\ UNCHANGED <<file, returned>>

\* hub_snapshot: every inbox of a row that is not live is to be bounced.
HubSnapshot ==
    /\ app.at = "reaped"
    /\ app' = [app EXCEPT !.at = "sweep", !.left = {i \in Instance \ Live : Inbox(i) # {}}]
    /\ UnchangedByTick /\ UNCHANGED <<file, returned>>

\* bounce_dead_inbox lists the directory...
BounceList(i) ==
    /\ app.at = "sweep" /\ i \in app.left
    /\ app' = [app EXCEPT !.at = "bounce", !.left = @ \ {i}, !.dead = {i}, !.todo = Inbox(i)]
    /\ UnchangedByTick /\ UNCHANGED <<file, returned>>

\* The sender a notice can go to: live here, or known to the registry.
Returnable(m) == IF Home[m.from] = Home[m.to] THEN m.from \in Live ELSE m.from \in reg

\* ...answers each message it can read to a sender it can reach...
BounceOne(m) ==
    /\ app.at = "bounce" /\ m \in app.todo
    /\ app' = [app EXCEPT !.todo = @ \ {m}]
    /\ returned' = IF file[m] = "full" /\ Returnable(m) THEN returned \cup {m} ELSE returned
    /\ UnchangedByTick /\ UNCHANGED file

\* ...and removes the directory, whatever it holds by now.
BounceDone ==
    /\ app.at = "bounce" /\ app.todo = {}
    /\ file' = [m \in Message |-> IF m.to \in app.dead THEN "none" ELSE file[m]]
    /\ app' = [app EXCEPT !.at = "sweep", !.dead = {}]
    /\ UnchangedByTick /\ UNCHANGED returned

\* The lock is dropped, and the registry written from what the tick saw.
WriteRegistry ==
    /\ app.at = "sweep" /\ app.left = {}
    /\ reg' = Live /\ app' = Resting
    /\ UNCHANGED <<rows, call, file, sent, given, returned>>

-----------------------------------------------------------------------------
Row(i) ==
    \/ Open(i) \/ Exit(i) \/ Close(i) \/ BeginSave(i) \/ Restart(i) \/ ReplaceWithAgent(i)

Helper(i) ==
    \/ \E R \in SUBSET Instance, n \in 1..MaxCalls[i] : HubSend(i, R, n)
    \/ \E m \in Message : WriteOpen(i, m) \/ WriteFull(i, m) \/ TakeOne(i, m)
    \/ ListInbox(i) \/ HandOver(i)

Tick ==
    \/ Reap \/ HubSnapshot \/ BounceDone \/ WriteRegistry
    \/ \E i \in Instance : BounceList(i)
    \/ \E m \in Message : BounceOne(m)

Next == Tick \/ \E i \in Instance : Row(i) \/ Helper(i)

Spec == Init /\ [][Next]_vars

\* The poll loop runs for the life of the app.  Nothing else has to happen.
FairSpec == Spec /\ WF_vars(Tick)

-----------------------------------------------------------------------------
(* Properties.                                                             *)

\* The hub keeps the promise of Mailbox: whatever is taken, killed, bounced and
\* restarted meanwhile, no message its recipient was handed is reported to its
\* sender as not delivered, nor handed over after such a report.
Promise == INSTANCE Mailbox WITH sent <- sent, given <- given, returned <- returned
KeepsPromise == Promise!Spec

\* A dead row's inbox does not fill up: what lands there, also from a call that
\* looked its recipient up while it lived, goes with a later tick (hub_snapshot
\* bounces every inbox of a row that is not live, not only of the row just reaped).
DeadMailSettles ==
    \A m \in Message : []<>~(row[m.to] = "gone" /\ file[m] # "none")

\* "Bounce a closed instance's undelivered mail back to live senders": a message
\* that is whole before the tick comes is answered, unless its sender leaves or
\* the registry does not name it (yet).
UnreadIsReturned ==
    \A m \in Message :
        (row[m.to] = "gone" /\ file[m] = "full" /\ app.at = "rest")
            ~> \/ m \in returned
               \/ row[m.from] # "up"
               \/ Home[m.from] # Home[m.to] /\ m.from \notin reg

\* "Everything that identifies the row ... and its undelivered mail" is kept by a
\* restart (restart_instance): nothing is returned for a row that was at most
\* killed and restarted, at whatever moment of a tick it died.
RestartKeepsMail ==
    \A m \in returned : row[m.to] \in {"held", "gone"} \/ m.to \in closing \/ m.to \in handed

\* The mail of a row that keeps its number is not returned, whenever in a tick the row
\* died and was restarted (restart_instance, hub_snapshot).
MailInv == TypeOK /\ RestartKeepsMail

\* What waits for a row that is gone comes to an end: its inbox empties, and a sender
\* that can be told is told (bounce_dead_inbox).
MailLive == DeadMailSettles /\ UnreadIsReturned
=============================================================================
