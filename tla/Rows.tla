-------------------------------- MODULE Rows --------------------------------
(***************************************************************************)
(* The rows of one project (`Core`, state.rs): claudes, codexes and        *)
(* terminals, the conversation each one resumes, and what brings them back *)
(* after the app quits, crashes or restarts in place.                      *)
(*                                                                         *)
(* Three things hold a row, and they are never written together:           *)
(*   - the app's memory, changed under the workspace lock by the user's    *)
(*     operations and by the poll loop's passes (hub.rs), which run in     *)
(*     the order Reap, RefreshWorked, the reconcile steps, SyncManifest;   *)
(*   - the daemon's sessions, which survive the app, with the metadata     *)
(*     the app published for them, and the scratch dir's files, written    *)
(*     by each agent's hooks whenever it pleases;                          *)
(*   - the store, the worked-on conversations the next launch resumes.     *)
(*                                                                         *)
(* Abstracted: names, mute, parents, folding and the order of rows; what   *)
(* the status file says (it exists or not), and its being withdrawn by the *)
(* hook of a swallowed wake; a directory macOS withholds, except where an  *)
(* operation has already changed state when it is seen; rows of a live     *)
(* daemon that cannot be adopted.                                          *)
(***************************************************************************)
EXTENDS Naturals, FiniteSets

CONSTANTS
    MaxId,          \* bound: row numbers are 1 .. MaxId
    MaxLaunches,    \* bound: how often the app is opened
    MaxEvents,      \* bound: operations, switches, exits and accidents
    ClaudeConv,     \* conversations of claude (their uuids)
    CodexConv,      \* conversations of codex
    Shells,         \* whether the user opens terminals
    Empty           \* a session id that is not there yet

ASSUME RowsAssumption ==
    /\ MaxId \in Nat
    /\ MaxLaunches \in Nat
    /\ MaxEvents \in Nat
    /\ Empty \notin ClaudeConv \cup CodexConv
    /\ ClaudeConv \cap CodexConv = {}
    /\ Shells \in BOOLEAN

VARIABLES
    tick,       \* where the poll loop is, "down" while no app runs
    todo,       \* what a pass under way still has to handle
    torn,       \* history: an app died with its row manifest out of date
    launches,   \* how often the app was opened
    events,     \* how much happened to it
    sessions, worked, closing, saving, failed,    \* Core, by row number
    restored,   \* rows resumed less than RESTORE_GRACE ago
    young,      \* rows started less than EARLY_DEATH_GRACE ago
    sticky,     \* records kept although their session is gone
    nextId,
    kind, conv, \* a session's kind and session_id, published to the daemon
    alive,      \* sessions whose process runs
    lost,       \* sessions the daemon took along when it went
    on,         \* the conversation each process is writing to
    status,     \* rows with a status file: a prompt was submitted
    sid,        \* sessionid/<id>: the conversation the hook saw
    list,       \* the `instances` file: the peers
    manifest,   \* ADOPT_MANIFEST
    store,      \* the session store on disk
    talked,     \* conversations with a transcript
    root        \* whether the scratch root is the running daemon's

memory == <<sessions, worked, closing, saving, failed, restored, young,
            sticky, nextId>>
daemon == <<kind, conv, alive, lost, on, root>>
scratch == <<status, sid, list, manifest>>
rowsVars == <<tick, todo, torn, launches, events, memory, daemon, scratch, store, talked>>

Id == 1 .. MaxId
Conv == ClaudeConv \cup CodexConv
AgentKind == {"claude", "codex"}
Kind == AgentKind \cup {"shell"}
SessionRecord == [id : Id, conv : Conv]
AgentOf(c) == IF c \in CodexConv THEN "codex" ELSE "claude"
IsAgent(i) == kind[i] \in AgentKind
Convs(R) == {r.conv : r \in R}

RowsTypeOK ==
    /\ tick \in {"down", "restoring", "idle", "worked", "ids", "reconcile",
                 "changed", "manifest"}
    /\ todo \subseteq SessionRecord
    /\ torn \in BOOLEAN
    /\ launches \in 0 .. MaxLaunches /\ events \in 0 .. MaxEvents
    /\ sessions \subseteq Id /\ worked \subseteq Id /\ closing \subseteq Id
    /\ saving \subseteq Id /\ failed \subseteq Id /\ restored \subseteq Id
    /\ young \subseteq Id /\ alive \subseteq Id /\ lost \subseteq Id
    /\ sticky \subseteq SessionRecord
    /\ nextId \in 1 .. MaxId + 1
    /\ kind \in [Id -> Kind]
    /\ conv \in [Id -> Conv \cup {Empty}]
    /\ on \in [Id -> Conv \cup {Empty}]
    /\ sid \in [Id -> Conv \cup {Empty}]
    /\ status \subseteq Id /\ list \subseteq Id
    /\ manifest \subseteq [id : Id, conv : Conv \cup {Empty}, worked : BOOLEAN]
    /\ store \subseteq SessionRecord
    /\ talked \subseteq Conv
    /\ root \in BOOLEAN

RowsInit ==
    /\ tick = "down" /\ todo = {} /\ torn = FALSE /\ launches = 0 /\ events = 0
    /\ sessions = {} /\ worked = {} /\ closing = {} /\ saving = {}
    /\ failed = {} /\ restored = {} /\ young = {} /\ sticky = {} /\ nextId = 1
    /\ kind = [i \in Id |-> "shell"]
    /\ conv = [i \in Id |-> Empty] /\ on = [i \in Id |-> Empty]
    /\ alive = {} /\ lost = {} /\ root = FALSE
    /\ status = {} /\ sid = [i \in Id |-> Empty] /\ list = {} /\ manifest = {}
    /\ store = {} /\ talked = {}

-----------------------------------------------------------------------------
(* What the operations share.                                              *)

\* A uuid nothing remembers: `new_uuid`, or the id Codex mints.
Unused(c) ==
    /\ c \notin talked \cup Convs(store) \cup Convs(sticky) \cup Convs(todo)
    /\ \A i \in Id : c \notin {conv[i], on[i], sid[i]}
    /\ \A r \in manifest : r.conv # c

FreshId(k) == IF k = "codex" THEN {Empty} ELSE {c \in ClaudeConv : Unused(c)}

\* What `persist_sessions` writes for these rows.
Stored(S, W, cv, kept) ==
    LET live == {[id |-> i, conv |-> cv[i]] :
                   i \in {j \in S \cap W : IsAgent(j) /\ cv[j] # Empty}}
    IN  live \cup {r \in kept : r.conv \notin Convs(live)}

Rows == {[id |-> i, conv |-> conv[i], worked |-> i \in worked] : i \in sessions}

UserMayAct == tick = "idle"

Start(i, k, c) ==
    /\ kind' = [kind EXCEPT ![i] = k]
    /\ conv' = [conv EXCEPT ![i] = c]
    /\ on' = [on EXCEPT ![i] = c]
    /\ alive' = alive \cup {i}
    /\ lost' = lost \ {i}

\* `write_live_instances`: neither a failed row nor one held for a save.
Peers(S, kd, F, H) == {i \in S \ (F \cup H) : kd[i] \in AgentKind}

Stopped(S) ==
    /\ alive' = alive \ S
    /\ on' = [i \in Id |-> IF i \in S THEN Empty ELSE on[i]]

-----------------------------------------------------------------------------
(* The user's operations, and those the hub carries out for an agent       *)
(* between the first two passes of a tick.                                 *)

SpawnAgent(k) ==
    /\ tick \in {"idle", "worked"} /\ nextId <= MaxId
    /\ \E c \in FreshId(k) : Start(nextId, k, c)
    /\ sessions' = sessions \cup {nextId}
    /\ young' = young \cup {nextId}
    /\ nextId' = nextId + 1
    /\ list' = Peers(sessions', kind', failed, saving)
    /\ UNCHANGED <<tick, todo, torn, launches, worked, closing, saving, failed,
                   restored, sticky, root, status, sid, manifest, store, talked>>

SpawnTerminal ==
    /\ Shells /\ tick \in {"idle", "worked"} /\ nextId <= MaxId
    /\ Start(nextId, "shell", Empty)
    /\ sessions' = sessions \cup {nextId}
    /\ nextId' = nextId + 1
    /\ UNCHANGED <<tick, todo, torn, launches, worked, closing, saving, failed,
                   restored, young, sticky, root, scratch, store, talked>>

\* Load > Continue: resume a conversation no open row holds.
Continue(c) ==
    /\ UserMayAct /\ nextId <= MaxId /\ c \in talked
    /\ \A i \in sessions : IsAgent(i) => conv[i] # c
    /\ Start(nextId, AgentOf(c), c)
    /\ sessions' = sessions \cup {nextId}
    /\ young' = young \cup {nextId}
    /\ worked' = worked \cup {nextId}
    /\ restored' = restored \cup {nextId}
    /\ nextId' = nextId + 1
    /\ list' = Peers(sessions', kind', failed, saving)
    /\ UNCHANGED <<tick, todo, torn, launches, closing, saving, failed, sticky,
                   root, status, sid, manifest, store, talked>>

\* The row goes, and all that is kept of it, with the next Reap.
CloseRow(i) ==
    /\ tick \in {"idle", "worked"} /\ i \in sessions
    /\ closing' = closing \cup {i}
    /\ saving' = saving \ {i}
    /\ Stopped({i})
    /\ UNCHANGED <<tick, todo, torn, launches, sessions, worked, failed, restored,
                   young, sticky, nextId, kind, conv, lost, root, scratch, store,
                   talked>>

\* Save: the process goes for good and the row is held while its conversation is
\* written up.  (A status word that says `working` or `needs` refuses it.)
BeginSave(i) ==
    /\ UserMayAct /\ i \in (sessions \cap worked) \ saving
    /\ IsAgent(i) /\ conv[i] # Empty
    /\ saving' = saving \cup {i}
    /\ Stopped({i})
    /\ list' = Peers(sessions, kind, failed, saving')
    /\ UNCHANGED <<tick, todo, torn, launches, sessions, worked, closing, failed,
                   restored, young, sticky, nextId, kind, conv, lost, root, status,
                   sid, manifest, store, talked>>

SaveSucceeded(i) ==
    /\ UserMayAct /\ i \in saving
    /\ worked' = worked \ {i}
    /\ store' = Stored(sessions, worked', conv, sticky)
    /\ UNCHANGED <<tick, todo, torn, launches, sessions, closing, saving, failed,
                   restored, young, sticky, nextId, daemon, scratch, talked>>

\* `respawn`: the process is killed, then another started on the same row; the
\* row's marks are reset before the kill, so they hold if the start fails.
Respawn(i, k, c, resume, starts) ==
    /\ young' = young \cup {i}
    /\ restored' = IF resume THEN restored \cup {i} ELSE restored \ {i}
    /\ status' = status \ {i}
    /\ sid' = IF resume THEN sid ELSE [sid EXCEPT ![i] = Empty]
    /\ IF starts
       THEN /\ Start(i, k, c)
            /\ failed' = failed \ {i}
            /\ list' = Peers(sessions, kind', failed', saving')
       ELSE Stopped({i}) /\ UNCHANGED <<kind, conv, lost, failed, list>>

\* Restart in place: resumes the conversation if there is one to resume.
RestartRow(i) ==
    /\ UserMayAct /\ i \in sessions \ saving /\ IsAgent(i)
    /\ UNCHANGED saving
    /\ LET resume == conv[i] # Empty /\ i \in worked IN
       \E starts \in BOOLEAN :
         \E c \in IF resume THEN {conv[i]} ELSE FreshId(kind[i]) :
           Respawn(i, kind[i], c, resume, starts)
    /\ UNCHANGED <<tick, todo, torn, launches, sessions, worked, closing, sticky,
                   nextId, root, manifest, store, talked>>

\* A handoff that held the row puts the other agent on it; the directory may
\* turn out to be withheld after the hold was released.
Replace(i) ==
    /\ UserMayAct /\ i \in saving
    /\ saving' = saving \ {i}
    /\ worked' = worked \ {i}
    /\ LET other == IF kind[i] = "claude" THEN "codex" ELSE "claude" IN
       \/ /\ sid' = [sid EXCEPT ![i] = Empty]
          /\ UNCHANGED <<young, restored, status, kind, conv, on, alive, lost,
                         failed, list>>
       \/ \E starts \in BOOLEAN, c \in FreshId(other) :
            Respawn(i, other, c, FALSE, starts)
    /\ UNCHANGED <<tick, todo, torn, launches, sessions, closing, sticky, nextId,
                   root, manifest, store, talked>>

-----------------------------------------------------------------------------
(* One tick of the poll loop.  The lock is held throughout: only the       *)
(* agents' own hooks, and the end of the app, come between its passes.     *)

FailedToStart(i) == i \in failed \cup young

Removable(i) ==
    /\ i \notin alive
    /\ \/ i \in closing
       \/ IsAgent(i) /\ i \notin saving /\ ~FailedToStart(i)

NeedsFailureMark(i) ==
    /\ i \notin alive \cup closing \cup saving \cup failed
    /\ IsAgent(i) /\ FailedToStart(i)

\* Mutant: a session the daemon took along is an ordinary exit.
LostRestore_ExitOnly(i) ==
    i \notin closing /\ conv[i] # Empty /\ i \in restored /\ sid[i] = Empty

\* A resume that never came up, or a session the daemon took along.
LostRestore(i) ==
    /\ i \notin closing /\ conv[i] # Empty
    /\ \/ i \in restored /\ sid[i] = Empty
       \/ i \in lost \cap worked

Forget(S) ==
    /\ status' = status \ S
    /\ sid' = [i \in Id |-> IF i \in S THEN Empty ELSE sid[i]]

Reap ==
    /\ tick = "idle" /\ tick' = "worked"
    /\ LET removed == {i \in sessions : Removable(i)}
           marked == {i \in sessions : NeedsFailureMark(i)}
           kept == {[id |-> i, conv |-> conv[i]] : i \in {j \in removed : LostRestore(j)}}
       IN  IF removed \cup marked = {} THEN
             UNCHANGED <<memory, conv, lost, status, sid, list, store>>
           ELSE
             /\ sessions' = sessions \ removed
             /\ worked' = worked \cap sessions'
             /\ closing' = closing \cap sessions'
             /\ saving' = saving \cap sessions'
             /\ young' = young \cap sessions'
             /\ failed' = (failed \cup marked) \cap sessions'
             /\ sticky' = sticky \cup {r \in kept : r.conv \notin Convs(sticky)}
             /\ conv' = [i \in Id |-> IF i \in removed THEN Empty ELSE conv[i]]
             /\ lost' = lost \ removed
             /\ UNCHANGED <<restored, nextId>>
             /\ Forget(removed \cup marked)
             /\ store' = Stored(sessions', worked', conv, sticky')
             /\ list' = Peers(sessions', kind, failed', saving')
    /\ UNCHANGED <<todo, torn, launches, kind, alive, on, root, manifest, talked>>

RefreshWorked ==
    /\ tick = "worked" /\ tick' = "ids"
    /\ worked' = worked \cup (sessions \cap status)
    /\ store' = IF worked' = worked THEN store ELSE Stored(sessions, worked', conv, sticky)
    /\ UNCHANGED <<todo, torn, launches, sessions, closing, saving, failed, restored,
                   young, sticky, nextId, daemon, scratch, talked>>

\* `reconcile_session_ids`: what the hooks reported is read once ...
ReadReports ==
    /\ tick = "ids" /\ tick' = "reconcile"
    /\ todo' = {[id |-> i, conv |-> sid[i]] :
                  i \in {j \in sessions : IsAgent(j) /\ sid[j] \notin {Empty, conv[j]}}}
    /\ UNCHANGED <<torn, launches, memory, daemon, scratch, store, talked>>

\* Mutant: only the kept records are asked.
Taken_Sticky(r) == r.conv \in Convs(sticky)

\* ... and each report taken up, unless another row, or a record that is being
\* kept, has that conversation.
Taken(r) ==
    \/ \E j \in sessions \ {r.id} : IsAgent(j) /\ conv[j] = r.conv
    \/ r.conv \in Convs(sticky)

Reconcile(r) ==
    /\ tick \in {"reconcile", "changed"} /\ r \in todo
    /\ todo' = todo \ {r}
    /\ IF Taken(r) THEN UNCHANGED <<tick, conv>>
                   ELSE tick' = "changed" /\ conv' = [conv EXCEPT ![r.id] = r.conv]
    /\ UNCHANGED <<torn, launches, memory, kind, alive, lost, on, root, scratch,
                   store, talked>>

Reconciled ==
    /\ tick \in {"reconcile", "changed"} /\ todo = {} /\ tick' = "manifest"
    /\ store' = IF tick = "changed" THEN Stored(sessions, worked, conv, sticky) ELSE store
    /\ UNCHANGED <<todo, torn, launches, memory, daemon, scratch, talked>>

SyncManifest ==
    /\ tick = "manifest" /\ tick' = "idle"
    /\ manifest' = Rows
    /\ UNCHANGED <<todo, torn, launches, memory, daemon, status, sid, list, store,
                   talked>>

-----------------------------------------------------------------------------
(* The agents' processes, which run whether or not the app does, and time. *)

AppUnaware == UNCHANGED <<tick, todo, torn, launches, memory, list, manifest, store>>

\* A prompt is submitted: UserPromptSubmit writes the status file, and the
\* conversation has a transcript from here on; Codex mints its id only now.
Prompt(i) ==
    /\ i \in alive /\ IsAgent(i)
    /\ \E c \in IF on[i] # Empty THEN {on[i]} ELSE {d \in CodexConv : Unused(d)} :
         /\ on' = [on EXCEPT ![i] = c]
         /\ talked' = talked \cup {c}
    /\ status' = status \cup {i}
    /\ AppUnaware /\ UNCHANGED <<kind, conv, alive, lost, root, sid>>

\* SessionStart and Stop report the transcript the agent writes to, and so does
\* a Codex's UserPromptSubmit, after it wrote the status.
Report(i) ==
    /\ i \in alive /\ on[i] # Empty
    /\ sid' = [sid EXCEPT ![i] = on[i]]
    /\ AppUnaware /\ UNCHANGED <<daemon, status, talked>>

\* /clear or /resume inside the agent: it goes on in another conversation.
Switch(i, c) ==
    /\ i \in alive /\ IsAgent(i) /\ on[i] # Empty
    /\ c # on[i] /\ AgentOf(c) = kind[i] /\ (c \in talked \/ Unused(c))
    /\ on' = [on EXCEPT ![i] = c]
    /\ AppUnaware /\ UNCHANGED <<kind, conv, alive, lost, root, status, sid, talked>>

Exit(i) ==
    /\ i \in alive
    /\ Stopped({i})
    /\ AppUnaware /\ UNCHANGED <<kind, conv, lost, root, status, sid, talked>>

\* EARLY_DEATH_GRACE is over, and later RESTORE_GRACE.
Lapse(i) ==
    /\ \/ young' = young \ {i} /\ i \in young /\ UNCHANGED restored
       \/ restored' = restored \ {i} /\ i \in restored \ young /\ UNCHANGED young
    /\ UNCHANGED <<tick, todo, torn, launches, sessions, worked, closing, saving,
                   failed, sticky, nextId, daemon, scratch, store, talked>>

-----------------------------------------------------------------------------
(* The end of the app, and the next one.                                   *)

Gone ==
    /\ tick' = "down" /\ todo' = {}
    /\ sessions' = {} /\ worked' = {} /\ closing' = {} /\ saving' = {}
    /\ failed' = {} /\ restored' = {} /\ young' = {} /\ sticky' = {} /\ nextId' = 1
    /\ lost' = {}
    /\ conv' = [i \in Id |-> IF i \in alive' THEN conv[i] ELSE Empty]
    /\ UNCHANGED <<kind, launches, talked>>

\* Quit: everything is killed, the scratch root removed, the daemon shut down.
\* The store is left as it was.
Quit ==
    /\ UserMayAct /\ Stopped(alive) /\ Gone
    /\ status' = {} /\ sid' = [i \in Id |-> Empty] /\ list' = {} /\ manifest' = {}
    /\ root' = FALSE
    /\ UNCHANGED <<torn, store>>

\* An update: the app leaves its sessions to the daemon and the next app.
Detach ==
    /\ UserMayAct
    /\ store' = Stored(sessions, worked, conv, sticky)
    /\ manifest' = Rows
    /\ UNCHANGED <<alive, on>> /\ Gone
    /\ UNCHANGED <<torn, root, status, sid, list>>

\* The manifest shows a row on another conversation than it is on.
ManifestStale == \E r \in manifest : r.id \in sessions /\ r.conv \notin {Empty, conv[r.id]}

\* Killed, or crashed, anywhere in a pass.
Crash ==
    /\ tick # "down"
    /\ torn' = (torn \/ ManifestStale)
    /\ UNCHANGED <<alive, on>> /\ Gone
    /\ UNCHANGED <<root, scratch, store>>

\* The daemon dies with every session; another has a scratch root of its own.
DaemonDies ==
    /\ alive # {}
    /\ Stopped(alive)
    /\ lost' = IF tick = "down" THEN lost ELSE lost \cup alive
    /\ conv' = IF tick = "down" THEN [i \in Id |-> Empty] ELSE conv
    /\ root' = FALSE
    /\ UNCHANGED <<tick, todo, torn, launches, memory, kind, scratch, store, talked>>

\* `Core::open`: the sessions the daemon kept are taken over, as the manifest
\* last showed them ...
Adopted(i) == {r \in manifest : r.id = i /\ r.conv # Empty}

AdoptedConv(i) ==
    IF Adopted(i) # {} THEN (CHOOSE r \in Adopted(i) : TRUE).conv ELSE conv[i]

Launch ==
    /\ tick = "down" /\ launches < MaxLaunches /\ launches' = launches + 1
    /\ tick' = "restoring"
    /\ LET adopted == IF root THEN alive ELSE {} IN
       /\ sessions' = adopted
       /\ worked' = {i \in adopted : \E r \in manifest : r.id = i /\ r.worked}
       /\ conv' = [i \in Id |-> IF i \in adopted THEN AdoptedConv(i) ELSE Empty]
       /\ todo' = {r \in store : \A i \in adopted : IsAgent(i) => conv'[i] # r.conv}
       /\ Stopped(alive \ adopted)
    /\ IF root THEN UNCHANGED scratch
               ELSE /\ status' = {} /\ sid' = [i \in Id |-> Empty]
                    /\ list' = {} /\ manifest' = {}
    /\ root' = TRUE
    /\ UNCHANGED <<torn, closing, saving, failed, restored, young, sticky, nextId,
                   kind, lost, store, talked>>

\* ... then every conversation of the store that nobody runs is resumed, under
\* its number if that is free; a record that cannot be is kept ...
Used == sessions \cup {r.id : r \in sticky}

Resume(r) ==
    /\ tick = "restoring" /\ r \in todo
    /\ todo' = todo \ {r}
    /\ \E i \in Id \ Used :
       /\ i = r.id \/ (r.id \in Used /\ \A j \in 1 .. i - 1 : j \in Used)
       /\ \/ /\ Start(i, AgentOf(r.conv), r.conv)
             /\ sessions' = sessions \cup {i}
             /\ worked' = worked \cup {i}
             /\ restored' = restored \cup {i}
             /\ young' = young \cup {i}
             /\ UNCHANGED sticky
          \/ /\ sticky' = sticky \cup {[id |-> i, conv |-> r.conv]}
             /\ UNCHANGED <<sessions, worked, restored, young, kind, conv, alive,
                            lost, on>>
    /\ UNCHANGED <<tick, torn, launches, closing, saving, failed, nextId, root,
                   scratch, store, talked>>

\* ... and the store and the peer list are written anew.
Opened ==
    /\ tick = "restoring" /\ todo = {} /\ tick' = "idle"
    /\ \E n \in 1 .. MaxId + 1 :
         /\ nextId' = n
         /\ \A i \in Used : i < n
         /\ n = 1 \/ n - 1 \in Used
    /\ store' = Stored(sessions, worked, conv, sticky)
    /\ list' = Peers(sessions, kind, failed, saving)
    /\ UNCHANGED <<todo, torn, launches, sessions, worked, closing, saving, failed,
                   restored, young, sticky, daemon, status, sid, manifest, talked>>

-----------------------------------------------------------------------------
Operate ==
    \/ \E k \in AgentKind : SpawnAgent(k)
    \/ SpawnTerminal
    \/ \E c \in Conv : Continue(c)
    \/ \E i \in Id :
         \/ CloseRow(i) \/ BeginSave(i) \/ SaveSucceeded(i) \/ RestartRow(i) \/ Replace(i)
         \/ \E c \in Conv : Switch(i, c)

Accident == Crash \/ DaemonDies \/ \E i \in Id : Exit(i)

Poll ==
    /\ \/ Reap \/ RefreshWorked \/ ReadReports \/ Reconciled \/ SyncManifest
       \/ \E r \in todo : Reconcile(r)
    /\ UNCHANGED events

Restore == (Opened \/ \E r \in todo : Resume(r)) /\ UNCHANGED events

RowsNext ==
    \/ (Operate \/ Accident) /\ events < MaxEvents /\ events' = events + 1
    \/ Poll
    \/ Restore
    \/ (Launch \/ Quit \/ Detach) /\ UNCHANGED events
    \/ (\E i \in Id : Prompt(i) \/ Report(i) \/ Lapse(i)) /\ UNCHANGED events

\* The poll loop is a thread that never blocks for good, and an open finishes.
RowsSpec == RowsInit /\ [][RowsNext]_rowsVars /\ WF_rowsVars(Poll) /\ WF_rowsVars(Restore)

-----------------------------------------------------------------------------
(* Properties.                                                             *)

\* No two rows hold one conversation, and the store does not keep one twice:
\* two agents resuming one transcript corrupt it (state.rs 2974-2980).  Adopted
\* sessions are taken at the manifest's word, so an app that died with its
\* manifest out of date is excepted.
SingleHolder ==
    ~torn =>
      /\ \A i, j \in sessions :
           i # j /\ IsAgent(i) /\ IsAgent(j) /\ conv[i] # Empty => conv[i] # conv[j]
      /\ \A r, q \in store : r.conv = q.conv => r = q

\* The peers published to the agents never include a row that failed to start
\* or that a save holds: mail to it would never be read (state.rs 3288-3290).
PeersCanAnswer ==
    tick \notin {"down", "restoring"} =>
      list \cap (failed \cup saving) = {} /\ \A i \in list : i \in sessions /\ IsAgent(i)

\* A row left its conversation: the user closed it, saved it or handed it over,
\* it went on in another conversation, or its agent ended after it was up.
Left(i, c) ==
    \/ i \in closing \cup saving
    \/ conv[i] # c
    \/ i \notin worked
    \/ i \notin alive \cup young \cup lost /\ (i \in restored => sid[i] # Empty)

\* A conversation of the store leaves it only when the row it is recorded for
\* has left it: no failed resume, lost daemon, crash or relaunch erases it
\* (state.rs 2210-2239, 534-537).
KeptUntilLeft ==
    [][\A r \in store : r.conv \notin Convs(store') =>
         \E i \in sessions : Left(i, r.conv) /\ (conv[i] = r.conv \/ i = r.id)]_rowsVars

\* What is in the store belongs to somebody: an open row is on it, its resume
\* failed and it is kept, or its row was just handed to another agent.  So a
\* conversation the user closed does not come back (state.rs 2240-2241).
StoreHasAnOwner ==
    tick = "idle" =>
      \A r \in store :
        \/ \E i \in sessions : IsAgent(i) /\ conv[i] = r.conv
        \/ r.conv \in Convs(sticky)
        \/ r.id \in sessions \ worked

\* After a whole tick, what was worked on is in the store, so that whatever ends
\* the app, the next launch resumes it (state.rs 366-368, 857).
WorkedIsStored ==
    [][tick = "manifest" /\ tick' = "idle" =>
         \A i \in sessions \cap worked :
           IsAgent(i) /\ conv[i] # Empty /\ i \notin saving => conv[i] \in Convs(store)]_rowsVars

\* The rows that are open: no two of them hold one conversation, and the agents are told
\* of no row that could not read its mail (adopt, hub_snapshot).
RowsInv == RowsTypeOK /\ SingleHolder /\ PeersCanAnswer

\* The restore store keeps what was worked on until its row left it, and nothing that
\* belongs to nobody (persist_sessions, reap_exited).
StoreIsKept == []StoreHasAnOwner /\ KeptUntilLeft
=============================================================================
