----------------------------- MODULE HubListener -----------------------------
(***************************************************************************)
(* The hub listeners of one instance slot (crates/mulpex-core/src/         *)
(* listen.rs): processes that print a line when mail arrives in inbox/<id>.*)
(*                                                                         *)
(* A listener outlives the claude that started it, and several may run for *)
(* one slot.  They agree through two small files: listeners/<id>, the pid  *)
(* of the one that serves, and pids/<id>, the claude of the slot.  One     *)
(* pass of the loop is several steps here, so that another listener, a     *)
(* restart of the row or the loss of the scratch directory may fall        *)
(* between what a pass reads and what it does about it.                    *)
(*                                                                         *)
(* Abstracted: the 1 s tick (a pass may take any time), the length of the  *)
(* 10 s grace (a listener that has seen the directory missing may give up  *)
(* while it is missing still), and the armed/<id> heartbeat, which no      *)
(* listener reads.  Process ids are not reused.                            *)
(***************************************************************************)
EXTENDS Naturals, FiniteSets

CONSTANTS
    Listener,   \* listener processes
    Claude,     \* claude processes of the slot, one after the other
    Arrivals,    \* messages that may wait in the inbox
    MaxPurges,  \* bound: how often the scratch directory is lost
    NoFile        \* no such file

ASSUME HubListenerAssumption ==
    /\ MaxPurges \in Nat /\ IsFiniteSet(Arrivals)
    /\ NoFile \notin Listener /\ NoFile \notin Claude

VARIABLES
    up,         \* the scratch directory exists
    purges,     \* how often it was lost
    lock,       \* listeners/<id>
    pids,       \* pids/<id>
    alive,      \* the claudes running
    born,       \* the claudes ever started
    inbox,      \* inbox/<id>
    pc,         \* where each listener is in its loop
    owner,      \* the claude it pinned when it started
    prev,       \* the unread count of its last pass
    missing     \* it has seen the directory missing since it last saw it

files == <<up, purges, lock, pids>>
slotRow   == <<alive, born>>
listenerVars  == <<files, slotRow, inbox, pc, owner, prev, missing>>

Waiting == {"look", "wait"}
Serving == {"serve", "retake", "check", "quit", "count"}
Running == Waiting \cup {"take"} \cup Serving

ListenerTypeOK ==
    /\ up \in BOOLEAN
    /\ purges \in 0..MaxPurges
    /\ lock \in Listener \cup {NoFile}
    /\ pids \in Claude \cup {NoFile}
    /\ alive \subseteq born /\ born \subseteq Claude
    /\ inbox \subseteq Arrivals
    /\ pc \in [Listener -> Running \cup {"unborn", "quitted", "gone", "killed"}]
    /\ owner \in [Listener -> Claude \cup {NoFile}]
    /\ prev \in [Listener -> 0..Cardinality(Arrivals)]
    /\ missing \in [Listener -> BOOLEAN]

ListenerInit ==
    /\ up = TRUE /\ purges = 0
    /\ lock = NoFile /\ pids = NoFile
    /\ alive = {} /\ born = {}
    /\ inbox = {}
    /\ pc = [l \in Listener |-> "unborn"]
    /\ owner = [l \in Listener |-> NoFile]
    /\ prev = [l \in Listener |-> 0]
    /\ missing = [l \in Listener |-> FALSE]

-----------------------------------------------------------------------------
Go(l, label) == pc' = [pc EXCEPT ![l] = label]

Unread == Cardinality(inbox)

\* kill(pid, 0) on the pid in the lock file.
LockAlive == lock \in Listener /\ pc[lock] \in Running

\* Mutant: whoever pids/<id> names now is taken for the owner (monorepo#4).
OwnerGone_ReadAfresh(l) == pids # NoFile /\ pids \notin alive

\* owner_is_gone: the pinned claude has died, or the slot is another's now.
OwnerGone(l) ==
    IF owner[l] = NoFile
    THEN pids # NoFile /\ pids \notin alive
    ELSE owner[l] \notin alive \/ pids \notin {NoFile, owner[l]}

\* fs::write(&w.lock, own pid), after create_dir_all.
WriteLock(l) == lock' = l /\ up' = TRUE /\ UNCHANGED <<purges, pids>>

-----------------------------------------------------------------------------
(* One listener.                                                           *)

\* A live claude's plugin monitor or Monitor tool starts a listener: it pins
\* the pid it finds and counts what is already there.
Start(l) ==
    /\ pc[l] = "unborn" /\ alive # {} /\ up
    /\ owner' = [owner EXCEPT ![l] = pids]
    /\ prev' = [prev EXCEPT ![l] = Unread]
    /\ Go(l, "look")
    /\ UNCHANGED <<files, slotRow, inbox, missing>>

\* DirWatch::check, while the directory is missing: wait out the grace, or exit.
DirMissing(l) ==
    /\ pc[l] \in {"look", "serve"} /\ ~up
    /\ missing' = [missing EXCEPT ![l] = TRUE]
    /\ IF missing[l] THEN Go(l, "gone") ELSE UNCHANGED pc
    /\ UNCHANGED <<files, slotRow, inbox, owner, prev>>

DirThere(l, label) ==
    /\ up /\ missing' = [missing EXCEPT ![l] = FALSE]
    /\ Go(l, label)
    /\ UNCHANGED <<files, slotRow, inbox, owner, prev>>

\* Mutant: the newcomer stands down (what listen.rs did until it waited).
LookHeld_StandsDown(l) == pc[l] = "look" /\ LockAlive /\ DirThere(l, "quitted")

\* claim, its read: a live listener is in the lock...
LookHeld(l) == pc[l] = "look" /\ LockAlive /\ DirThere(l, "wait")

\* ...or none is, and a later step writes it.
LookFree(l) == pc[l] = "look" /\ ~LockAlive /\ DirThere(l, "take")

Take(l) ==
    /\ pc[l] = "take"
    /\ WriteLock(l)
    /\ Go(l, "serve")
    /\ UNCHANGED <<slotRow, inbox, owner, prev, missing>>

WaitOn(l) ==
    /\ pc[l] = "wait" /\ ~OwnerGone(l)
    /\ prev' = [prev EXCEPT ![l] = Unread]
    /\ Go(l, "look")
    /\ UNCHANGED <<files, slotRow, inbox, owner, missing>>

WaitOver(l) ==
    /\ pc[l] = "wait" /\ OwnerGone(l)
    /\ Go(l, "quitted")
    /\ UNCHANGED <<files, slotRow, inbox, owner, prev, missing>>

\* The serving loop: take the lock again if it is gone...
ServeLocked(l) == pc[l] = "serve" /\ lock # NoFile /\ DirThere(l, "check")

ServeUnlocked(l) == pc[l] = "serve" /\ lock = NoFile /\ DirThere(l, "retake")

Retake(l) ==
    /\ pc[l] = "retake"
    /\ WriteLock(l)
    /\ Go(l, "check")
    /\ UNCHANGED <<slotRow, inbox, owner, prev, missing>>

\* ...stop if the claude is gone, removing only its own lock...
CheckGone(l) ==
    /\ pc[l] = "check" /\ OwnerGone(l)
    /\ Go(l, IF lock = l THEN "quit" ELSE "quitted")
    /\ UNCHANGED <<files, slotRow, inbox, owner, prev, missing>>

Quit(l) ==
    /\ pc[l] = "quit"
    /\ lock' = NoFile
    /\ Go(l, "quitted")
    /\ UNCHANGED <<up, purges, pids, slotRow, inbox, owner, prev, missing>>

CheckOn(l) ==
    /\ pc[l] = "check" /\ ~OwnerGone(l)
    /\ Go(l, "count")
    /\ UNCHANGED <<files, slotRow, inbox, owner, prev, missing>>

\* ...and announce what the count grew by, if it did; the heartbeat recreates
\* armed/ and with it the scratch directory.
Announce(l) ==
    /\ pc[l] = "count"
    /\ prev' = [prev EXCEPT ![l] = Unread]
    /\ up' = TRUE
    /\ Go(l, "serve")
    /\ UNCHANGED <<inbox, purges, lock, pids, slotRow, owner, missing>>

\* A Monitor expires, or the orphan reaper kills it.
KillListener(l) ==
    /\ pc[l] \in Running
    /\ Go(l, "killed")
    /\ UNCHANGED <<files, slotRow, inbox, owner, prev, missing>>

-----------------------------------------------------------------------------
(* The slot around it.                                                     *)

\* The row is spawned, or restarted in place: the old claude is killed first,
\* and the new one's pid published before it can start anything.
Spawn(c) ==
    /\ c \notin born
    /\ alive' = {c} /\ born' = born \cup {c}
    /\ pids' = c /\ up' = TRUE
    /\ UNCHANGED <<purges, lock, inbox, pc, owner, prev, missing>>

\* It dies, or the row is closed: nobody removes pids/<id> or listeners/<id>.
Die ==
    /\ alive # {}
    /\ alive' = {}
    /\ UNCHANGED <<files, born, inbox, pc, owner, prev, missing>>

\* A peer's message lands.
Arrive(m) ==
    /\ up /\ m \notin inbox
    /\ inbox' = inbox \cup {m}
    /\ UNCHANGED <<files, slotRow, pc, owner, prev, missing>>

\* The claude reads its inbox (hub_inbox).
Read ==
    /\ alive # {} /\ inbox # {}
    /\ inbox' = {}
    /\ UNCHANGED <<files, slotRow, pc, owner, prev, missing>>

\* The scratch root is removed under everybody, and made again.
Purge ==
    /\ up /\ purges < MaxPurges
    /\ up' = FALSE /\ purges' = purges + 1
    /\ lock' = NoFile /\ pids' = NoFile
    /\ inbox' = {}
    /\ UNCHANGED <<slotRow, pc, owner, prev, missing>>

Rebuild ==
    /\ ~up /\ up' = TRUE
    /\ UNCHANGED <<purges, lock, pids, slotRow, inbox, pc, owner, prev, missing>>

-----------------------------------------------------------------------------
Pass(l) ==
    \/ DirMissing(l) \/ LookHeld(l) \/ LookFree(l) \/ Take(l) \/ WaitOn(l) \/ WaitOver(l)
    \/ ServeLocked(l) \/ ServeUnlocked(l) \/ Retake(l) \/ CheckGone(l) \/ Quit(l)
    \/ CheckOn(l) \/ Announce(l)

Slot ==
    \/ Die \/ Read \/ Purge \/ Rebuild
    \/ \E c \in Claude : Spawn(c)
    \/ \E m \in Arrivals : Arrive(m)

ListenerNext == Slot \/ \E l \in Listener : Pass(l) \/ Start(l) \/ KillListener(l)

ListenerSpec == ListenerInit /\ [][ListenerNext]_listenerVars

\* A running listener keeps looping.  Nothing else has to happen.
ListenerFairSpec == ListenerSpec /\ \A l \in Listener : WF_listenerVars(Pass(l))

-----------------------------------------------------------------------------
(* Properties.                                                             *)

\* Nobody waits behind a listener that does not serve: the live process the lock
\* names is in its serving loop, through takeovers, restarts and rebuilds.
LockNamesServer == LockAlive => pc[lock] \in Serving

\* A listener leaves its claude only when that claude is gone ("the loser does
\* not exit", claim; Claude Code never restarts a plugin monitor), whatever
\* pids/<id> names meanwhile.
QuitsOnlyOrphaned ==
    \A l \in Listener : pc[l] = "quitted" => owner[l] \notin alive

\* An orphan ends by itself, though the row was restarted under the same id and
\* pids/<id> names a live claude again (owner_is_gone, monorepo#4).
OrphanStops ==
    \A l \in Listener, c \in Claude : []<>~(owner[l] = c /\ c \in born \ alive /\ pc[l] \in Running)

\* A listener that waits for the slot of a claude that lives gets it served: by
\* itself or another of that claude's, never only by an orphan.  The exception is
\* a listener that found no pids/<id> to pin, which a rebuilt directory leaves:
\* it serves on whoever dies.
WaiterIsServed ==
    \A l \in Listener, c \in Claude :
        []<>(pc[l] \in Waiting /\ owner[l] = c /\ c \in alive
                => \E k \in Listener : pc[k] \in Serving /\ owner[k] \in {c, NoFile})

\* The lock of a slot is held by one that serves it, and only an orphan gives up
\* (claim, owner_is_gone).
ListenerInv == ListenerTypeOK /\ LockNamesServer /\ QuitsOnlyOrphaned

\* The listener of a dead claude ends, and that of a living one gets its slot served.
ListenerLive == OrphanStops /\ WaiterIsServed
=============================================================================
