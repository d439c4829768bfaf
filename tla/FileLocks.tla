------------------------------ MODULE FileLocks ------------------------------
(***************************************************************************)
(* The per-file semaphore of crates/mulpex-core/src/hook.rs.               *)
(*                                                                         *)
(* Every claude or codex instance runs a hook process before each edit,    *)
(* patch and read, and one at the end of its turn.  The hooks share        *)
(* nothing but plain files: locks/<key> (one per source file, created with *)
(* O_EXCL), waiting/<id> and the status file.  A step of this module is    *)
(* one operation on those files, so every interleaving of two hooks' file  *)
(* operations is a behaviour.                                              *)
(*                                                                         *)
(* Abstracted: a lock key is a number (keys are compared and sorted, never *)
(* read); the age of a token is whether 30 s (LOCK_IDLE) have passed since *)
(* it was written; the 240 s budget (LOCK_WAIT) is a flag that turns on.   *)
(***************************************************************************)
EXTENDS Naturals

CONSTANTS
    Instance,   \* ids of the agent rows of one project
    Codex,      \* the codexes among them: they edit with apply_patch only
    NFiles,     \* files of the project, as lock keys 1..NFiles in sort order
    DirFails,   \* whether create_new may fail other than by AlreadyExists
    Absent,     \* there is no such file
    Blank       \* the lock file exists and holds no token (yet)

ASSUME FileLocksAssumption ==
    /\ Codex \subseteq Instance
    /\ NFiles \in Nat \ {0}
    /\ DirFails \in BOOLEAN
    /\ Absent \notin Instance /\ Blank \notin Instance /\ Absent # Blank

File == 1..NFiles

VARIABLES
    lock,       \* locks/<key>: Absent, Blank, or the instance its token names
    hot,        \* files whose token was written less than LOCK_IDLE ago
    waiting,    \* instances with a waiting/<id> marker
    pc,         \* where instance p's turn, or the hook it runs, stands
    g,          \* the local state of that hook
    orphan,     \* instances whose open lock file has been unlinked since
    reap        \* the dead token the app's poll loop is about to remove

vars == <<lock, hot, waiting, pc, g, orphan, reap>>

\* A hook's locals: the files it was asked for, those its loop has still to
\* visit and the one it is at, `already_ours` (TRUE for an edit, which never
\* gives a lock back), `taken`, whether the deadline has passed, and `marked`.
Guard == [targets : SUBSET File, todo : SUBSET File, at : File, mine : BOOLEAN,
          taken : SUBSET File, late : BOOLEAN, marked : BOOLEAN]

NoGuard == [targets |-> {}, todo |-> {}, at |-> 1, mine |-> TRUE,
            taken |-> {}, late |-> FALSE, marked |-> FALSE]

Acquiring == {"own", "open", "write", "owner", "beat", "stale", "remove"}
Hooking   == Acquiring \cup {"record", "peek", "give", "giverm", "release", "relrm"}

TypeOK ==
    /\ lock    \in [File -> Instance \cup {Absent, Blank}]
    /\ hot     \subseteq File
    /\ waiting \subseteq Instance
    /\ pc      \in [Instance -> Hooking \cup {"boot", "turn", "ask", "out", "gone"}]
    /\ g       \in [Instance -> Guard]
    /\ orphan  \subseteq Instance
    /\ reap    \in File \cup {Absent}

Init ==
    /\ lock    = [f \in File |-> Absent]
    /\ hot     = {}
    /\ waiting = {}
    /\ pc      = [p \in Instance |-> "boot"]
    /\ g       = [p \in Instance |-> NoGuard]
    /\ orphan  = {}
    /\ reap    = Absent

-----------------------------------------------------------------------------
(* What the hooks read, and the ways they change a file.                   *)

\* The lock p's loop is at.
LockOf(p) == lock[g[p].at]

\* An instance with an open question or plan has status `needs`.
Asking(p) == pc[p] = "ask"

\* lock_is_stale: no token to date, or one its holder has not touched lately.
Stale(f) == lock[f] \in {Absent, Blank} \/ f \notin hot

\* Mutant: targets in the order the patch names them.
FirstOf_Unsorted(f, S) == f \in S

\* The order a patch visits its targets in: `targets.sort()`.
FirstOf(f, S) == f \in S /\ \A h \in S : f <= h

Go(p, label) == pc' = [pc EXCEPT ![p] = label]

\* The hook process ends and the turn goes on.
Return(p) == Go(p, "turn") /\ g' = [g EXCEPT ![p] = NoGuard]

\* Create or truncate the lock file; p now has the file the path names open.
OpenBlank(p) ==
    /\ lock' = [lock EXCEPT ![g[p].at] = Blank]
    /\ hot' = hot \ {g[p].at}
    /\ orphan' = orphan \ {p}

\* Remove f.  Whoever has it open goes on writing to a file nobody will read.
Unlink(f) ==
    /\ lock' = [lock EXCEPT ![f] = Absent]
    /\ hot' = hot \ {f}
    /\ orphan' = orphan \cup {q \in Instance : pc[q] = "write" /\ g[q].at = f}

\* clear_waiting, on every way out of a loop that wrote the marker.
ClearMark(p) == waiting' = IF g[p].marked THEN waiting \ {p} ELSE waiting

-----------------------------------------------------------------------------
(* Starting a guard (pretooluse).                                          *)

\* A guard that is to lock T, and starts at f.
Asked(T, f) == [NoGuard EXCEPT !.targets = T, !.todo = T, !.at = f]

StartEdit(p) ==
    /\ pc[p] = "turn" /\ p \notin Codex
    /\ \E f \in File : g' = [g EXCEPT ![p] = Asked({f}, f)]
    /\ Go(p, "open")
    /\ UNCHANGED <<lock, hot, waiting, orphan, reap>>

StartPatch(p) ==
    /\ pc[p] = "turn" /\ p \in Codex
    /\ \E T \in SUBSET File, f \in File :
          FirstOf(f, T) /\ g' = [g EXCEPT ![p] = Asked(T, f)]
    /\ Go(p, "own")
    /\ UNCHANGED <<lock, hot, waiting, orphan, reap>>

StartRead(p) ==
    /\ pc[p] = "turn" /\ p \notin Codex
    /\ \E f \in File : g' = [g EXCEPT ![p] = Asked({}, f)]
    /\ Go(p, "peek")
    /\ UNCHANGED <<lock, hot, waiting, orphan, reap>>

-----------------------------------------------------------------------------
(* acquire_or_wait_until, and what its callers do with the answer.         *)

\* Acquired, with targets left: on to the next one.
AcquireNext(p) ==
    LET rest == g[p].todo \ {g[p].at}
    IN  /\ \E f \in rest :
              /\ FirstOf(f, rest)
              /\ g' = [g EXCEPT ![p].todo = rest, ![p].at = f, ![p].marked = FALSE,
                                ![p].taken = IF g[p].mine THEN @ ELSE @ \cup {g[p].at}]
        /\ Go(p, "own")

\* Acquired, and it was the last: what is left is to record the edit.
AcquireLast(p) ==
    /\ g[p].todo = {g[p].at}
    /\ g' = [g EXCEPT ![p].todo = {}, ![p].marked = FALSE]
    /\ Go(p, "record")

Acquire(p) == /\ ClearMark(p)
              /\ AcquireNext(p) \/ AcquireLast(p)
              /\ UNCHANGED reap

\* The history is written (EditAwareness) and the edit let through.
Record(p) ==
    /\ pc[p] = "record"
    /\ Return(p)
    /\ UNCHANGED <<lock, hot, waiting, orphan, reap>>

\* patch_guard: is this target's lock already ours?
ReadOwn(p) ==
    /\ pc[p] = "own"
    /\ g' = [g EXCEPT ![p].mine = (LockOf(p) = p)]
    /\ Go(p, "open")
    /\ UNCHANGED <<lock, hot, waiting, orphan, reap>>

\* create_new succeeds: the file is ours, but says nothing yet.
Create(p) ==
    /\ pc[p] = "open" /\ LockOf(p) = Absent
    /\ OpenBlank(p)
    /\ Go(p, "write")
    /\ UNCHANGED <<waiting, g, reap>>

CreateExists(p) ==
    /\ pc[p] = "open" /\ LockOf(p) # Absent
    /\ Go(p, "owner")
    /\ UNCHANGED <<lock, hot, waiting, g, orphan, reap>>

\* Any other error (the scratch directory was purged): fail open.
CreateFails(p) ==
    /\ DirFails /\ pc[p] = "open"
    /\ Acquire(p)
    /\ UNCHANGED <<lock, hot, orphan>>

\* Write the token into the file that was opened, linked or not.
WriteToken(p) ==
    /\ pc[p] = "write"
    /\ IF p \in orphan
       THEN UNCHANGED <<lock, hot>>
       ELSE lock' = [lock EXCEPT ![g[p].at] = p] /\ hot' = hot \cup {g[p].at}
    /\ orphan' = orphan \ {p}
    /\ Acquire(p)

\* The token is ours: heartbeat it (fs::write truncates first).
OwnerMine(p) ==
    /\ pc[p] = "owner" /\ LockOf(p) = p
    /\ Go(p, "beat")
    /\ UNCHANGED <<lock, hot, waiting, g, orphan, reap>>

Beat(p) ==
    /\ pc[p] = "beat"
    /\ OpenBlank(p)
    /\ Go(p, "write")
    /\ UNCHANGED <<waiting, g, reap>>

\* No owner to read: "take it", leaving the file as it is.
OwnerStray(p) ==
    /\ pc[p] = "owner" /\ LockOf(p) \in {Absent, Blank}
    /\ Acquire(p)
    /\ UNCHANGED <<lock, hot, orphan>>

HeldByOther(p) == LockOf(p) \in Instance \ {p}

\* Mutant: a waiter gives up on the user only, never on the clock.
GivesUp_NoDeadline(p) == Asking(LockOf(p))

\* When a waiter stops waiting: out of budget, or the holder waits for the user.
GivesUp(p) == g[p].late \/ Asking(LockOf(p))

\* Mutant: a contended patch keeps the locks it got.
OwnerContended_KeepsTaken(p) ==
    /\ pc[p] = "owner" /\ HeldByOther(p) /\ GivesUp(p)
    /\ ClearMark(p)
    /\ g' = [g EXCEPT ![p].todo = {}, ![p].marked = FALSE]
    /\ Go(p, "give")
    /\ UNCHANGED <<lock, hot, orphan, reap>>

\* Contended: give back what this call took, then let the edit through.
OwnerContended(p) ==
    /\ pc[p] = "owner" /\ HeldByOther(p) /\ GivesUp(p)
    /\ ClearMark(p)
    /\ g' = [g EXCEPT ![p].todo = g[p].taken, ![p].marked = FALSE]
    /\ Go(p, "give")
    /\ UNCHANGED <<lock, hot, orphan, reap>>

OwnerOther(p) ==
    /\ pc[p] = "owner" /\ HeldByOther(p) /\ ~GivesUp(p)
    /\ Go(p, "stale")
    /\ UNCHANGED <<lock, hot, waiting, g, orphan, reap>>

\* lock_is_stale reads the file again; a stale lock is removed in a later step.
SeeStale(p) ==
    /\ pc[p] = "stale" /\ Stale(g[p].at)
    /\ Go(p, "remove")
    /\ UNCHANGED <<lock, hot, waiting, g, orphan, reap>>

\* mark_waiting, then sleep LOCK_POLL and try again.
SeeHot(p) ==
    /\ pc[p] = "stale" /\ ~Stale(g[p].at)
    /\ waiting' = waiting \cup {p}
    /\ g' = [g EXCEPT ![p].marked = TRUE]
    /\ Go(p, "open")
    /\ UNCHANGED <<lock, hot, orphan, reap>>

Reclaim(p) ==
    /\ pc[p] = "remove"
    /\ Unlink(g[p].at)
    /\ Go(p, "open")
    /\ UNCHANGED <<waiting, g, reap>>

-----------------------------------------------------------------------------
(* "Read each lock, remove it if it is ours": patch_guard giving back and  *)
(* release_my_locks are the same loop, in different places of pc.          *)

Examine(p, read, remove) ==
    /\ pc[p] = read
    /\ \E f \in g[p].todo :
          IF lock[f] = p
          THEN g' = [g EXCEPT ![p].at = f] /\ Go(p, remove)
          ELSE g' = [g EXCEPT ![p].todo = @ \ {f}] /\ UNCHANGED pc
    /\ UNCHANGED <<lock, hot, waiting, orphan, reap>>

Drop(p, read, remove) ==
    /\ pc[p] = remove
    /\ Unlink(g[p].at)
    /\ g' = [g EXCEPT ![p].todo = @ \ {g[p].at}]
    /\ Go(p, read)
    /\ UNCHANGED <<waiting, reap>>

\* allow_contended: the edit goes through, with a note and no history entry.
AllowContended(p) ==
    /\ pc[p] = "give" /\ g[p].todo = {}
    /\ Return(p)
    /\ UNCHANGED <<lock, hot, waiting, orphan, reap>>

\* The Stop hook: release_my_locks over the whole directory...
Stop(p) ==
    /\ pc[p] = "turn"
    /\ g' = [g EXCEPT ![p].todo = File]
    /\ Go(p, "release")
    /\ UNCHANGED <<lock, hot, waiting, orphan, reap>>

\* ...then the turn is over, or goes on because unread mail blocks the stop.
StopDone(p) ==
    /\ pc[p] = "release" /\ g[p].todo = {}
    /\ g' = [g EXCEPT ![p] = NoGuard]
    /\ Go(p, "out") \/ Go(p, "turn")
    /\ UNCHANGED <<lock, hot, waiting, orphan, reap>>

-----------------------------------------------------------------------------
(* read_guard: wait_until_free writes nothing but its own marker.          *)

PeekFree(p) ==
    /\ pc[p] = "peek"
    /\ HeldByOther(p) => GivesUp(p) \/ Stale(g[p].at)
    /\ ClearMark(p)
    /\ Return(p)
    /\ UNCHANGED <<lock, hot, orphan, reap>>

PeekHeld(p) ==
    /\ pc[p] = "peek"
    /\ HeldByOther(p) /\ ~GivesUp(p) /\ ~Stale(g[p].at)
    /\ waiting' = waiting \cup {p}
    /\ g' = [g EXCEPT ![p].marked = TRUE]
    /\ UNCHANGED <<lock, hot, pc, orphan, reap>>

-----------------------------------------------------------------------------
(* Turns, dialogs, and processes that end.                                 *)

TurnStart(p) ==
    /\ pc[p] \in {"boot", "out"}
    /\ Go(p, "turn")
    /\ UNCHANGED <<lock, hot, waiting, g, orphan, reap>>

\* askq / plan write `needs`; the answer's PostToolUse writes `working`.
Ask(p) ==
    /\ pc[p] = "turn"
    /\ Go(p, "ask")
    /\ UNCHANGED <<lock, hot, waiting, g, orphan, reap>>

Answer(p) ==
    /\ pc[p] = "ask"
    /\ Go(p, "turn")
    /\ UNCHANGED <<lock, hot, waiting, g, orphan, reap>>

\* The process is killed, wherever its hook was: for good (the row is closed),
\* or to be started again on the same row (respawn).  Either way the locks and
\* the waiting marker of the old process stay where they are.
Kill(p, next) ==
    /\ pc[p] # "gone"
    /\ Go(p, next)
    /\ g' = [g EXCEPT ![p] = NoGuard]
    /\ orphan' = orphan \ {p}
    /\ UNCHANGED <<lock, hot, waiting, reap>>

Close(p)   == Kill(p, "gone")
Restart(p) == Kill(p, "boot")

-----------------------------------------------------------------------------
(* The app's poll loop (hub_snapshot) and the clock.                       *)

\* A token that names a row that is gone.  A Blank file names nobody: skipped.
ReapSee ==
    /\ reap = Absent
    /\ \E f \in File : /\ lock[f] \in Instance /\ pc[lock[f]] = "gone"
                       /\ reap' = f
    /\ UNCHANGED <<lock, hot, waiting, pc, g, orphan>>

ReapRemove ==
    /\ reap # Absent
    /\ Unlink(reap)
    /\ reap' = Absent
    /\ UNCHANGED <<waiting, pc, g>>

ReapMarker(p) ==
    /\ pc[p] = "gone" /\ p \in waiting
    /\ waiting' = waiting \ {p}
    /\ UNCHANGED <<lock, hot, pc, g, orphan, reap>>

\* LOCK_IDLE has passed since the token in f was written.
Idle(f) ==
    /\ f \in hot
    /\ hot' = hot \ {f}
    /\ UNCHANGED <<lock, waiting, pc, g, orphan, reap>>

\* LOCK_WAIT has passed since p's guard started.
Expire(p) ==
    /\ pc[p] \in Acquiring \cup {"peek"} /\ ~g[p].late
    /\ g' = [g EXCEPT ![p].late = TRUE]
    /\ UNCHANGED <<lock, hot, waiting, pc, orphan, reap>>

-----------------------------------------------------------------------------
\* What a running hook does next.
HookStep(p) ==
    \/ ReadOwn(p) \/ Record(p) \/ Create(p) \/ CreateExists(p) \/ CreateFails(p) \/ WriteToken(p)
    \/ OwnerMine(p) \/ Beat(p) \/ OwnerStray(p) \/ OwnerContended(p) \/ OwnerOther(p)
    \/ SeeStale(p) \/ SeeHot(p) \/ Reclaim(p)
    \/ Examine(p, "give", "giverm") \/ Drop(p, "give", "giverm") \/ AllowContended(p)
    \/ Examine(p, "release", "relrm") \/ Drop(p, "release", "relrm") \/ StopDone(p)
    \/ PeekFree(p) \/ PeekHeld(p)

\* What the agent, the user and the app may do to instance p.
Turn(p) ==
    \/ StartEdit(p) \/ StartPatch(p) \/ StartRead(p) \/ Stop(p)
    \/ TurnStart(p) \/ Ask(p) \/ Answer(p) \/ Close(p) \/ Restart(p)

Reaper == ReapSee \/ ReapRemove \/ \E p \in Instance : ReapMarker(p)

Clock == (\E p \in Instance : Expire(p)) \/ (\E f \in File : Idle(f))

Next == Reaper \/ Clock \/ \E p \in Instance : HookStep(p) \/ Turn(p)

Spec == Init /\ [][Next]_vars

\* A started hook runs on, the poll loop keeps polling, deadlines arrive.
\* Nothing makes a lock go idle: its holder may go on touching the file.
Fairness ==
    /\ \A p \in Instance : WF_vars(HookStep(p)) /\ WF_vars(Expire(p))
    /\ WF_vars(ReapSee) /\ WF_vars(ReapRemove)

FairSpec == Spec /\ Fairness

-----------------------------------------------------------------------------
(* Properties.                                                             *)

\* A patch takes its locks in key order: whatever it has taken so far sorts
\* before the lock it is trying for (patch_guard sorts its targets).
TakenInOrder ==
    \A p \in Instance : pc[p] \in Acquiring => \A f \in g[p].taken : f < g[p].at

\* "Two patches that share files can never each hold the half the other waits
\* for" (hook.rs, patch_guard): of two guards after a lock, at most one has
\* taken the lock the other is after.
NoCrossHold ==
    \A p, q \in Instance :
        pc[p] \in Acquiring /\ pc[q] \in Acquiring
            => ~(g[p].at \in g[q].taken /\ g[q].at \in g[p].taken)

\* "All, or none newly held" (patch_guard): when a patch goes ahead contended, no
\* lock it took in that call still names it, whoever raced it meanwhile.
AllOrNoneNewlyHeld ==
    [][\A p \in Instance :
          pc[p] = "give" /\ pc'[p] = "turn" => \A f \in g[p].taken : lock'[f] # p]_vars

\* Locks last one turn (release_my_locks in the Stop hook): between two turns no
\* lock names the instance, though others reclaim and overwrite tokens while the
\* hook walks the directory.
StopLeavesNoLock ==
    \A p \in Instance : pc[p] = "out" => \A f \in File : lock[f] # p

\* No hook is stuck for good: every guard and every Stop returns, however hot the
\* holder keeps the file, because the budget bounds the wait (LOCK_WAIT) and a
\* reclaim that loses the race starts over under the same deadline.
GuardReturns ==
    \A p \in Instance : []<>(pc[p] \notin Hooking)

\* A token that names a closed row does not survive the poll loop (hub_snapshot); a row
\* that is closed stays closed.
DeadHolderReaped ==
    \A p \in Instance, f \in File : []<>~(pc[p] = "gone" /\ lock[f] = p)

\* The locks are safe: every patch goes through its files in one order, so no two wait
\* for each other, and a turn that is over has left no token (patch_guard, stop).
LocksInv == TypeOK /\ TakenInOrder /\ NoCrossHold /\ StopLeavesNoLock

\* The locks keep nobody for good: neither a hook that waits for one nor a token whose
\* row is closed (acquire_or_wait_until, hub_snapshot).
LocksLive == GuardReturns /\ DeadHolderReaped
=============================================================================
