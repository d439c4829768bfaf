---------------------------- MODULE EditAwareness ----------------------------
(***************************************************************************)
(* What the edits that FileLocks lets through leave behind: history/<key>, *)
(* from which the next editor is told who changed the file before it.      *)
(*                                                                         *)
(* Composes with FileLocks: every step is a step of the locks, joined with *)
(* what edit_guard and patch_guard read from or write to the history in    *)
(* that step.                                                              *)
(***************************************************************************)
EXTENDS FileLocks

VARIABLES
    hist,       \* history/<key>: the last instance that recorded an edit
    noted,      \* the files p's hook will say another instance modified
    held        \* ghost: granted to p this turn, and not idle since

awareness == <<hist, noted, held>>

AwarenessOK ==
    /\ hist   \in [File -> Instance \cup {Absent}]
    /\ noted  \in [Instance -> SUBSET File]
    /\ held   \in [Instance -> SUBSET File]

AInit ==
    /\ Init
    /\ hist   = [f \in File |-> Absent]
    /\ noted  = [p \in Instance |-> {}]
    /\ held   = [p \in Instance |-> {}]

\* Step p's pc makes.
Moves(p, from, to) == pc[p] \in from /\ pc'[p] \in to

\* The files of S are now p's in `who`.
Sign(who, S, p) == [f \in File |-> IF f \in S THEN p ELSE who[f]]

\* Mutant: one's own earlier edit counts as another's.
ByOthers_Anyones(S, p) == {f \in S : hist[f] # Absent}

\* Those of S the history gives to another instance.
ByOthers(S, p) == {f \in S : hist[f] \notin {Absent, p}}

\* edit_guard reads the history first, then waits for the lock...
ReadBefore(p) ==
    /\ StartEdit(p)
    /\ noted' = [noted EXCEPT ![p] = ByOthers(g'[p].targets, p)]
    /\ UNCHANGED <<hist, held>>

\* ...patch_guard reads each target's right after it acquired that target.
ReadAfter(p) ==
    /\ p \in Codex /\ Moves(p, {"open", "write", "owner"}, {"own", "record"})
    /\ noted' = [noted EXCEPT ![p] = @ \cup ByOthers({g[p].at}, p)]
    /\ UNCHANGED <<hist, held>>

\* Acquired: every target is recorded and the edit let through.
Recorded(p) ==
    /\ Record(p)
    /\ hist'   = Sign(hist, g[p].targets, p)
    /\ held'   = [held EXCEPT ![p] = @ \cup g[p].targets]
    /\ noted'  = [noted EXCEPT ![p] = {}]

\* Contended: the edit goes through and nothing is recorded.
Unrecorded(p) ==
    /\ AllowContended(p)
    /\ noted'  = [noted EXCEPT ![p] = {}]
    /\ UNCHANGED <<hist, held>>

\* The Stop hook drops the turn's locks; a killed process has neither.
TurnOver(p) ==
    /\ Stop(p) \/ Close(p) \/ Restart(p)
    /\ held'  = [held EXCEPT ![p] = {}]
    /\ noted' = [noted EXCEPT ![p] = {}]
    /\ UNCHANGED hist

WentIdle(f) ==
    /\ Idle(f)
    /\ held' = [p \in Instance |-> held[p] \ {f}]
    /\ UNCHANGED <<hist, noted>>

\* Any other step of the hook or of the turn leaves the history alone.
Elsewhere(p) ==
    /\ HookStep(p) \/ StartPatch(p) \/ StartRead(p) \/ TurnStart(p) \/ Ask(p) \/ Answer(p)
    /\ ~Moves(p, {"record", "give"}, {"turn"})
    /\ ~(p \in Codex /\ Moves(p, {"open", "write", "owner"}, {"own", "record"}))
    /\ UNCHANGED awareness

ANext ==
    \/ (Reaper \/ \E p \in Instance : Expire(p)) /\ UNCHANGED awareness
    \/ \E f \in File : WentIdle(f)
    \/ \E p \in Instance :
          \/ ReadBefore(p) \/ (HookStep(p) /\ ReadAfter(p))
          \/ Recorded(p) \/ Unrecorded(p) \/ TurnOver(p) \/ Elsewhere(p)

ASpec == AInit /\ [][ANext]_<<vars, awareness>>

\* The fairness of the locks: every step of theirs is one of these.
AFairSpec == ASpec /\ Fairness

-----------------------------------------------------------------------------
\* Nobody is told of an edit that was not another's: what the hook read before it
\* waited is still so when the note is given, whatever was recorded meanwhile.
NotesAreTrue ==
    \A p \in Instance : \A f \in noted[p] : hist[f] \notin {Absent, p}

\* What an edit leaves behind is typed, and nobody is told of an edit of its own; between
\* turns no lock is left (edit_guard, patch_guard, stop).
AwarenessInv == TypeOK /\ AwarenessOK /\ NotesAreTrue /\ StopLeavesNoLock

(* What a comment of the code says and its steps do not guarantee: the     *)
(* property of a run that ends in a counterexample.                        *)

\* hook.rs, acquire_or_wait_until: "the next iteration's O_EXCL create claims it
\* atomically (two racing waiters can't both win)".  Two instances were granted
\* the same file, and the lock has not been idle since.
OneHotHolder ==
    \A p, q \in Instance, f \in File : f \in held[p] /\ f \in held[q] => p = q
=============================================================================
