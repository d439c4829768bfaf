-------------------------- MODULE HubListenerProofs --------------------------
(***************************************************************************)
(* Theorems about HubListener, for any number of listeners, claudes and    *)
(* losses of the scratch directory.                                        *)
(***************************************************************************)
EXTENDS HubListener, FiniteSetTheorems, TLAPS

\* The definitions every step of a pass is made of.
USE DEF Go, WriteLock, DirThere, files, slotRow

\* What the lock names has at least written it: it serves, or has ended.
LockWritten ==
    lock # NoFile => pc[lock] \in Serving \cup {"quitted", "gone", "killed"}

\* Of the types, what the two theorems need.
Typed ==
    /\ lock \in Listener \cup {NoFile}
    /\ pids \in Claude \cup {NoFile}
    /\ pc \in [Listener -> Running \cup {"unborn", "quitted", "gone", "killed"}]
    /\ owner \in [Listener -> Claude \cup {NoFile}]

\* Every step keeps those types and, with them, LockWritten.
LEMMA LockStep == Typed /\ LockWritten /\ [ListenerNext]_listenerVars => Typed' /\ LockWritten'
<1> SUFFICES ASSUME Typed, LockWritten, [ListenerNext]_listenerVars PROVE Typed' /\ LockWritten'
  OBVIOUS
<1> USE HubListenerAssumption DEF Typed, LockWritten, Serving, Running, Waiting
<1>1. ASSUME NEW l \in Listener, Pass(l) PROVE Typed' /\ LockWritten'
  <2>1. CASE DirMissing(l) \/ LookHeld(l) \/ LookFree(l)
    BY <2>1 DEF DirMissing, LookHeld, LookFree
  <2>2. CASE Take(l) \/ Retake(l)
    BY <2>2 DEF Take, Retake
  <2>3. CASE WaitOn(l) \/ WaitOver(l) \/ ServeLocked(l) \/ ServeUnlocked(l)
    BY <2>3 DEF WaitOn, WaitOver, ServeLocked, ServeUnlocked
  <2>4. CASE CheckGone(l) \/ Quit(l) \/ CheckOn(l) \/ Announce(l)
    BY <2>4 DEF CheckGone, Quit, CheckOn, Announce
  <2>5. QED
    BY <1>1, <2>1, <2>2, <2>3, <2>4 DEF Pass
<1>2. ASSUME NEW l \in Listener, Start(l) PROVE Typed' /\ LockWritten'
  BY <1>2 DEF Start
<1>3. ASSUME NEW l \in Listener, KillListener(l) PROVE Typed' /\ LockWritten'
  BY <1>3 DEF KillListener
<1>4. CASE Slot
  BY <1>4 DEF Slot, Die, Read, Purge, Rebuild, Spawn, Arrive
<1>5. CASE UNCHANGED listenerVars
  BY <1>5 DEF listenerVars
<1>6. QED
  BY <1>1, <1>2, <1>3, <1>4, <1>5 DEF ListenerNext

\* The process a live lock names is one that serves.
THEOREM LockHolderServes == ListenerSpec => []LockNamesServer
<1>1. ListenerInit => Typed /\ LockWritten
  BY DEF ListenerInit, Typed, LockWritten
<1>2. Typed /\ LockWritten => LockNamesServer
  BY HubListenerAssumption DEF Typed, LockWritten, LockNamesServer, LockAlive, Serving, Running, Waiting
<1>3. QED
  BY <1>1, <1>2, LockStep, PTL DEF ListenerSpec

-----------------------------------------------------------------------------
(* A listener quits only when its claude is dead.  pids/<id> is what tells  *)
(* it, so the invariant relates that file to the claudes that run: if it is *)
(* there at all, no other claude of the slot is alive.                      *)

SlotKnown ==
    /\ alive \subseteq born /\ born \subseteq Claude
    /\ pids # NoFile => alive \subseteq {pids}
    /\ \A l \in Listener : owner[l] \in born \cup {NoFile}
    /\ pids \in born \cup {NoFile}

QuitDead ==
    \A l \in Listener : pc[l] \in {"quit", "quitted"} => owner[l] \notin alive

\* Every step keeps what pids/<id> says, and the dead claudes of those that quit.
LEMMA QuitStep ==
    Typed /\ SlotKnown /\ QuitDead /\ [ListenerNext]_listenerVars => SlotKnown' /\ QuitDead'
<1> SUFFICES ASSUME Typed, SlotKnown, QuitDead, [ListenerNext]_listenerVars PROVE SlotKnown' /\ QuitDead'
  OBVIOUS
<1> USE HubListenerAssumption DEF Typed, SlotKnown, QuitDead
<1>1. ASSUME NEW l \in Listener, OwnerGone(l) PROVE owner[l] \notin alive
  BY <1>1 DEF OwnerGone
<1>2. ASSUME NEW l \in Listener, Pass(l) PROVE SlotKnown' /\ QuitDead'
  <2>1. CASE DirMissing(l) \/ LookHeld(l) \/ LookFree(l) \/ Take(l) \/ Retake(l)
    BY <2>1 DEF DirMissing, LookHeld, LookFree, Take, Retake
  <2>2. CASE WaitOn(l) \/ ServeLocked(l) \/ ServeUnlocked(l) \/ CheckOn(l) \/ Announce(l)
    BY <2>2 DEF WaitOn, ServeLocked, ServeUnlocked, CheckOn, Announce
  <2>3. CASE WaitOver(l) \/ CheckGone(l)
    BY <1>1, <2>3 DEF WaitOver, CheckGone
  <2>4. CASE Quit(l)
    BY <2>4 DEF Quit
  <2>5. QED
    BY <1>2, <2>1, <2>2, <2>3, <2>4 DEF Pass
<1>3. ASSUME NEW l \in Listener, Start(l) \/ KillListener(l) PROVE SlotKnown' /\ QuitDead'
  BY <1>3 DEF Start, KillListener
<1>4. ASSUME NEW c \in Claude, Spawn(c) PROVE SlotKnown' /\ QuitDead'
  BY <1>4 DEF Spawn
<1>5. CASE Die \/ Read \/ Purge \/ Rebuild \/ \E m \in Arrivals : Arrive(m)
  BY <1>5 DEF Die, Read, Purge, Rebuild, Arrive
<1>6. CASE UNCHANGED listenerVars
  BY <1>6 DEF listenerVars
<1>7. QED
  BY <1>2, <1>3, <1>4, <1>5, <1>6 DEF ListenerNext, Slot

\* No listener leaves a claude that lives, whatever races for the slot.
THEOREM QuitsOnlyWhenOwnerDied == ListenerSpec => []QuitsOnlyOrphaned
<1>1. ListenerInit => Typed /\ LockWritten /\ SlotKnown /\ QuitDead
  BY DEF ListenerInit, Typed, LockWritten, SlotKnown, QuitDead
<1>2. QuitDead => QuitsOnlyOrphaned
  BY DEF QuitDead, QuitsOnlyOrphaned
<1>3. QED
  BY <1>1, <1>2, LockStep, QuitStep, PTL DEF ListenerSpec

\* What is unread is no more than what may arrive.
LEMMA UnreadBounded == inbox \subseteq Arrivals => Unread \in 0 .. Cardinality(Arrivals)
<1> SUFFICES ASSUME inbox \subseteq Arrivals PROVE Unread \in 0 .. Cardinality(Arrivals)
  OBVIOUS
<1>1. Cardinality(inbox) <= Cardinality(Arrivals) /\ IsFiniteSet(inbox)
  BY HubListenerAssumption, FS_Subset
<1>2. Cardinality(inbox) \in Nat /\ Cardinality(Arrivals) \in Nat
  BY <1>1, HubListenerAssumption, FS_CardinalityType
<1> QED
  BY <1>1, <1>2 DEF Unread

\* Every step keeps the types.
LEMMA TypeStep == ListenerTypeOK /\ [ListenerNext]_listenerVars => ListenerTypeOK'
<1> SUFFICES ASSUME ListenerTypeOK, [ListenerNext]_listenerVars PROVE ListenerTypeOK'
  OBVIOUS
<1>0. Unread \in 0 .. Cardinality(Arrivals)
  BY UnreadBounded DEF ListenerTypeOK
<1> USE HubListenerAssumption DEF ListenerTypeOK, Serving, Running, Waiting
<1>1. ASSUME NEW l \in Listener, Pass(l) PROVE ListenerTypeOK'
  <2>1. CASE DirMissing(l) \/ LookHeld(l) \/ LookFree(l)
    BY <2>1 DEF DirMissing, LookHeld, LookFree
  <2>2. CASE Take(l) \/ Retake(l)
    BY <2>2 DEF Take, Retake
  <2>3. CASE WaitOn(l) \/ Announce(l)
    BY ZenonT(30), <1>0, <2>3 DEF WaitOn, Announce
  <2>4. CASE WaitOver(l) \/ ServeLocked(l) \/ ServeUnlocked(l) \/ CheckGone(l) \/ Quit(l) \/ CheckOn(l)
    BY <2>4 DEF WaitOver, ServeLocked, ServeUnlocked, CheckGone, Quit, CheckOn
  <2>5. QED
    BY <1>1, <2>1, <2>2, <2>3, <2>4 DEF Pass
<1>2. ASSUME NEW l \in Listener, Start(l) \/ KillListener(l) PROVE ListenerTypeOK'
  BY <1>0, <1>2 DEF Start, KillListener
<1>3. CASE Die \/ Read \/ Rebuild
  BY <1>3 DEF Die, Read, Rebuild
<1>4. CASE Purge
  <2>1. purges' \in 0 .. MaxPurges
    BY <1>4 DEF Purge
  <2>2. /\ up' = FALSE /\ lock' = NoFile /\ pids' = NoFile /\ inbox' = {}
        /\ UNCHANGED <<slotRow, pc, owner, prev, missing>>
    BY <1>4 DEF Purge
  <2> QED
    BY <2>1, <2>2
<1>5. ASSUME NEW c \in Claude, Spawn(c) PROVE ListenerTypeOK'
  BY <1>5 DEF Spawn
<1>6. ASSUME NEW m \in Arrivals, Arrive(m) PROVE ListenerTypeOK'
  BY <1>6 DEF Arrive
<1>7. CASE UNCHANGED listenerVars
  BY <1>7 DEF listenerVars
<1> QED
  BY <1>1, <1>2, <1>3, <1>4, <1>5, <1>6, <1>7 DEF ListenerNext, Slot

\* The lock of a slot names one that serves, and nobody leaves a claude that lives.
THEOREM SlotIsSafe == ListenerSpec => []ListenerInv
<1>1. ListenerInit => ListenerTypeOK
  <2>1. Cardinality(Arrivals) \in Nat
    BY HubListenerAssumption, FS_CardinalityType
  <2> QED
    BY <2>1, HubListenerAssumption DEF ListenerInit, ListenerTypeOK
<1>2. ListenerSpec => []ListenerTypeOK
  BY <1>1, TypeStep, PTL DEF ListenerSpec
<1> QED
  BY <1>2, LockHolderServes, QuitsOnlyWhenOwnerDied, PTL DEF ListenerInv
=============================================================================
