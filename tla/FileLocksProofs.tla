--------------------------- MODULE FileLocksProofs ---------------------------
(***************************************************************************)
(* Theorems about FileLocks, for any set of instances and any number of    *)
(* files: type correctness, the order a patch takes its locks in, and what *)
(* the two "remove what is mine" loops leave behind.  Of EditAwareness,    *)
(* that its steps are steps of the locks and what its notes say is true.   *)
(* The last section is about Checkpoint, where claudes wait for each other *)
(* too: every stop is noted somewhere until the claude is told to go on.   *)
(***************************************************************************)
EXTENDS EditAwareness, Checkpoint, TLAPS

\* The first file: what a hook without a target is said to be at.
LEMMA OneFile == 1 \in File
BY FileLocksAssumption DEF File

\* A hook that has done nothing yet.
LEMMA FreshGuard == NoGuard \in Guard
BY OneFile DEF NoGuard, Guard

\* A guard just asked is a guard...
LEMMA AskedGuard ==
    ASSUME NEW T \in SUBSET File, NEW f \in File PROVE Asked(T, f) \in Guard
BY FreshGuard DEF Asked, Guard

\* ...and these are its fields.
LEMMA AskedFields ==
    ASSUME NEW T \in SUBSET File, NEW f \in File
    PROVE  /\ Asked(T, f).at = f /\ Asked(T, f).todo = T
           /\ Asked(T, f).targets = T /\ Asked(T, f).taken = {}
BY DEF Asked, NoGuard

\* The types of pc and of g, apart: most steps change only these two.
PcOK == pc \in [Instance -> Hooking \cup {"boot", "turn", "ask", "out", "gone"}]
GOK  == g \in [Instance -> Guard]
DiskOK ==
    /\ lock \in [File -> Instance \cup {Absent, Blank}]
    /\ hot \subseteq File /\ waiting \subseteq Instance
    /\ orphan \subseteq Instance /\ reap \in File \cup {Absent}

\* TypeOK is its three parts.
LEMMA TypeParts == TypeOK <=> PcOK /\ GOK /\ DiskOK
BY DEF TypeOK, PcOK, GOK, DiskOK

\* Every step leaves pc in its type...
LEMMA PcStep == TypeOK /\ [Next]_vars => PcOK'
<1> SUFFICES ASSUME PcOK, [Next]_vars PROVE PcOK'
  BY TypeParts
<1> USE DEF PcOK, Hooking, Acquiring, Go, Return
<1>1. ASSUME NEW p \in Instance, HookStep(p) PROVE PcOK'
  BY ZenonT(30), <1>1 DEF HookStep, ReadOwn, Record, Create, CreateExists, CreateFails, WriteToken,
     OwnerMine, Beat, OwnerStray, OwnerContended, OwnerOther, SeeStale, SeeHot, Reclaim,
     Examine, Drop, AllowContended, StopDone, PeekFree, PeekHeld,
     Acquire, AcquireNext, AcquireLast
<1>2. ASSUME NEW p \in Instance, Turn(p) PROVE PcOK'
  BY <1>2 DEF Turn, StartEdit, StartPatch, StartRead, Stop, TurnStart, Ask, Answer,
     Close, Restart, Kill
<1>3. CASE Reaper \/ Clock \/ UNCHANGED vars
  BY <1>3 DEF Reaper, ReapSee, ReapRemove, ReapMarker, Clock, Expire, Idle, vars
<1>4. QED
  BY <1>1, <1>2, <1>3 DEF Next

\* ...and g...
LEMMA GuardStep == TypeOK /\ [Next]_vars => GOK'
<1> SUFFICES ASSUME GOK, [Next]_vars PROVE GOK'
  BY TypeParts
<1> USE DEF GOK
<1>1. ASSUME NEW p \in Instance, g' = [g EXCEPT ![p] = NoGuard] PROVE GOK'
  BY <1>1, FreshGuard
<1>2. ASSUME NEW p \in Instance, NEW T \in SUBSET File, NEW f \in File,
             g' = [g EXCEPT ![p] = Asked(T, f)] PROVE GOK'
  BY <1>2, AskedGuard
<1>3. ASSUME NEW p \in Instance, Turn(p) PROVE GOK'
  <2>1. CASE StartEdit(p) \/ StartPatch(p) \/ StartRead(p)
    BY <1>2, <2>1 DEF StartEdit, StartPatch, StartRead
  <2>2. CASE Stop(p)
    BY <2>2 DEF Stop, Guard
  <2>3. CASE TurnStart(p) \/ Ask(p) \/ Answer(p) \/ Close(p) \/ Restart(p)
    BY <1>1, <2>3 DEF TurnStart, Ask, Answer, Close, Restart, Kill
  <2>4. QED
    BY <1>3, <2>1, <2>2, <2>3 DEF Turn
<1>4. ASSUME NEW p \in Instance, Acquire(p) PROVE GOK'
  <2>1. CASE AcquireNext(p)
    BY <2>1 DEF AcquireNext, Guard
  <2>2. CASE AcquireLast(p)
    BY ZenonT(30), <2>2 DEF AcquireLast, Guard
  <2>3. QED
    BY <1>4, <2>1, <2>2 DEF Acquire
<1>5. ASSUME NEW p \in Instance, NEW r, NEW m, Examine(p, r, m) \/ Drop(p, r, m) PROVE GOK'
  BY <1>5 DEF Examine, Drop, Guard
<1>6. ASSUME NEW p \in Instance, ReadOwn(p) PROVE GOK'
  <2>1. ASSUME NEW b \in BOOLEAN, g' = [g EXCEPT ![p].mine = b] PROVE GOK'
    BY <2>1 DEF Guard
  <2>2. QED
    BY <1>6, <2>1 DEF ReadOwn
<1>7. ASSUME NEW p \in Instance, OwnerContended(p) PROVE GOK'
  BY ZenonT(30), <1>7 DEF OwnerContended, Guard
<1>8. ASSUME NEW p \in Instance, g' = [g EXCEPT ![p].marked = TRUE] PROVE GOK'
  BY <1>8 DEF Guard
<1>9. ASSUME NEW p \in Instance, Expire(p) PROVE GOK'
  BY <1>9 DEF Expire, Guard
<1>10. ASSUME NEW p \in Instance, HookStep(p) PROVE GOK'
  BY <1>1, <1>4, <1>5, <1>6, <1>7, <1>8, <1>10 DEF HookStep, Return, Record, Create,
     CreateExists, CreateFails, WriteToken, OwnerMine, Beat, OwnerStray, OwnerOther, SeeStale,
     SeeHot, Reclaim, AllowContended, StopDone, PeekFree, PeekHeld
<1>11. QED
  BY <1>3, <1>9, <1>10 DEF Next, Reaper, ReapSee, ReapRemove, ReapMarker, Clock, Idle, vars

\* ...and the files.
LEMMA DiskStep == TypeOK /\ [Next]_vars => DiskOK'
<1> SUFFICES ASSUME TypeOK, [Next]_vars PROVE DiskOK'
  OBVIOUS
<1>1. \A p \in Instance : g[p].at \in File
  BY DEF TypeOK, Guard
<1> USE <1>1 DEF TypeOK, DiskOK
<1>2. ASSUME NEW p \in Instance, Acquire(p) PROVE waiting' \subseteq Instance /\ UNCHANGED reap
  BY <1>2 DEF Acquire, ClearMark
<1>3. ASSUME NEW p \in Instance,
             ReadOwn(p) \/ Record(p) \/ Create(p) \/ CreateExists(p) \/ CreateFails(p)
                \/ WriteToken(p) \/ OwnerMine(p) \/ Beat(p) PROVE DiskOK'
  BY <1>2, <1>3 DEF ReadOwn, Record, Create, CreateExists, CreateFails, WriteToken,
     OwnerMine, Beat, OpenBlank
<1>4. ASSUME NEW p \in Instance,
             OwnerStray(p) \/ OwnerContended(p) \/ OwnerOther(p) \/ SeeStale(p) \/ SeeHot(p)
                \/ Reclaim(p) PROVE DiskOK'
  BY <1>2, <1>4 DEF OwnerStray, OwnerContended, OwnerOther, SeeStale, SeeHot, Reclaim,
     Unlink, ClearMark
<1>5. ASSUME NEW p \in Instance, NEW r, NEW m, Examine(p, r, m) \/ Drop(p, r, m) PROVE DiskOK'
  BY <1>5 DEF Examine, Drop, Unlink
<1>6. ASSUME NEW p \in Instance,
             AllowContended(p) \/ StopDone(p) \/ PeekFree(p) \/ PeekHeld(p) PROVE DiskOK'
  BY <1>6 DEF AllowContended, StopDone, PeekFree, PeekHeld, ClearMark
<1>7. ASSUME NEW p \in Instance, Turn(p) PROVE DiskOK'
  BY <1>7 DEF Turn, StartEdit, StartPatch, StartRead, Stop, TurnStart, Ask, Answer,
     Close, Restart, Kill
<1>8. CASE Reaper
  BY <1>8 DEF Reaper, ReapSee, ReapRemove, ReapMarker, Unlink
<1>9. CASE Clock \/ UNCHANGED vars
  BY <1>9 DEF Clock, Expire, Idle, vars
<1>10. QED
  BY <1>3, <1>4, <1>5, <1>6, <1>7, <1>8, <1>9 DEF Next, HookStep

\* Type correctness of the lock protocol.
THEOREM TypeCorrect == Spec => []TypeOK
<1>1. Init => TypeOK
  BY FreshGuard DEF Init, TypeOK, Hooking
<1>2. TypeOK /\ [Next]_vars => TypeOK'
  BY PcStep, GuardStep, DiskStep DEF TypeOK, PcOK, GOK, DiskOK
<1>3. QED
  BY <1>1, <1>2, PTL DEF Spec

-----------------------------------------------------------------------------
\* What q's guard, its turn and its tokens may see of a step q does not make: at
\* most its deadline passes, and tokens of q disappear.
Untouched(q) ==
    /\ pc'[q] = pc[q]
    /\ g'[q] = g[q] \/ g'[q] = [g[q] EXCEPT !.late = TRUE]
    /\ \A f \in File : lock'[f] = q => lock[f] = q

\* Nobody's step but q's own moves q's turn or makes a token of q.
LEMMA OwnStep ==
    ASSUME TypeOK, [Next]_vars, NEW q \in Instance
    PROVE  HookStep(q) \/ Turn(q) \/ Untouched(q)
<1> USE DEF TypeOK, Untouched
<1>1. ASSUME NEW p \in Instance, p # q, Turn(p) PROVE Untouched(q)
  BY <1>1 DEF Turn, StartEdit, StartPatch, StartRead, Stop, TurnStart, Ask, Answer,
     Close, Restart, Kill, Go
<1>2. ASSUME NEW p \in Instance, p # q, Acquire(p) PROVE pc'[q] = pc[q] /\ g'[q] = g[q]
  BY <1>2 DEF Acquire, AcquireNext, AcquireLast, Go
<1>3. ASSUME NEW p \in Instance, p # q, HookStep(p) PROVE Untouched(q)
  <2> USE FileLocksAssumption DEF Go, Return, OpenBlank, Unlink
  <2>1. CASE CreateFails(p) \/ WriteToken(p) \/ OwnerStray(p)
    BY <1>2, <1>3, <2>1 DEF CreateFails, WriteToken, OwnerStray
  <2>2. CASE \E r, m : Examine(p, r, m) \/ Drop(p, r, m)
    BY <1>3, <2>2 DEF Examine, Drop
  <2>3. CASE Create(p) \/ CreateExists(p) \/ OwnerMine(p) \/ Beat(p) \/ Reclaim(p)
    BY <1>3, <2>3 DEF Create, CreateExists, OwnerMine, Beat, Reclaim
  <2>4. CASE ReadOwn(p) \/ Record(p) \/ OwnerContended(p) \/ OwnerOther(p) \/ SeeStale(p)
                \/ SeeHot(p)
    BY <1>3, <2>4 DEF ReadOwn, Record, OwnerContended, OwnerOther, SeeStale, SeeHot
  <2>5. CASE AllowContended(p) \/ StopDone(p) \/ PeekFree(p) \/ PeekHeld(p)
    BY <1>3, <2>5 DEF AllowContended, StopDone, PeekFree, PeekHeld
  <2>6. QED
    BY <1>3, <2>1, <2>2, <2>3, <2>4, <2>5 DEF HookStep
<1>4. CASE Reaper
  BY <1>4, FileLocksAssumption DEF Reaper, ReapSee, ReapRemove, ReapMarker, Unlink
<1>5. CASE Clock \/ UNCHANGED vars
  BY <1>5 DEF Clock, Expire, Idle, vars
<1>6. QED
  BY <1>1, <1>3, <1>4, <1>5 DEF Next

-----------------------------------------------------------------------------
(* A patch takes its locks in key order.  TakenInOrder alone is not         *)
(* inductive: the next target must also sort after the one just acquired.  *)

InOrder(q) ==
    pc[q] \in Acquiring => /\ FirstOf(g[q].at, g[q].todo)
                           /\ \A f \in g[q].taken : f < g[q].at

\* Every step keeps every guard's walk in order.
LEMMA InOrderStep ==
    ASSUME TypeOK, [Next]_vars, NEW q \in Instance, InOrder(q)
    PROVE  InOrder(q)'
<1> USE DEF TypeOK, InOrder, Acquiring
<1>1. CASE Untouched(q)
  BY <1>1 DEF Untouched, FirstOf, Guard
<1>2. CASE Turn(q)
  <2>1. CASE StartEdit(q) \/ StartPatch(q)
    <3>1. ASSUME NEW T \in SUBSET File, NEW f \in File, FirstOf(f, T),
                 g' = [g EXCEPT ![q] = Asked(T, f)] PROVE InOrder(q)'
      BY <3>1, AskedFields DEF FirstOf
    <3>2. \A f \in File : FirstOf(f, {f})
      BY FileLocksAssumption DEF FirstOf, File
    <3>3. QED
      BY <2>1, <3>1, <3>2 DEF StartEdit, StartPatch
  <2>2. CASE StartRead(q) \/ Stop(q) \/ TurnStart(q) \/ Ask(q) \/ Answer(q)
    BY <2>2 DEF StartRead, Stop, TurnStart, Ask, Answer, Go
  <2>3. CASE Close(q) \/ Restart(q)
    BY <2>3 DEF Close, Restart, Kill, Go
  <2>4. QED
    BY <1>2, <2>1, <2>2, <2>3 DEF Turn
<1>3. ASSUME pc[q] \in Acquiring, Acquire(q) PROVE InOrder(q)'
  <2>1. CASE AcquireNext(q)
    <3>1. PICK f \in g[q].todo \ {g[q].at} :
             /\ FirstOf(f, g[q].todo \ {g[q].at})
             /\ g' = [g EXCEPT ![q].todo = g[q].todo \ {g[q].at}, ![q].at = f,
                               ![q].marked = FALSE,
                               ![q].taken = IF g[q].mine THEN @ ELSE @ \cup {g[q].at}]
      BY <2>1 DEF AcquireNext
    <3>2. g'[q].at = f /\ g'[q].todo = g[q].todo \ {g[q].at}
             /\ g'[q].taken \subseteq g[q].taken \cup {g[q].at}
      BY <3>1 DEF Guard
    <3>3. f \in Nat /\ g[q].at \in Nat /\ g[q].taken \subseteq Nat
      BY <3>1, FileLocksAssumption DEF Guard, File
    <3>4. g[q].at < f
      BY <1>3, <3>1, <3>3 DEF FirstOf
    <3>5. QED
      BY <1>3, <3>1, <3>2, <3>3, <3>4 DEF FirstOf
  <2>2. CASE AcquireLast(q)
    BY <2>2 DEF AcquireLast, Go
  <2>3. QED
    BY <1>3, <2>1, <2>2 DEF Acquire
<1>4. CASE HookStep(q)
  <2> USE DEF Go, Return
  <2>1. CASE CreateFails(q) \/ WriteToken(q) \/ OwnerStray(q)
    BY <1>3, <2>1 DEF CreateFails, WriteToken, OwnerStray
  <2>2. CASE ReadOwn(q) \/ SeeHot(q)
    BY SMTT(30), <2>2 DEF ReadOwn, SeeHot, FirstOf, Guard
  <2>3. CASE Create(q) \/ CreateExists(q) \/ OwnerMine(q) \/ Beat(q) \/ OwnerOther(q)
                \/ SeeStale(q) \/ Reclaim(q)
    BY <2>3 DEF Create, CreateExists, OwnerMine, Beat, OwnerOther, SeeStale, Reclaim
  <2>4. CASE Record(q) \/ OwnerContended(q) \/ AllowContended(q) \/ StopDone(q)
                \/ PeekFree(q) \/ PeekHeld(q)
    BY <2>4 DEF Record, OwnerContended, AllowContended, StopDone, PeekFree, PeekHeld
  <2>5. CASE \/ Examine(q, "give", "giverm") \/ Drop(q, "give", "giverm")
             \/ Examine(q, "release", "relrm") \/ Drop(q, "release", "relrm")
    BY <2>5 DEF Examine, Drop
  <2>6. QED
    BY <1>4, <2>1, <2>2, <2>3, <2>4, <2>5 DEF HookStep
<1>5. QED
  BY <1>1, <1>2, <1>4, OwnStep

\* A patch holds only locks that sort before the one it waits for.
THEOREM PatchesLockInOrder == Spec => []TakenInOrder
<1> DEFINE AllInOrder == \A q \in Instance : InOrder(q)
<1>1. Init => AllInOrder
  BY DEF Init, InOrder, Acquiring
<1>2. TypeOK /\ AllInOrder /\ [Next]_vars => AllInOrder'
  BY InOrderStep
<1>3. AllInOrder => TakenInOrder
  BY DEF InOrder, TakenInOrder
<1>4. QED
  BY <1>1, <1>2, <1>3, TypeCorrect, PTL DEF Spec

\* No two patches each hold the lock the other waits for, whatever the number of
\* instances and files: their positions would have to sort before each other.
THEOREM NoDeadlyEmbrace == Spec => []NoCrossHold
<1>1. TypeOK /\ TakenInOrder => NoCrossHold
  BY FileLocksAssumption DEF TypeOK, Guard, File, TakenInOrder, NoCrossHold
<1>2. QED
  BY <1>1, TypeCorrect, PatchesLockInOrder, PTL
-----------------------------------------------------------------------------
(* The two loops that remove what is theirs.  Both properties speak of the  *)
(* end of a loop; the invariant says what it has achieved half-way: of the  *)
(* files already visited, none names the instance.                          *)

Cleared(q) ==
    /\ pc[q] = "out" => \A f \in File : lock[f] # q
    /\ pc[q] \in {"release", "relrm"} => \A f \in File \ g[q].todo : lock[f] # q
    /\ pc[q] \in {"give", "giverm"} => \A f \in g[q].taken \ g[q].todo : lock[f] # q

\* One step of either loop, and its end.
LEMMA ClearedLoop ==
    ASSUME TypeOK, NEW q \in Instance, Cleared(q),
           NEW r \in {"give", "release"}, NEW m \in {"giverm", "relrm"},
           <<r, m>> \in {<<"give", "giverm">>, <<"release", "relrm">>},
           Examine(q, r, m) \/ Drop(q, r, m)
    PROVE  Cleared(q)'
<1> USE DEF TypeOK, Cleared, Go, Guard
<1>1. CASE Examine(q, r, m)
  <2>1. PICK f \in g[q].todo :
           IF lock[f] = q
           THEN g' = [g EXCEPT ![q].at = f] /\ Go(q, m)
           ELSE g' = [g EXCEPT ![q].todo = @ \ {f}] /\ UNCHANGED pc
    BY <1>1 DEF Examine
  <2>2. CASE lock[f] = q
    BY <1>1, <2>1, <2>2 DEF Examine
  <2>3. CASE lock[f] # q
    BY <1>1, <2>1, <2>3 DEF Examine
  <2>4. QED
    BY <2>2, <2>3
<1>2. CASE Drop(q, r, m)
  BY <1>2, FileLocksAssumption DEF Drop, Unlink
<1>3. QED
  BY <1>1, <1>2

\* Every step keeps what the loops have cleared clear.
LEMMA ClearedStep ==
    ASSUME TypeOK, [Next]_vars, NEW q \in Instance, Cleared(q)
    PROVE  Cleared(q)'
<1> USE DEF TypeOK, Cleared
<1>1. CASE Untouched(q)
  BY <1>1 DEF Untouched, Guard
<1>2. CASE Turn(q)
  <2> USE DEF Go
  <2>1. CASE StartEdit(q) \/ StartPatch(q) \/ StartRead(q)
    BY <2>1 DEF StartEdit, StartPatch, StartRead
  <2>2. CASE Stop(q)
    BY <2>2 DEF Stop, Guard
  <2>3. CASE TurnStart(q) \/ Ask(q) \/ Answer(q) \/ Close(q) \/ Restart(q)
    BY <2>3 DEF TurnStart, Ask, Answer, Close, Restart, Kill
  <2>4. QED
    BY <1>2, <2>1, <2>2, <2>3 DEF Turn
<1>3. CASE HookStep(q)
  <2> USE DEF Go, Return
  <2>1. ASSUME Acquire(q) PROVE Cleared(q)'
    BY <2>1 DEF Acquire, AcquireNext, AcquireLast
  <2>2. CASE CreateFails(q) \/ WriteToken(q) \/ OwnerStray(q)
    BY <2>1, <2>2 DEF CreateFails, WriteToken, OwnerStray
  <2>3. CASE ReadOwn(q) \/ SeeHot(q) \/ Create(q) \/ CreateExists(q) \/ OwnerMine(q)
                \/ Beat(q) \/ OwnerOther(q) \/ SeeStale(q) \/ Reclaim(q)
    BY <2>3 DEF ReadOwn, SeeHot, Create, CreateExists, OwnerMine, Beat, OwnerOther,
       SeeStale, Reclaim
  <2>4. CASE OwnerContended(q)
    BY <2>4 DEF OwnerContended, Guard
  <2>5. CASE Record(q) \/ AllowContended(q) \/ PeekFree(q) \/ PeekHeld(q)
    BY <2>5 DEF Record, AllowContended, PeekFree, PeekHeld
  <2>6. CASE StopDone(q)
    BY <2>6 DEF StopDone
  <2>7. CASE \/ Examine(q, "give", "giverm") \/ Drop(q, "give", "giverm")
             \/ Examine(q, "release", "relrm") \/ Drop(q, "release", "relrm")
    BY <2>7, ClearedLoop
  <2>8. QED
    BY <1>3, <2>2, <2>3, <2>4, <2>5, <2>6, <2>7 DEF HookStep
<1>4. QED
  BY <1>1, <1>2, <1>3, OwnStep

\* The invariant of both loops.
LEMMA LoopsClear == Spec => [](\A q \in Instance : Cleared(q))
<1>1. Init => \A q \in Instance : Cleared(q)
  BY DEF Init, Cleared
<1>2. TypeOK /\ (\A q \in Instance : Cleared(q)) /\ [Next]_vars
         => (\A q \in Instance : Cleared(q))'
  BY ClearedStep
<1>3. QED
  BY <1>1, <1>2, TypeCorrect, PTL DEF Spec

\* Between two turns an instance holds no lock, whatever the others did to the
\* lock directory while its Stop hook walked it.
THEOREM StopReleasesAll == Spec => []StopLeavesNoLock
<1>1. (\A q \in Instance : Cleared(q)) => StopLeavesNoLock
  BY DEF Cleared, StopLeavesNoLock
<1>2. QED
  BY <1>1, LoopsClear, PTL

\* A contended patch goes ahead with none of the locks it took on the way.
THEOREM ContendedKeepsNothing == Spec => AllOrNoneNewlyHeld
<1> DEFINE Keeps == \A p \in Instance :
              pc[p] = "give" /\ pc'[p] = "turn" => \A f \in g[p].taken : lock'[f] # p
<1>1. ASSUME TypeOK, [Next]_vars, \A q \in Instance : Cleared(q), NEW p \in Instance,
             pc[p] = "give", pc'[p] = "turn", NEW f \in g[p].taken
      PROVE  lock'[f] # p
  <2> USE DEF TypeOK
  <2>1. f \in File
    BY <1>1 DEF Guard
  <2>2. ~Untouched(p)
    BY <1>1 DEF Untouched
  <2>3. ~Turn(p)
    BY <1>1 DEF Turn, StartEdit, StartPatch, StartRead, Stop, TurnStart, Ask, Answer,
       Close, Restart, Kill, Go
  <2>4. HookStep(p) => AllowContended(p)
    BY <1>1 DEF HookStep, ReadOwn, Record, Create, CreateExists, CreateFails, WriteToken,
       OwnerMine, Beat, OwnerStray, OwnerContended, OwnerOther, SeeStale, SeeHot, Reclaim,
       Examine, Drop, StopDone, PeekFree, PeekHeld, Go
  <2>5. AllowContended(p)
    BY <1>1, <2>2, <2>3, <2>4, OwnStep
  <2>6. lock[f] # p
    BY <1>1, <2>5 DEF AllowContended, Cleared
  <2>7. QED
    BY <2>5, <2>6 DEF AllowContended
<1>2. TypeOK /\ (\A q \in Instance : Cleared(q)) /\ [Next]_vars => [Keeps]_vars
  BY <1>1
<1>3. QED
  BY <1>2, TypeCorrect, LoopsClear, PTL DEF Spec, AllOrNoneNewlyHeld

\* The locks are safe: no two patches wait for each other, and none outlives its turn.
THEOREM LocksAreSafe == Spec => []LocksInv
  BY TypeCorrect, PatchesLockInOrder, NoDeadlyEmbrace, StopReleasesAll, PTL DEF LocksInv

-----------------------------------------------------------------------------
(* Edit awareness, which reads and writes the history in steps of the      *)
(* locks.                                                                  *)

\* Without the history every step is a step of the locks: what is proved of those
\* holds here too.
LEMMA AwareStepsAreLockSteps == [ANext]_<<vars, awareness>> => [Next]_vars
BY ZenonT(30) DEF ANext, Next, Clock, Turn, WentIdle, ReadBefore, ReadAfter, Recorded, Unrecorded,
   TurnOver, Elsewhere, HookStep, awareness

LEMMA AwareIsLocks == ASpec => Spec
<1>1. AInit => Init
  BY DEF AInit
<1>2. QED
  BY <1>1, AwareStepsAreLockSteps, PTL DEF ASpec, Spec

\* Recording an edit takes the recorder's notes of it with it; whoever else has a note
\* of the file is told of another still.
LEMMA NotesStep ==
    ASSUME TypeOK, TypeOK', AwarenessOK, NotesAreTrue, [ANext]_<<vars, awareness>>
    PROVE  AwarenessOK' /\ NotesAreTrue'
<1> USE FileLocksAssumption DEF AwarenessOK, NotesAreTrue, awareness
<1>1. CASE UNCHANGED awareness
  BY <1>1
<1>2. ASSUME NEW f \in File, WentIdle(f) PROVE AwarenessOK' /\ NotesAreTrue'
  BY <1>2 DEF WentIdle
<1>3. ASSUME NEW p \in Instance, ReadBefore(p) PROVE AwarenessOK' /\ NotesAreTrue'
  <2>1. g'[p].targets \in SUBSET File
    BY DEF TypeOK, Guard
  <2>2. ByOthers(g'[p].targets, p) \in SUBSET File
    BY <2>1 DEF ByOthers
  <2>3. QED
    BY <1>3, <2>1, <2>2 DEF ReadBefore, ByOthers
<1>4. ASSUME NEW p \in Instance, ReadAfter(p) PROVE AwarenessOK' /\ NotesAreTrue'
  <2>1. ByOthers({g[p].at}, p) \in SUBSET File
    BY DEF ByOthers, TypeOK, Guard
  <2>2. QED
    BY <1>4, <2>1 DEF ReadAfter, ByOthers
<1>5. ASSUME NEW p \in Instance, Recorded(p) PROVE AwarenessOK' /\ NotesAreTrue'
  <2>1. g[p].targets \in SUBSET File
    BY DEF TypeOK, Guard
  <2>2. /\ hist' \in [File -> Instance \cup {Absent}]
        /\ \A f \in File : hist'[f] \in {hist[f], p}
    BY <1>5 DEF Recorded, Sign
  <2>3. noted' = [noted EXCEPT ![p] = {}] /\ held' \in [Instance -> SUBSET File]
    BY <1>5, <2>1 DEF Recorded
  <2>4. QED
    BY <2>2, <2>3
<1>6. ASSUME NEW p \in Instance, Unrecorded(p) PROVE AwarenessOK' /\ NotesAreTrue'
  BY <1>6 DEF Unrecorded
<1>7. ASSUME NEW p \in Instance, TurnOver(p) PROVE AwarenessOK' /\ NotesAreTrue'
  BY <1>7 DEF TurnOver
<1>8. QED
  BY <1>1, <1>2, <1>3, <1>4, <1>5, <1>6, <1>7 DEF ANext, Elsewhere

\* What the history tells is true: a note given with an edit is of another's edit, for
\* any number of instances and files, whatever was recorded between the read and the
\* note (edit_guard, patch_guard).
THEOREM NotesStayTrue == ASpec => []AwarenessInv
<1>1. AInit => AwarenessOK /\ NotesAreTrue
  BY DEF AInit, AwarenessOK, NotesAreTrue
<1>2. TypeOK /\ TypeOK' /\ AwarenessOK /\ NotesAreTrue /\ [ANext]_<<vars, awareness>>
        => AwarenessOK' /\ NotesAreTrue'
  BY NotesStep
<1>3. QED
  BY <1>1, <1>2, AwareIsLocks, TypeCorrect, StopReleasesAll, PTL DEF ASpec, AwarenessInv

-----------------------------------------------------------------------------
(* Checkpoint & Quit.                                                       *)

CheckpointMail == [kind : {"stop", "go"}, no : Nat]

CheckpointTyped ==
    /\ app \in {"up", "down"} /\ alive \subseteq rows /\ rows \subseteq Claudes /\ ears \subseteq alive
    /\ word \in [Claudes -> {"waiting", "working", "background"}]
    /\ box \in [Claudes -> SUBSET CheckpointMail]
    /\ reading \in [Claudes -> CheckpointMail \cup {NoMessage}]
    /\ told \in [Claudes -> {"stop", "go"}]
    /\ sent \subseteq [id : Claudes, no : Nat]
    /\ saved \in [ids : SUBSET Claudes, auto : BOOLEAN]
    /\ queue \subseteq Claudes /\ waited \subseteq Claudes /\ letGo \subseteq Claudes
    /\ run \in [phase : {"none", "stopping", "clear", "loading", "restarting"}, cancel : BOOLEAN]
    /\ rounds \in Nat
    /\ app = "down" => sent = {} /\ queue = {} /\ run = NoRun

\* The round that is on is the last one, and who was asked in it and left is not restored.
StopRoundOK ==
    /\ \A s \in sent : s.no = rounds /\ rounds > 0 /\ (s.id \in rows => s.id \in alive)
    /\ \A c \in Claudes : \A m \in box[c] \cup {reading[c]} : m.no <= rounds

\* take_inbox reads the earliest, and what comes meanwhile is later.
FirstOK ==
    \A c \in Claudes : reading[c] # NoMessage => \A m \in box[c] : m = reading[c] \/ Later(m, reading[c])

\* The file, the queue, or the ones that were let go.
Noted(c) == c \in saved.ids \/ c \in queue \/ c \in letGo

\* Somebody will answer for a stop: the round it is of, or a later word to go on.
StopAnswered(c, m) ==
    \/ Noted(c)
    \/ \E s \in sent : s.id = c /\ m = StopMail(s.no)
    \/ \E n \in box[c] : n.kind = "go" /\ Later(n, m)

StopsOK == \A c \in Claudes : \A m \in box[c] \cup {reading[c]} : m.kind = "stop" => StopAnswered(c, m)

\* Who was told to stop is noted, or was asked in this round and has read it, or will read
\* that it may go on.
ToldOK ==
    \A c \in rows : told[c] = "stop" =>
        \/ Noted(c)
        \/ \E s \in sent : s.id = c /\ ~Unread(s)
        \/ \E m \in box[c] : m.kind = "go"

CheckpointIInv == CheckpointTyped /\ StopRoundOK /\ FirstOK /\ StopsOK /\ ToldOK

-----------------------------------------------------------------------------
LEMMA CheckpointStart ==
    ASSUME CheckpointInit PROVE CheckpointIInv
<1>1. CheckpointTyped
  BY DEF CheckpointInit, CheckpointTyped, CheckpointMail, NoMessage, NoSaved, NoRun
<1>2. StopRoundOK /\ FirstOK /\ StopsOK /\ ToldOK
  BY DEF CheckpointInit, StopRoundOK, FirstOK, StopsOK, ToldOK, NoMessage
<1> QED BY <1>1, <1>2 DEF CheckpointIInv

\* A message is its kind and its round, and one that is read was in an inbox.
LEMMA MessagesAre ==
    ASSUME CheckpointIInv
    PROVE  /\ rounds \in Nat /\ \A n : StopMail(n).kind = "stop" /\ StopMail(n).no = n
                                       /\ GoMail(n).kind = "go" /\ GoMail(n).no = n
           /\ \A c \in Claudes : reading[c] = NoMessage \/ reading[c] \in CheckpointMail
           /\ NoMessage.kind = "none" /\ NoMessage.no = 0
           /\ \A c \in Claudes : box[c] \subseteq CheckpointMail
           /\ \A m \in CheckpointMail : /\ m.kind \in {"stop", "go"} /\ m.no \in Nat
                                        /\ m.kind = "stop" => m = StopMail(m.no)
                                        /\ m.kind = "go" => m = GoMail(m.no)
  BY DEF CheckpointIInv, CheckpointTyped, CheckpointMail, NoMessage, StopMail, GoMail

\* What the app says at the end of a round is the last word.
LEMMA GoIsLast ==
    ASSUME CheckpointIInv, NEW c \in Claudes, NEW m \in box[c] \cup {reading[c]}, m # NoMessage
    PROVE  /\ m = GoMail(rounds) \/ Later(GoMail(rounds), m)
           /\ m.kind = "stop" => Later(GoMail(rounds), m)
<1>1. m \in CheckpointMail
  BY MessagesAre
<1>2. m.no <= rounds /\ m.no \in Nat /\ rounds \in Nat /\ m.kind \in {"stop", "go"}
  BY <1>1, MessagesAre DEF CheckpointIInv, StopRoundOK
<1>3. GoMail(rounds).kind = "go" /\ GoMail(rounds).no = rounds
  BY MessagesAre
<1>4. CASE m.kind = "stop"
  BY <1>2, <1>3, <1>4 DEF Later
<1>5. CASE m.kind = "go"
  <2>1. m = GoMail(m.no)
    BY <1>1, <1>5, MessagesAre
  <2> QED BY <1>2, <1>3, <1>5, <2>1 DEF Later
<1> QED BY <1>2, <1>4, <1>5

\* A step that leaves the messages and the round alone, and forgets nobody.
LEMMA CheckpointRests ==
    ASSUME CheckpointIInv, CheckpointTyped', UNCHANGED <<box, reading, sent, rounds>>,
           rows' \subseteq rows, alive \cap rows' \subseteq alive',
           saved.ids \cup queue \cup letGo \subseteq saved'.ids \cup queue' \cup letGo',
           \A c \in Claudes : told'[c] = "stop" => told[c] = "stop"
    PROVE  CheckpointIInv'
<1>1. StopRoundOK' /\ FirstOK'
  BY DEF CheckpointIInv, CheckpointTyped, StopRoundOK, FirstOK
<1>2. \A c : Noted(c) => c \in saved'.ids \/ c \in queue' \/ c \in letGo'
  BY DEF Noted
<1>3. StopsOK'
  BY <1>2 DEF CheckpointIInv, StopsOK, StopAnswered, Noted
<1>4. ToldOK'
  BY <1>2 DEF CheckpointIInv, CheckpointTyped, ToldOK, Noted, Unread
<1> QED BY <1>1, <1>3, <1>4 DEF CheckpointIInv

-----------------------------------------------------------------------------
(* The claudes.                                                             *)

LEMMA CheckpointTurns ==
    ASSUME CheckpointIInv, NEW c \in Claudes,
           TurnBegins(c) \/ MailBegins(c) \/ TurnEnds(c) \/ ListenerStarts(c) \/ ListenerDies(c) \/ Retries(c) \/ WaitEnds(c)
    PROVE  CheckpointIInv'
<1>1. /\ UNCHANGED <<app, rows, box, reading, sent, saved, queue, run, letGo, rounds>>
      /\ alive \subseteq alive'
      /\ \A d \in Claudes : told'[d] = "stop" => told[d] = "stop"
  BY DEF TurnBegins, MailBegins, TurnEnds, ListenerStarts, ListenerDies, Retries, WaitEnds, claudeVars,
         CheckpointIInv, CheckpointTyped
<1>2. CheckpointTyped'
  <2>1. word' \in [Claudes -> {"waiting", "working", "background"}] /\ told' \in [Claudes -> {"stop", "go"}]
    BY DEF TurnBegins, MailBegins, TurnEnds, ListenerStarts, ListenerDies, Retries, WaitEnds, claudeVars, WordOf,
           CheckpointIInv, CheckpointTyped
  <2>2. alive' \subseteq rows /\ ears' \subseteq alive' /\ waited' \subseteq Claudes
    BY DEF TurnBegins, MailBegins, TurnEnds, ListenerStarts, ListenerDies, Retries, WaitEnds, claudeVars,
           CheckpointIInv, CheckpointTyped
  <2> QED BY <1>1, <2>1, <2>2 DEF CheckpointIInv, CheckpointTyped
<1> QED BY <1>1, <1>2, CheckpointRests

LEMMA CheckpointReads ==
    ASSUME CheckpointIInv, NEW c \in Claudes, Reads(c) PROVE CheckpointIInv'
<1>1. PICK m \in box[c] : (\A n \in box[c] : n = m \/ Later(n, m)) /\ reading' = [reading EXCEPT ![c] = m]
  BY DEF Reads
<1>2. UNCHANGED <<app, alive, rows, word, ears, box, told, sent, saved, queue, waited, run, letGo, rounds>>
  BY DEF Reads
<1>3. CheckpointTyped'
  BY <1>1, <1>2, MessagesAre DEF CheckpointIInv, CheckpointTyped
<1>4. reading'[c] = m /\ \A d \in Claudes : d # c => reading'[d] = reading[d]
  BY <1>1 DEF CheckpointIInv, CheckpointTyped
<1>5. StopRoundOK' /\ FirstOK'
  BY <1>1, <1>2, <1>4 DEF CheckpointIInv, StopRoundOK, FirstOK
<1>6. StopsOK'
  BY <1>1, <1>2, <1>4 DEF CheckpointIInv, StopsOK, StopAnswered, Noted
<1>7. ToldOK'
  BY <1>2 DEF CheckpointIInv, ToldOK, Noted, Unread
<1> QED BY <1>3, <1>5, <1>6, <1>7 DEF CheckpointIInv

\* What it was told is no longer in the inbox; what answers for another stop is.
LEMMA CheckpointRemoves ==
    ASSUME CheckpointIInv, NEW c \in Claudes, Removes(c) PROVE CheckpointIInv'
<1> DEFINE r == reading[c]
<1>1. /\ UNCHANGED <<app, alive, rows, word, ears, sent, saved, queue, waited, run, letGo, rounds>>
      /\ box' = [box EXCEPT ![c] = @ \ {r}]
      /\ told' = [told EXCEPT ![c] = r.kind]
      /\ reading' = [reading EXCEPT ![c] = NoMessage]
      /\ r # NoMessage
  BY DEF Removes
<1>2. r \in CheckpointMail /\ r.kind \in {"stop", "go"} /\ r.no \in Nat /\ rounds \in Nat
  BY <1>1, MessagesAre
<1>3. CheckpointTyped'
  BY <1>1, <1>2 DEF CheckpointIInv, CheckpointTyped
<1>4. /\ box'[c] = box[c] \ {r} /\ reading'[c] = NoMessage /\ told'[c] = r.kind
      /\ \A d \in Claudes : d # c => box'[d] = box[d] /\ reading'[d] = reading[d] /\ told'[d] = told[d]
  BY <1>1 DEF CheckpointIInv, CheckpointTyped
<1> HIDE DEF r
<1>5. StopRoundOK' /\ FirstOK'
  <2>1. \A d \in Claudes : \A m \in box'[d] \cup {reading'[d]} : m.no <= rounds
    BY <1>2, <1>4, MessagesAre DEF CheckpointIInv, StopRoundOK
  <2>2. FirstOK'
    BY <1>4 DEF CheckpointIInv, FirstOK
  <2> QED BY <1>1, <2>1, <2>2 DEF CheckpointIInv, StopRoundOK
<1>6. ASSUME NEW m \in box[c] \cup {r}, m.kind = "stop"
      PROVE  \/ Noted(c)
             \/ \E s \in sent : s.id = c /\ m = StopMail(s.no)
             \/ \E n \in box'[c] : n.kind = "go" /\ Later(n, m)
  <2>1. StopAnswered(c, m)
    BY <1>6 DEF CheckpointIInv, StopsOK, r
  <2>2. CASE \E n \in box[c] : n.kind = "go" /\ Later(n, m)
    <3>1. PICK n \in box[c] : n.kind = "go" /\ Later(n, m)
      BY <2>2
    <3>2. n # r
      <4>1. SUFFICES ASSUME n = r PROVE FALSE
        OBVIOUS
      <4>2. m \in box[c] /\ m # r
        BY <1>6, <3>1, <4>1
      <4>3. Later(m, n)
        BY <1>1, <4>1, <4>2 DEF CheckpointIInv, FirstOK, r
      <4>4. m.no \in Nat /\ n.no \in Nat
        BY <3>1, <4>2, MessagesAre
      <4> QED BY <1>6, <3>1, <4>3, <4>4 DEF Later
    <3> QED BY <1>4, <3>1, <3>2
  <2> QED BY <2>1, <2>2 DEF StopAnswered
<1>7. StopsOK'
  <2> SUFFICES ASSUME NEW d \in Claudes, NEW m \in box'[d] \cup {reading'[d]}, m.kind = "stop"
               PROVE  \/ Noted(d)
                      \/ \E s \in sent : s.id = d /\ m = StopMail(s.no)
                      \/ \E n \in box'[d] : n.kind = "go" /\ Later(n, m)
    BY <1>1 DEF StopsOK, StopAnswered, Noted
  <2>1. CASE d = c
    <3>1. m \in box[c]
      BY <1>4, <2>1, MessagesAre
    <3> QED BY <1>6, <2>1, <3>1
  <2>2. CASE d # c
    <3>1. box'[d] = box[d] /\ reading'[d] = reading[d]
      BY <1>4, <2>2
    <3>2. StopAnswered(d, m)
      BY <3>1 DEF CheckpointIInv, StopsOK
    <3> QED BY <3>1, <3>2 DEF StopAnswered
  <2> QED BY <2>1, <2>2
<1>8. ToldOK'
  <2> SUFFICES ASSUME NEW d \in rows, told'[d] = "stop"
               PROVE  \/ Noted(d)
                      \/ \E s \in sent : s.id = d /\ StopMail(s.no) \notin box'[s.id]
                      \/ \E m \in box'[d] : m.kind = "go"
    BY <1>1 DEF ToldOK, Noted, Unread
  <2>0. d \in Claudes
    BY DEF CheckpointIInv, CheckpointTyped
  <2>1. CASE d = c
    BY <1>4, <1>6, <2>1
  <2>2. CASE d # c
    <3>1. box'[d] = box[d] /\ told'[d] = told[d]
      BY <1>4, <2>0, <2>2
    <3> QED BY <3>1 DEF CheckpointIInv, ToldOK, Unread
  <2> QED BY <2>1, <2>2
<1> QED BY <1>3, <1>5, <1>7, <1>8 DEF CheckpointIInv

LEMMA CheckpointExits ==
    ASSUME CheckpointIInv, NEW c \in Claudes, Exits(c) PROVE CheckpointIInv'
<1>1. /\ UNCHANGED <<app, word, told, sent, saved, queue, waited, run, letGo, rounds>>
      /\ alive' = alive \ {c} /\ rows' = rows \ {c} /\ ears' = ears \ {c}
      /\ box' = [box EXCEPT ![c] = {}] /\ reading' = [reading EXCEPT ![c] = NoMessage]
  BY DEF Exits
<1>2. CheckpointTyped'
  BY <1>1 DEF CheckpointIInv, CheckpointTyped
<1>3. /\ box'[c] = {} /\ reading'[c] = NoMessage
      /\ \A d \in Claudes : d # c => box'[d] = box[d] /\ reading'[d] = reading[d]
  BY <1>1 DEF CheckpointIInv, CheckpointTyped
<1>4. StopRoundOK' /\ FirstOK'
  BY <1>1, <1>3, MessagesAre DEF CheckpointIInv, StopRoundOK, FirstOK
<1>5. StopsOK'
  BY <1>1, <1>3, MessagesAre DEF CheckpointIInv, StopsOK, StopAnswered, Noted
<1>6. ToldOK'
  BY <1>1, <1>3 DEF CheckpointIInv, CheckpointTyped, ToldOK, Noted, Unread
<1> QED BY <1>2, <1>4, <1>5, <1>6 DEF CheckpointIInv

-----------------------------------------------------------------------------
(* The round.                                                               *)

\* Who was asked before is let go, and who is asked now has it unread.
LEMMA CheckpointAsks ==
    ASSUME CheckpointIInv, Asks, UNCHANGED <<app, alive, rows, word, ears, reading, told, saved, queue, waited>>,
           app = "up", run' \in [phase : {"none", "stopping", "clear", "loading", "restarting"}, cancel : BOOLEAN]
    PROVE  CheckpointIInv'
<1>1. PICK k \in Nat : k = rounds /\ rounds' = k + 1
  BY DEF Asks, CheckpointIInv, CheckpointTyped
<1> DEFINE stop == StopMail(k + 1)
<1>2. /\ sent' = {[id |-> c, no |-> k + 1] : c \in alive}
      /\ letGo' = letGo \cup AskedToStop
      /\ \A c \in Claudes : box'[c] = IF c \in alive THEN box[c] \cup {stop} ELSE box[c]
      /\ box' \in [Claudes -> SUBSET CheckpointMail]
  BY <1>1 DEF Asks, Round, StopMail, CheckpointMail, CheckpointIInv, CheckpointTyped
<1>3. stop.kind = "stop" /\ stop.no = k + 1
  BY MessagesAre
<1>4. alive \subseteq Claudes /\ AskedToStop \subseteq Claudes
  BY DEF CheckpointIInv, CheckpointTyped, AskedToStop
<1>5. CheckpointTyped'
  BY <1>1, <1>2, <1>4 DEF CheckpointIInv, CheckpointTyped
<1> HIDE DEF stop
<1>6. \A c \in Claudes : \A m \in box[c] \cup {reading[c]} : m.no <= k /\ m.no \in Nat
  BY <1>1, MessagesAre DEF CheckpointIInv, StopRoundOK
<1>7. StopRoundOK'
  BY <1>1, <1>2, <1>3, <1>6 DEF StopRoundOK
<1>8. FirstOK'
  <2>1. \A c \in Claudes : Later(stop, reading[c])
    BY <1>1, <1>3, <1>6 DEF Later
  <2> QED BY <1>2, <2>1 DEF CheckpointIInv, FirstOK
<1>9. \A c : Noted(c) \/ (\E s \in sent : s.id = c) => c \in saved'.ids \/ c \in queue' \/ c \in letGo'
  BY <1>2 DEF Noted, AskedToStop
<1>10. StopsOK'
  <2> SUFFICES ASSUME NEW c \in Claudes, NEW m \in box'[c] \cup {reading[c]}, m.kind = "stop"
               PROVE  \/ c \in saved'.ids \/ c \in queue' \/ c \in letGo'
                      \/ \E s \in sent' : s.id = c /\ m = StopMail(s.no)
                      \/ \E n \in box'[c] : n.kind = "go" /\ Later(n, m)
    BY DEF StopsOK, StopAnswered, Noted
  <2>1. CASE m \in box[c] \cup {reading[c]}
    <3>1. StopAnswered(c, m)
      BY <2>1 DEF CheckpointIInv, StopsOK
    <3> QED BY <1>2, <1>9, <3>1 DEF StopAnswered
  <2>2. CASE c \in alive /\ m = stop
    <3>1. [id |-> c, no |-> k + 1] \in sent'
      BY <1>2, <2>2
    <3> QED BY <2>2, <3>1 DEF stop
  <2> QED BY <1>2, <2>1, <2>2
<1>11. ToldOK'
  <2> SUFFICES ASSUME NEW c \in rows, told[c] = "stop"
               PROVE  \/ c \in saved'.ids \/ c \in queue' \/ c \in letGo'
                      \/ \E m \in box'[c] : m.kind = "go"
    BY DEF ToldOK, Noted
  <2>1. c \in Claudes
    BY DEF CheckpointIInv, CheckpointTyped
  <2> QED BY <1>2, <1>9, <2>1 DEF CheckpointIInv, ToldOK
<1> QED BY <1>5, <1>7, <1>8, <1>10, <1>11 DEF CheckpointIInv

\* Who has not read its stop loses it, who has is told to go on, and who is reading it is
\* let go.
LEMMA CheckpointCallsOff ==
    ASSUME CheckpointIInv, CallsOff, UNCHANGED <<app, alive, rows, word, ears, reading, told, saved, queue, waited, rounds>>,
           run' \in [phase : {"none", "stopping", "clear", "loading", "restarting"}, cancel : BOOLEAN],
           app = "down" => run' = run
    PROVE  CheckpointIInv'
<1> DEFINE mine(c) == {s \in sent : s.id = c}
           go == GoMail(rounds)
<1>1. /\ sent' = {}
      /\ letGo' = letGo \cup {c \in Claudes : \E s \in sent : s.id = c /\ reading[c] = StopMail(s.no)}
      /\ box' = [c \in Claudes |-> Released(c)]
  BY DEF CallsOff
<1>2. \A c \in Claudes : box'[c] =
          IF \E s \in mine(c) : Unread(s) THEN box[c] \ {StopMail(s.no) : s \in mine(c)}
          ELSE IF mine(c) # {} /\ c \in alive THEN box[c] \cup {go} ELSE box[c]
  BY <1>1 DEF Released
<1>3. go.kind = "go" /\ go.no = rounds /\ go \in CheckpointMail /\ rounds \in Nat /\ \A n : StopMail(n).kind = "stop"
  BY MessagesAre DEF GoMail, CheckpointMail
<1>4. \A c \in Claudes : /\ box'[c] \subseteq box[c] \cup {go}
                         /\ \A n \in box[c] : n.kind = "go" => n \in box'[c]
  <2> SUFFICES ASSUME NEW c \in Claudes
               PROVE  box'[c] \subseteq box[c] \cup {go} /\ \A n \in box[c] : n.kind = "go" => n \in box'[c]
    OBVIOUS
  <2>1. CASE \E s \in mine(c) : Unread(s)
    <3>1. box'[c] = box[c] \ {StopMail(s.no) : s \in mine(c)}
      BY <1>2, <2>1, Zenon
    <3>2. \A n \in {StopMail(s.no) : s \in mine(c)} : n.kind = "stop"
      BY <1>3
    <3> HIDE DEF mine
    <3> QED BY <3>1, <3>2
  <2>2. CASE ~\E s \in mine(c) : Unread(s)
    <3>1. box'[c] = IF mine(c) # {} /\ c \in alive THEN box[c] \cup {go} ELSE box[c]
      BY <1>2, <2>2, Zenon
    <3> HIDE DEF mine
    <3> QED BY <3>1
  <2> QED BY <2>1, <2>2
<1>5. CheckpointTyped'
  <2>1. box' \in [Claudes -> SUBSET CheckpointMail]
    BY <1>1, <1>3, <1>4, MessagesAre
  <2> QED BY <1>1, <2>1 DEF CheckpointIInv, CheckpointTyped
<1> HIDE DEF go
<1>6. StopRoundOK'
  BY <1>1, <1>3, <1>4 DEF CheckpointIInv, StopRoundOK
<1>7. FirstOK'
  <2>1. \A c \in Claudes : reading[c] # NoMessage => go = reading[c] \/ Later(go, reading[c])
    BY GoIsLast DEF go
  <2> QED BY <1>4, <2>1 DEF CheckpointIInv, FirstOK
<1>8. \A c : Noted(c) => c \in saved'.ids \/ c \in queue' \/ c \in letGo'
  BY <1>1 DEF Noted
<1>9. StopsOK'
  <2> SUFFICES ASSUME NEW c \in Claudes, NEW m \in box'[c] \cup {reading[c]}, m.kind = "stop"
               PROVE  \/ c \in saved'.ids \/ c \in queue' \/ c \in letGo'
                      \/ \E n \in box'[c] : n.kind = "go" /\ Later(n, m)
    BY DEF StopsOK, StopAnswered, Noted
  <2>1. m \in box[c] \cup {reading[c]}
    BY <1>3, <1>4
  <2>2. StopAnswered(c, m)
    BY <2>1 DEF CheckpointIInv, StopsOK
  <2>3. CASE \E s \in sent : s.id = c /\ m = StopMail(s.no)
    <3>1. PICK s \in sent : s.id = c /\ m = StopMail(s.no)
      BY <2>3
    <3>2. CASE m = reading[c]
      BY <1>1, <3>1, <3>2
    <3>3. CASE m \in box'[c] /\ m # reading[c]
      <4>1. m \in box[c] /\ s \in mine(c) /\ Unread(s)
        BY <2>1, <3>1, <3>3 DEF Unread
      <4>2. box'[c] = box[c] \ {StopMail(t.no) : t \in mine(c)}
        BY <1>2, <4>1, Zenon
      <4>3. StopMail(s.no) \in {StopMail(t.no) : t \in mine(c)}
        BY <4>1
      <4> HIDE DEF mine
      <4> QED BY <3>1, <3>3, <4>2, <4>3
    <3> QED BY <3>2, <3>3
  <2> QED BY <1>4, <1>8, <2>2, <2>3 DEF StopAnswered
<1>10. ToldOK'
  <2> SUFFICES ASSUME NEW c \in rows, told[c] = "stop"
               PROVE  \/ c \in saved'.ids \/ c \in queue' \/ c \in letGo'
                      \/ \E m \in box'[c] : m.kind = "go"
    BY DEF ToldOK, Noted
  <2>0. c \in Claudes
    BY DEF CheckpointIInv, CheckpointTyped
  <2>1. CASE \E s \in sent : s.id = c /\ ~Unread(s)
    <3>1. PICK s \in sent : s.id = c /\ ~Unread(s)
      BY <2>1
    <3>2. c \in alive /\ s \in mine(c)
      BY <3>1 DEF CheckpointIInv, StopRoundOK
    <3>3. \A t \in mine(c) : ~Unread(t)
      BY <3>1 DEF CheckpointIInv, StopRoundOK, Unread
    <3> QED BY <1>2, <1>3, <2>0, <3>2, <3>3
  <2> QED BY <1>4, <1>8, <2>0, <2>1 DEF CheckpointIInv, ToldOK
<1> QED BY <1>5, <1>6, <1>7, <1>9, <1>10 DEF CheckpointIInv

-----------------------------------------------------------------------------
(* The end of the app, and its wakes.                                       *)

\* All that only the memory knew is let go.
LEMMA CheckpointEnds ==
    ASSUME CheckpointIInv, Quits \/ Crashes PROVE CheckpointIInv'
<1>1. PICK unread \in SUBSET Claudes :
          /\ AppEnds(unread)
          /\ \/ /\ alive' = {} /\ ears' = {} /\ word' = [c \in Claudes |-> "waiting"]
                /\ box' = [c \in Claudes |-> {}] /\ reading' = [c \in Claudes |-> NoMessage]
                /\ unread = {c \in Claudes : box[c] # {}}
             \/ UNCHANGED <<alive, ears, word, box, reading>>
  BY DEF Quits, Crashes
<1>2. /\ app' = "down" /\ sent' = {} /\ queue' = {} /\ waited' = {} /\ run' = NoRun
      /\ letGo' = letGo \cup Forgotten \cup unread
      /\ UNCHANGED <<rows, told, saved, rounds>>
  BY <1>1 DEF AppEnds
<1>3. AskedToStop \subseteq Claudes
  BY DEF CheckpointIInv, CheckpointTyped, AskedToStop
<1>4. CheckpointTyped'
  BY <1>1, <1>2, <1>3 DEF CheckpointIInv, CheckpointTyped, Forgotten, NoRun
<1>5. \A c : Noted(c) \/ (\E s \in sent : s.id = c) => c \in saved'.ids \/ c \in queue' \/ c \in letGo'
  BY <1>2 DEF Noted, AskedToStop, Forgotten
<1>6. StopRoundOK' /\ FirstOK'
  BY <1>1, <1>2, MessagesAre DEF CheckpointIInv, StopRoundOK, FirstOK
<1>7. StopsOK'
  <2>1. ASSUME UNCHANGED <<box, reading>>, NEW c \in Claudes, NEW m \in box[c] \cup {reading[c]}, m.kind = "stop"
        PROVE  \/ c \in saved'.ids \/ c \in queue' \/ c \in letGo'
               \/ \E n \in box'[c] : n.kind = "go" /\ Later(n, m)
    BY <1>5, <2>1 DEF CheckpointIInv, StopsOK, StopAnswered
  <2>2. UNCHANGED <<box, reading>> => StopsOK'
    BY <2>1 DEF StopsOK, StopAnswered, Noted
  <2> QED BY <1>1, <2>2, MessagesAre DEF StopsOK
<1>8. ToldOK'
  <2> SUFFICES ASSUME NEW c \in rows, told[c] = "stop"
               PROVE  \/ c \in saved'.ids \/ c \in queue' \/ c \in letGo'
                      \/ \E m \in box'[c] : m.kind = "go"
    BY <1>2 DEF ToldOK, Noted
  <2>1. c \in Claudes
    BY DEF CheckpointIInv, CheckpointTyped
  <2>2. CASE \E m \in box[c] : m.kind = "go"
    BY <1>1, <1>2, <2>1, <2>2
  <2> QED BY <1>5, <2>2 DEF CheckpointIInv, ToldOK
<1> QED BY <1>4, <1>6, <1>7, <1>8 DEF CheckpointIInv

\* Who is heard is told to go on; who is gone is let go.
LEMMA CheckpointDrains ==
    ASSUME CheckpointIInv, Drains PROVE CheckpointIInv'
<1> DEFINE heard == {c \in queue \cap alive : Hears(c)}
           go == GoMail(rounds)
<1>1. /\ UNCHANGED <<app, alive, rows, word, ears, reading, told, sent, saved, waited, run, rounds>>
      /\ box' = [c \in Claudes |-> IF c \in heard THEN box[c] \cup {go} ELSE box[c]]
      /\ queue' = (queue \cap alive) \ heard
      /\ letGo' = letGo \cup (queue \ alive)
      /\ app = "up"
  BY DEF Drains, claudeVars
<1>2. go.kind = "go" /\ go.no = rounds /\ go \in CheckpointMail /\ rounds \in Nat /\ \A n : StopMail(n).kind = "stop"
  BY MessagesAre DEF GoMail, CheckpointMail
<1>3. CheckpointTyped'
  BY <1>1, <1>2 DEF CheckpointIInv, CheckpointTyped
<1> HIDE DEF heard, go
<1>4. \A c \in Claudes : box[c] \subseteq box'[c] /\ box'[c] \subseteq box[c] \cup {go} /\ (c \in heard => go \in box'[c])
  BY <1>1
<1>5. \A c : Noted(c) => c \in heard \/ c \in saved'.ids \/ c \in queue' \/ c \in letGo'
  BY <1>1 DEF Noted
<1>6. StopRoundOK'
  BY <1>1, <1>2, <1>4 DEF CheckpointIInv, StopRoundOK
<1>7. FirstOK'
  <2>1. \A c \in Claudes : reading[c] # NoMessage => go = reading[c] \/ Later(go, reading[c])
    BY GoIsLast DEF go
  <2> QED BY <1>1, <1>4, <2>1 DEF CheckpointIInv, FirstOK
<1>8. StopsOK'
  <2> SUFFICES ASSUME NEW c \in Claudes, NEW m \in box'[c] \cup {reading[c]}, m.kind = "stop"
               PROVE  \/ c \in saved'.ids \/ c \in queue' \/ c \in letGo'
                      \/ \E s \in sent : s.id = c /\ m = StopMail(s.no)
                      \/ \E n \in box'[c] : n.kind = "go" /\ Later(n, m)
    BY <1>1 DEF StopsOK, StopAnswered, Noted
  <2>1. m \in box[c] \cup {reading[c]}
    BY <1>2, <1>4
  <2>2. StopAnswered(c, m)
    BY <2>1 DEF CheckpointIInv, StopsOK
  <2>3. CASE c \in heard
    <3>1. m # NoMessage
      BY MessagesAre
    <3>2. Later(go, m)
      BY <2>1, <3>1, GoIsLast DEF go
    <3> QED BY <1>2, <1>4, <2>3, <3>2
  <2> QED BY <1>4, <1>5, <2>2, <2>3 DEF StopAnswered
<1>9. ToldOK'
  <2> SUFFICES ASSUME NEW c \in rows, told[c] = "stop"
               PROVE  \/ c \in saved'.ids \/ c \in queue' \/ c \in letGo'
                      \/ \E s \in sent : s.id = c /\ StopMail(s.no) \notin box'[s.id]
                      \/ \E m \in box'[c] : m.kind = "go"
    BY <1>1 DEF ToldOK, Noted, Unread
  <2>1. c \in Claudes
    BY DEF CheckpointIInv, CheckpointTyped
  <2>2. CASE \E s \in sent : s.id = c /\ ~Unread(s)
    BY <1>2, <1>4, <2>1, <2>2 DEF Unread
  <2> QED BY <1>2, <1>4, <1>5, <2>1, <2>2 DEF CheckpointIInv, ToldOK
<1> QED BY <1>3, <1>6, <1>7, <1>8, <1>9 DEF CheckpointIInv

\* The file is written, dismissed or read: nobody in it is forgotten.
LEMMA FileRemembers ==
    ASSUME CheckpointIInv, UNCHANGED <<rows, word, ears, box, reading, told, sent, rounds>>,
           alive \subseteq alive', alive' \subseteq rows, app' = "up",
           run' \in [phase : {"none", "stopping", "clear", "loading", "restarting"}, cancel : BOOLEAN],
           \/ (\E auto \in BOOLEAN : Commits(auto)) /\ UNCHANGED <<queue, waited>>
           \/ saved' = NoSaved /\ letGo' = letGo \cup saved.ids /\ UNCHANGED <<queue, waited>>
           \/ \E woken \in SUBSET Claudes : QueuesBack(woken)
           \/ UNCHANGED <<queue, waited, saved, letGo>>
    PROVE  CheckpointIInv'
<1>1. saved.ids \cup queue \cup letGo \subseteq saved'.ids \cup queue' \cup letGo'
  BY DEF Commits, NoSaved, QueuesBack, Kept
<1>2. Entries \subseteq Claudes
  BY DEF CheckpointIInv, CheckpointTyped, Entries, AskedToStop
<1>3. /\ saved' \in [ids : SUBSET Claudes, auto : BOOLEAN]
      /\ queue' \subseteq Claudes /\ waited' \subseteq Claudes /\ letGo' \subseteq Claudes
  <2>1. /\ saved.ids \subseteq Claudes /\ queue \subseteq Claudes /\ waited \subseteq Claudes /\ letGo \subseteq Claudes
        /\ saved \in [ids : SUBSET Claudes, auto : BOOLEAN]
    BY DEF CheckpointIInv, CheckpointTyped
  <2>2. ASSUME NEW auto \in BOOLEAN, Commits(auto), UNCHANGED <<queue, waited>>
        PROVE  /\ saved' \in [ids : SUBSET Claudes, auto : BOOLEAN]
               /\ queue' \subseteq Claudes /\ waited' \subseteq Claudes /\ letGo' \subseteq Claudes
    BY <1>2, <2>1, <2>2 DEF Commits, NoSaved
  <2>3. ASSUME NEW woken \in SUBSET Claudes, QueuesBack(woken)
        PROVE  /\ saved' \in [ids : SUBSET Claudes, auto : BOOLEAN]
               /\ queue' \subseteq Claudes /\ waited' \subseteq Claudes /\ letGo' \subseteq Claudes
    BY <2>1, <2>3 DEF NoSaved, QueuesBack, Kept
  <2>4. CASE saved' = NoSaved /\ letGo' = letGo \cup saved.ids /\ UNCHANGED <<queue, waited>>
    BY <2>1, <2>4 DEF NoSaved
  <2>5. CASE UNCHANGED <<queue, waited, saved, letGo>>
    BY <2>1, <2>5
  <2> QED BY <2>2, <2>3, <2>4, <2>5
<1>4. CheckpointTyped'
  BY <1>3 DEF CheckpointIInv, CheckpointTyped
<1> QED BY <1>1, <1>4, CheckpointRests

LEMMA CheckpointFiles ==
    ASSUME CheckpointIInv, UserCommits \/ Dismisses \/ WakesAll \/ Launches \/ OrderCancelled
    PROVE  CheckpointIInv'
<1>1. CASE UserCommits \/ Dismisses
  BY <1>1, FileRemembers DEF UserCommits, Dismisses, claudeVars, CheckpointIInv, CheckpointTyped
<1>2. CASE WakesAll
  <2>1. Back \in SUBSET Claudes
    BY DEF Back, CheckpointIInv, CheckpointTyped
  <2> QED BY <1>2, <2>1, FileRemembers DEF WakesAll, claudeVars, CheckpointIInv, CheckpointTyped
<1>3. CASE Launches
  <2>1. PICK started \in SUBSET (rows \ alive) :
            /\ alive' = alive \cup started
            /\ LET woken == saved.ids \cap (alive \cup started)
               IN  IF saved.auto THEN QueuesBack(woken) ELSE UNCHANGED <<queue, waited, saved, letGo>>
    BY <1>3 DEF Launches
  <2>2. saved.ids \cap (alive \cup started) \in SUBSET Claudes
    BY DEF CheckpointIInv, CheckpointTyped
  <2>3. (\E woken \in SUBSET Claudes : QueuesBack(woken)) \/ UNCHANGED <<queue, waited, saved, letGo>>
    BY <2>1, <2>2
  <2>4. alive \subseteq alive' /\ alive' \subseteq rows
    BY <2>1 DEF CheckpointIInv, CheckpointTyped
  <2> QED BY <1>3, <2>3, <2>4, FileRemembers DEF Launches, CheckpointIInv, CheckpointTyped
<1>4. CASE OrderCancelled
  <2>1. run' \in [phase : {"none", "stopping", "clear", "loading", "restarting"}, cancel : BOOLEAN]
    BY <1>4 DEF OrderCancelled, CheckpointIInv, CheckpointTyped
  <2> QED BY <1>4, <2>1, FileRemembers DEF OrderCancelled, claudeVars, CheckpointIInv, CheckpointTyped
<1> QED BY <1>1, <1>2, <1>3, <1>4

\* The panel's round, and that of an update which was ordered.
LEMMA CheckpointRounds ==
    ASSUME CheckpointIInv, UserAsks \/ UserCallsOff \/ Ordered \/ RunPolls \/ RunInstalls
    PROVE  CheckpointIInv'
<1>1. CASE UserAsks \/ Ordered
  <2>1. run' \in [phase : {"none", "stopping", "clear", "loading", "restarting"}, cancel : BOOLEAN]
    BY <1>1 DEF UserAsks, Ordered, NoRun, CheckpointIInv, CheckpointTyped
  <2> QED BY <1>1, <2>1, CheckpointAsks DEF UserAsks, Ordered, claudeVars
<1>2. CASE UserCallsOff
  BY <1>2, CheckpointCallsOff DEF UserCallsOff, claudeVars, CheckpointIInv, CheckpointTyped
<1>3. ASSUME Undone, app = "up", UNCHANGED <<app, claudeVars, saved, queue, waited, rounds>> PROVE CheckpointIInv'
  BY <1>3, CheckpointCallsOff DEF Undone, NoRun, claudeVars
<1>4. CASE RunPolls
  <2>1. CASE run.cancel
    BY <1>3, <1>4, <2>1 DEF RunPolls, Cancelled
  <2>2. CASE ~run.cancel
    <3>1. /\ UNCHANGED <<box, sent, letGo, app, claudeVars, saved, queue, waited, rounds, spent>> /\ app = "up"
          /\ run' = [run EXCEPT !.phase = IF Left # {} THEN "stopping"
                                            ELSE IF @ = "clear" THEN "loading" ELSE "clear"]
      BY <1>4, <2>2 DEF RunPolls, Cancelled
    <3>2. run' \in [phase : {"none", "stopping", "clear", "loading", "restarting"}, cancel : BOOLEAN]
      BY <3>1 DEF CheckpointIInv, CheckpointTyped
    <3> QED BY <3>1, <3>2, FileRemembers DEF claudeVars, CheckpointIInv, CheckpointTyped
  <2> QED BY <2>1, <2>2
<1>5. CASE RunInstalls
  <2>1. CASE Undone /\ UNCHANGED saved
    BY <1>3, <1>5, <2>1 DEF RunInstalls
  <2>2. CASE Commits(TRUE) /\ run' = [run EXCEPT !.phase = "restarting"] /\ UNCHANGED <<box, sent>>
    <3>2. run' \in [phase : {"none", "stopping", "clear", "loading", "restarting"}, cancel : BOOLEAN]
      BY <2>2 DEF CheckpointIInv, CheckpointTyped
    <3> QED BY <1>5, <2>2, <3>2, FileRemembers DEF RunInstalls, claudeVars, CheckpointIInv, CheckpointTyped
  <2> QED BY <1>5, <2>1, <2>2 DEF RunInstalls
<1> QED BY <1>1, <1>2, <1>4, <1>5

\* Whoever was told to stop is remembered until it is told to go on, and no message is left
\* to stop a claude for a round that is over (checkpoint.rs).
THEOREM StopsAreAnswered == CheckpointSpec => []CheckpointInv
<1>1. CheckpointInit => CheckpointIInv
  BY CheckpointStart
<1>2. CheckpointIInv /\ [CheckpointNext]_checkpointVars => CheckpointIInv'
  <2> SUFFICES ASSUME CheckpointIInv, [CheckpointNext]_checkpointVars PROVE CheckpointIInv'
    OBVIOUS
  <2>1. CASE UNCHANGED checkpointVars
    BY <2>1, CheckpointRests DEF checkpointVars, CheckpointIInv, CheckpointTyped
  <2>2. CASE CheckpointNext
    BY <2>2, CheckpointTurns, CheckpointReads, CheckpointRemoves, CheckpointExits, CheckpointEnds, CheckpointDrains,
       CheckpointFiles, CheckpointRounds DEF CheckpointNext
  <2> QED BY <2>1, <2>2
<1>3. CheckpointIInv => CheckpointInv
  <2> SUFFICES ASSUME CheckpointIInv PROVE CheckpointInv
    OBVIOUS
  <2>1. CheckpointTypeOK
    <3>1. \A s \in sent : /\ s.id \in Claudes /\ s.no \in 1 .. rounds
                          /\ \A t \in sent : t.id = s.id => t = s
      BY DEF CheckpointIInv, CheckpointTyped, StopRoundOK
    <3> QED BY <3>1 DEF CheckpointIInv, CheckpointTyped, CheckpointTypeOK
  <2>2. StoppedIsRemembered
    BY DEF CheckpointIInv, CheckpointTyped, ToldOK, StoppedIsRemembered, Noted, Remembered, AskedToStop
  <2>3. NoStopIsLeft
    BY DEF CheckpointIInv, CheckpointTyped, StopsOK, NoStopIsLeft, StopAnswered, Noted, Remembered, AskedToStop
  <2> QED BY <2>1, <2>2, <2>3 DEF CheckpointInv
<1> QED BY <1>1, <1>2, <1>3, PTL DEF CheckpointSpec
=============================================================================
