---------------------------- MODULE ToolsProofs -----------------------------
(***************************************************************************)
(* Proofs about what the hub tools of a claude reach.  Each component has  *)
(* an inductive invariant, its start, lemmas for its steps, and a theorem. *)
(***************************************************************************)
EXTENDS Terminals, Transcript, Workers, Board,
        FiniteSetTheorems, WellFoundedInduction, SequenceTheorems, TLAPS

-----------------------------------------------------------------------------
(* The workers and their tasks.                                             *)

KidRec == [call : Calls, task : 1..MaxTasks, alive : BOOLEAN,
           row : {"listed", "closing", "hub-closed", "gone"},
           heard : {"nothing", "task", "other"}, expected : BOOLEAN]
Batch == [call : Calls, task : 1..MaxTasks, ids : Seq(Nat)]
Verdicts == {"none", "pending", "failed", "partial"}
Dogs == {"watch", "write", "off"}

WorkersTyped ==
    /\ spawnCall \in [Calls -> Asks] /\ spawnReqs \subseteq Calls /\ IsFiniteSet(spawnReqs)
    /\ batches \in Seq(Batch) /\ done \in [Calls -> Seq(Nat)]
    /\ kids \in Seq(KidRec)
    /\ verdict \in Seq(Verdicts) /\ Len(verdict) = Len(kids)
    /\ dog \in Seq(Dogs) /\ Len(dog) = Len(kids)

\* The ids s are children of call c among K, in the order of its tasks.
Owned(K, c, s) ==
    /\ s \in Seq(1..Len(K))
    /\ \A i \in 1..Len(s) : K[s[i]].call = c
    /\ \A i \in 2..Len(s) : K[s[i - 1]].task < K[s[i]].task

\* A task has one child.
TasksApart == \A k, l \in 1..Len(kids) : kids[k].call = kids[l].call /\ kids[k].task = kids[l].task => k = l

\* A call that was not taken has no children yet.
RequestsOK ==
    \A c \in Calls :
        /\ spawnCall[c].at # "idle" => spawnCall[c].tasks # 0
        /\ spawnCall[c].ok => spawnCall[c].at = "told"
        /\ c \in spawnReqs => spawnCall[c].at \in {"asked", "unconfirmed"}
        /\ c \in spawnReqs \/ spawnCall[c].at = "idle"
              => done[c] = NotDone /\ \A k \in 1..Len(kids) : kids[k].call # c

\* A batch b of a call whose children are K: the call waits, and its children so far are
\* of the tasks before the next.
BatchOf(b, K, D) ==
    /\ spawnCall[b.call].at \in {"asked", "unconfirmed"} /\ D[b.call] = NotDone
    /\ Owned(K, b.call, b.ids)
    /\ \A k \in 1..Len(K) : K[k].call = b.call => K[k].task < b.task

\* A call is in one batch.
QueueOK(q, K, D) ==
    /\ \A i \in 1..Len(q) : BatchOf(q[i], K, D) /\ q[i].task <= spawnCall[q[i].call].tasks
    /\ \A i, j \in 1..Len(q) : q[i].call = q[j].call => i = j

BatchesOK ==
    /\ QueueOK(batches, kids, done)
    /\ \A i \in 1..Len(batches) : batches[i].call \notin spawnReqs

\* What is answered, and what was read of it, are the call's own children.
IdsOK ==
    \A c \in Calls :
        /\ Owned(kids, c, spawnCall[c].ids)
        /\ done[c] # NotDone => Owned(kids, c, done[c])

\* A row that is listed was cleared only for its task.
RulingOK ==
    \A k \in 1..Len(kids) : verdict[k] = "none" /\ kids[k].row = "listed" => kids[k].heard = "task"

OkOK ==
    \A c \in Calls : spawnCall[c].ok =>
        \A i \in 1..Len(spawnCall[c].ids) :
            kids[spawnCall[c].ids[i]].row = "listed" => kids[spawnCall[c].ids[i]].heard = "task"

WorkersIInv == WorkersTyped /\ TasksApart /\ RequestsOK /\ BatchesOK /\ IdsOK /\ RulingOK /\ OkOK

-----------------------------------------------------------------------------
\* A batch may only be given ids once its child is there, and the child is its own.
LEMMA OwnedGrows ==
    ASSUME NEW K, NEW L, Len(K) \in Nat, Len(L) \in Nat, Len(K) <= Len(L), NEW c, NEW s, Owned(K, c, s),
           \A k \in 1..Len(K) : L[k].call = K[k].call /\ L[k].task = K[k].task
    PROVE  Owned(L, c, s)
<1>1. s \in Seq(1..Len(K)) /\ 1..Len(K) \subseteq 1..Len(L)
  BY DEF Owned
<1>2. s \in Seq(1..Len(L))
  BY <1>1, SeqMonotonic
<1>3. Len(s) \in Nat /\ \A i \in 1..Len(s) : s[i] \in 1..Len(K)
  BY <1>1, LenProperties, ElementOfSeq
<1>4. \A i \in 1..Len(s) : L[s[i]].call = c
  BY <1>3 DEF Owned
<1>5. \A i \in 2..Len(s) : L[s[i - 1]].task < L[s[i]].task
  <2> SUFFICES ASSUME NEW i \in 2..Len(s) PROVE L[s[i - 1]].task < L[s[i]].task
    OBVIOUS
  <2>1. i \in 1..Len(s) /\ i - 1 \in 1..Len(s)
    BY <1>3
  <2>2. s[i] \in 1..Len(K) /\ s[i - 1] \in 1..Len(K)
    BY <1>3, <2>1
  <2> QED BY <2>2 DEF Owned
<1> QED BY <1>2, <1>4, <1>5 DEF Owned

LEMMA OwnedNone ==
    ASSUME NEW K, NEW c PROVE Owned(K, c, <<>>)
<1>1. <<>> \in Seq(1..Len(K)) /\ Len(<<>>) = 0
  BY EmptySeq
<1> QED BY <1>1 DEF Owned

\* The child that was just made comes last.
LEMMA OwnedAppends ==
    ASSUME NEW K, Len(K) \in Nat \ {0}, NEW c, NEW s, Owned(K, c, s), K[Len(K)].call = c,
           \A i \in 1..Len(s) : K[s[i]].task < K[Len(K)].task
    PROVE  Owned(K, c, Append(s, Len(K)))
<1> DEFINE t == Append(s, Len(K))
<1>1. s \in Seq(1..Len(K)) /\ Len(K) \in 1..Len(K)
  BY DEF Owned
<1>2. /\ t \in Seq(1..Len(K)) /\ Len(t) = Len(s) + 1 /\ Len(s) \in Nat
      /\ \A i \in 1..Len(s) : t[i] = s[i]
      /\ t[Len(s) + 1] = Len(K)
  BY <1>1, AppendProperties, LenProperties
<1> HIDE DEF t
<1>3. \A i \in 1..Len(t) : K[t[i]].call = c
  <2> SUFFICES ASSUME NEW i \in 1..Len(t) PROVE K[t[i]].call = c
    OBVIOUS
  <2>1. i \in 1..Len(s) \/ i = Len(s) + 1
    BY <1>2
  <2> QED BY <1>2, <2>1 DEF Owned
<1>4. \A i \in 2..Len(t) : K[t[i - 1]].task < K[t[i]].task
  <2> SUFFICES ASSUME NEW i \in 2..Len(t) PROVE K[t[i - 1]].task < K[t[i]].task
    OBVIOUS
  <2>1. CASE i \in 2..Len(s)
    <3>1. i \in 1..Len(s) /\ i - 1 \in 1..Len(s)
      BY <1>2, <2>1
    <3>2. t[i] = s[i] /\ t[i - 1] = s[i - 1]
      BY <1>2, <3>1
    <3> QED BY <2>1, <3>2 DEF Owned
  <2>2. CASE i = Len(s) + 1
    <3>1. i - 1 \in 1..Len(s)
      BY <1>2, <2>2
    <3>2. t[i] = Len(K) /\ t[i - 1] = s[i - 1]
      BY <1>2, <2>2, <3>1
    <3> QED BY <3>1, <3>2
  <2> QED BY <1>2, <2>1, <2>2
<1> QED BY <1>2, <1>3, <1>4 DEF Owned, t

\* NotDone names no child.
LEMMA NotDoneIsNone ==
    ASSUME NEW K, NEW c, Owned(K, c, NotDone) PROVE FALSE
<1>1. NotDone \in Seq(1..Len(K)) /\ 1 \in 1..Len(NotDone) /\ NotDone[1] = 0
  BY DEF Owned, NotDone
<1>2. 0 \in 1..Len(K)
  BY <1>1, ElementOfSeq
<1> QED BY <1>2

-----------------------------------------------------------------------------
LEMMA WorkersStart ==
    ASSUME WorkersInit PROVE WorkersIInv
<1>1. /\ <<>> \in Seq(Nat) /\ <<>> \in Seq(Batch) /\ <<>> \in Seq(KidRec) /\ <<>> \in Seq(Verdicts) /\ <<>> \in Seq(Dogs)
      /\ Len(<<>>) = 0 /\ NotDone \in Seq(Nat)
  BY EmptySeq DEF NotDone
<1>2. 0 \in 0..MaxTasks
  BY WorkersAssumption
<1>3. WorkersTyped
  BY <1>1, <1>2, FS_EmptySet DEF WorkersInit, WorkersTyped, Asks
<1>4. TasksApart /\ RequestsOK /\ BatchesOK /\ RulingOK
  BY <1>1 DEF WorkersInit, TasksApart, RequestsOK, BatchesOK, QueueOK, RulingOK
<1>5. IdsOK /\ OkOK
  BY OwnedNone DEF WorkersInit, IdsOK, OkOK
<1> QED BY <1>3, <1>4, <1>5 DEF WorkersIInv

\* What a child, its row and its watchdog change is not what the calls are about.
LEMMA KidChanges ==
    ASSUME WorkersIInv, UNCHANGED <<spawnCall, spawnReqs, batches, done>>,
           kids' \in Seq(KidRec), Len(kids') = Len(kids),
           verdict' \in Seq(Verdicts), Len(verdict') = Len(verdict),
           dog' \in Seq(Dogs), Len(dog') = Len(dog),
           \A k \in 1..Len(kids) :
              /\ kids'[k].call = kids[k].call /\ kids'[k].task = kids[k].task
              /\ kids'[k].row = "listed" => kids[k].row = "listed"
              /\ kids[k].heard = "task" => kids'[k].heard = "task",
           RulingOK'
    PROVE  WorkersIInv'
<1>0. Len(kids) \in Nat /\ Len(kids') \in Nat /\ Len(batches) \in Nat
  BY LenProperties DEF WorkersIInv, WorkersTyped
<1>1. WorkersTyped'
  BY DEF WorkersIInv, WorkersTyped
<1>2. TasksApart' /\ RequestsOK'
  BY SMTT(30) DEF WorkersIInv, TasksApart, RequestsOK
<1>3. \A c, s : Owned(kids, c, s) => Owned(kids', c, s)
  <2> SUFFICES ASSUME NEW c, NEW s, Owned(kids, c, s) PROVE Owned(kids', c, s)
    OBVIOUS
  <2>1. /\ Len(kids) <= Len(kids')
        /\ \A k \in 1..Len(kids) : kids'[k].call = kids[k].call /\ kids'[k].task = kids[k].task
    BY <1>0
  <2> QED BY <1>0, <2>1, OwnedGrows
<1>4. BatchesOK'
  BY <1>3 DEF WorkersIInv, BatchesOK, QueueOK, BatchOf
<1>5. IdsOK'
  BY <1>3 DEF WorkersIInv, IdsOK
<1>6. OkOK'
  <2>1. \A c \in Calls : /\ spawnCall[c].ids \in Seq(1..Len(kids)) /\ Len(spawnCall[c].ids) \in Nat
                         /\ \A i \in 1..Len(spawnCall[c].ids) : spawnCall[c].ids[i] \in 1..Len(kids)
    BY LenProperties, ElementOfSeq DEF WorkersIInv, IdsOK, Owned
  <2> QED BY <2>1 DEF WorkersIInv, OkOK
<1> QED BY <1>1, <1>2, <1>4, <1>5, <1>6 DEF WorkersIInv

LEMMA KidStep ==
    ASSUME WorkersIInv, NEW k \in Kid, Child(k) \/ KidRow(k)
    PROVE  WorkersIInv'
<1>0. /\ k \in 1..Len(kids) /\ kids \in [1..Len(kids) -> KidRec] /\ Len(kids) \in Nat
      /\ verdict \in [1..Len(kids) -> Verdicts]
  BY LenProperties DEF WorkersIInv, WorkersTyped, Kid
<1>1. PICK e \in KidRec :
          /\ kids' = [kids EXCEPT ![k] = e] /\ e.call = kids[k].call /\ e.task = kids[k].task
          /\ e.row = "listed" => kids[k].row = "listed"
          /\ kids[k].heard = "task" => e.heard = "task"
          /\ \/ UNCHANGED verdict
             \/ verdict' = [verdict EXCEPT ![k] = "none"] /\ (e.row = "gone" \/ e.heard = "task")
             \/ verdict' = [verdict EXCEPT ![k] = "partial"]
          /\ UNCHANGED <<spawnCall, spawnReqs, batches, done, dog>>
  <2>1. CASE Begin(k)
    <3>1. PICK h \in {"task", "other"} : kids' = [kids EXCEPT ![k].heard = h]
      BY <2>1 DEF Begin
    <3> DEFINE e == [kids[k] EXCEPT !.heard = h]
    <3>2. e \in KidRec /\ e.call = kids[k].call /\ e.task = kids[k].task /\ e.row = kids[k].row /\ kids[k].heard = "nothing"
      BY <1>0, <2>1 DEF KidRec, Begin
    <3>3. kids' = [kids EXCEPT ![k] = e]
      BY <3>1
    <3> HIDE DEF e
    <3> QED BY <2>1, <3>2, <3>3 DEF Begin
  <2>2. CASE Rule(k)
    <3> DEFINE e == [kids[k] EXCEPT !.expected = FALSE]
    <3>2. e \in KidRec /\ e.call = kids[k].call /\ e.task = kids[k].task /\ e.row = kids[k].row /\ e.heard = kids[k].heard
      BY <1>0 DEF KidRec
    <3>3. kids' = [kids EXCEPT ![k] = e]
      BY <2>2 DEF Rule
    <3> HIDE DEF e
    <3> QED BY <2>2, <3>2, <3>3 DEF Rule, Ruling
  <2>3. CASE KidDies(k)
    <3> DEFINE e == [kids[k] EXCEPT !.alive = FALSE]
    <3>2. e \in KidRec /\ e.call = kids[k].call /\ e.task = kids[k].task /\ e.row = kids[k].row /\ e.heard = kids[k].heard
      BY <1>0 DEF KidRec
    <3>3. kids' = [kids EXCEPT ![k] = e]
      BY <2>3 DEF KidDies
    <3> HIDE DEF e
    <3> QED BY <2>3, <3>2, <3>3 DEF KidDies
  <2>4. CASE ReapKid(k)
    <3> DEFINE e == [kids[k] EXCEPT !.row = "gone", !.expected = FALSE]
    <3>2. e \in KidRec /\ e.call = kids[k].call /\ e.task = kids[k].task /\ e.row = "gone" /\ e.heard = kids[k].heard
      BY <1>0 DEF KidRec
    <3>3. kids' = [kids EXCEPT ![k] = e]
      BY <1>0, <2>4 DEF ReapKid, KidRec
    <3> HIDE DEF e
    <3> QED BY <2>4, <3>2, <3>3 DEF ReapKid
  <2>5. ASSUME NEW w \in {"closing", "hub-closed"}, kids' = [kids EXCEPT ![k].alive = FALSE, ![k].row = w],
               UNCHANGED <<spawnCall, spawnReqs, batches, done, verdict, dog>>
        PROVE  \E e \in KidRec :
          /\ kids' = [kids EXCEPT ![k] = e] /\ e.call = kids[k].call /\ e.task = kids[k].task
          /\ e.row = "listed" => kids[k].row = "listed"
          /\ kids[k].heard = "task" => e.heard = "task"
          /\ UNCHANGED verdict
    <3> DEFINE e == [kids[k] EXCEPT !.alive = FALSE, !.row = w]
    <3>2. e \in KidRec /\ e.call = kids[k].call /\ e.task = kids[k].task /\ e.row # "listed" /\ e.heard = kids[k].heard
      BY <1>0 DEF KidRec
    <3>3. kids' = [kids EXCEPT ![k] = e]
      BY <1>0, <2>5 DEF KidRec
    <3> HIDE DEF e
    <3> QED BY <2>5, <3>2, <3>3
  <2>6. CASE UserClose(k)
    BY <2>5, <2>6 DEF UserClose
  <2>7. CASE HubClose(k)
    BY <2>5, <2>7 DEF HubClose
  <2> QED BY <2>1, <2>2, <2>3, <2>4, <2>6, <2>7 DEF Child, KidRow
<1>2. /\ kids' \in Seq(KidRec) /\ Len(kids') = Len(kids)
      /\ \A j \in 1..Len(kids) : kids'[j] = IF j = k THEN e ELSE kids[j]
  BY <1>0, <1>1, ExceptSeq DEF WorkersIInv, WorkersTyped
<1>3. /\ verdict' \in Seq(Verdicts) /\ Len(verdict') = Len(verdict)
      /\ \A j \in 1..Len(kids) : j # k => verdict'[j] = verdict[j]
      /\ \/ verdict'[k] = verdict[k]
         \/ verdict'[k] = "none" /\ (e.row = "gone" \/ e.heard = "task")
         \/ verdict'[k] = "partial"
  <2>1. \A w \in Verdicts : /\ [verdict EXCEPT ![k] = w] \in Seq(Verdicts)
                            /\ Len([verdict EXCEPT ![k] = w]) = Len(verdict)
    BY <1>0, ExceptSeq DEF WorkersIInv, WorkersTyped
  <2>2. "none" \in Verdicts /\ "partial" \in Verdicts
    BY DEF Verdicts
  <2> QED BY <1>0, <1>1, <2>1, <2>2 DEF WorkersIInv, WorkersTyped
<1>4. RulingOK'
  BY <1>1, <1>2, <1>3 DEF WorkersIInv, RulingOK
<1>5. UNCHANGED <<spawnCall, spawnReqs, batches, done>> /\ dog' \in Seq(Dogs) /\ Len(dog') = Len(dog)
  BY <1>1 DEF WorkersIInv, WorkersTyped
<1> QED BY <1>1, <1>2, <1>3, <1>4, <1>5, KidChanges

LEMMA WatchStep ==
    ASSUME WorkersIInv, NEW k \in Kid, Watch(k)
    PROVE  WorkersIInv'
<1>0. k \in 1..Len(dog) /\ k \in 1..Len(verdict) /\ kids \in Seq(KidRec)
  BY LenProperties DEF WorkersIInv, WorkersTyped, Kid
<1>1. PICK d \in Dogs : dog' = [dog EXCEPT ![k] = d]
  BY DEF Watch, WatchSettled, WatchGivesUp, WatchFails, Dogs
<1>2. UNCHANGED <<spawnCall, spawnReqs, batches, done, kids>>
  BY DEF Watch, WatchSettled, WatchGivesUp, WatchFails
<1>3. verdict' = verdict \/ verdict' = [verdict EXCEPT ![k] = "failed"]
  BY DEF Watch, WatchSettled, WatchGivesUp, WatchFails
<1>4. dog' \in Seq(Dogs) /\ Len(dog') = Len(dog)
  BY <1>0, <1>1, ExceptSeq DEF WorkersIInv, WorkersTyped
<1>5. /\ verdict' \in Seq(Verdicts) /\ Len(verdict') = Len(verdict)
      /\ \A j \in 1..Len(verdict) : verdict'[j] = "none" => verdict[j] = "none"
  <2>1. "failed" \in Verdicts
    BY DEF Verdicts
  <2>2. /\ [verdict EXCEPT ![k] = "failed"] \in Seq(Verdicts)
        /\ Len([verdict EXCEPT ![k] = "failed"]) = Len(verdict)
        /\ \A j \in 1..Len(verdict) : [verdict EXCEPT ![k] = "failed"][j] = IF j = k THEN "failed" ELSE verdict[j]
    BY <1>0, <2>1, ExceptSeq DEF WorkersIInv, WorkersTyped
  <2>3. CASE verdict' = verdict
    BY <2>3 DEF WorkersIInv, WorkersTyped
  <2>4. CASE verdict' = [verdict EXCEPT ![k] = "failed"]
    <3>1. \A j \in 1..Len(verdict) : verdict'[j] = IF j = k THEN "failed" ELSE verdict[j]
      BY <2>2, <2>4
    <3> QED BY <2>2, <2>4, <3>1
  <2> QED BY <1>3, <2>3, <2>4
<1>6. RulingOK'
  BY <1>2, <1>5 DEF WorkersIInv, WorkersTyped, RulingOK
<1> QED BY <1>0, <1>2, <1>4, <1>5, <1>6, KidChanges

-----------------------------------------------------------------------------
\* A batch is of a call.
LEMMA BatchesAreCalls ==
    ASSUME WorkersIInv PROVE \A i \in 1..Len(batches) : batches[i].call \in Calls
<1>1. \A i \in 1..Len(batches) : batches[i] \in Batch
  BY ElementOfSeq DEF WorkersIInv, WorkersTyped
<1>2. \A b \in Batch : b.call \in Calls
  BY DEF Batch
<1> QED BY <1>1, <1>2

LEMMA CallerStep ==
    ASSUME WorkersIInv, NEW c \in Calls, Caller(c)
    PROVE  WorkersIInv'
<1>0. spawnCall[c] \in Asks /\ Len(kids) \in Nat /\ done[c] \in Seq(Nat)
  BY LenProperties DEF WorkersIInv, WorkersTyped
<1>1. CASE Ask(c)
  <2>1. PICK n \in 1..MaxTasks : spawnCall' = [spawnCall EXCEPT ![c].at = "asked", ![c].tasks = n]
    BY <1>1 DEF Ask
  <2>2. /\ spawnReqs' = spawnReqs \cup {c} /\ UNCHANGED <<batches, done, kids, verdict, dog>>
        /\ spawnCall[c].at = "idle"
    BY <1>1 DEF Ask
  <2>3. n \in 0..MaxTasks /\ n # 0
    BY WorkersAssumption
  <2>4. /\ spawnCall' \in [Calls -> Asks]
        /\ spawnCall'[c].at = "asked" /\ spawnCall'[c].tasks = n
        /\ spawnCall'[c].ids = spawnCall[c].ids /\ spawnCall'[c].ok = spawnCall[c].ok
        /\ \A d \in Calls : d # c => spawnCall'[d] = spawnCall[d]
    BY <2>1, <2>3 DEF WorkersIInv, WorkersTyped, Asks
  <2>5. spawnReqs' \subseteq Calls /\ IsFiniteSet(spawnReqs')
    BY <2>2, FS_AddElement DEF WorkersIInv, WorkersTyped
  <2>6. WorkersTyped'
    BY <2>2, <2>4, <2>5 DEF WorkersIInv, WorkersTyped
  <2>7. RequestsOK'
    BY <2>2, <2>3, <2>4 DEF WorkersIInv, RequestsOK
  <2>8. BatchesOK'
    <3>1. \A i \in 1..Len(batches) : batches[i].call # c
      BY <2>2 DEF WorkersIInv, BatchesOK, QueueOK, BatchOf
    <3>2. \A i \in 1..Len(batches) : batches[i].call \in Calls
      BY BatchesAreCalls
    <3> QED BY <2>2, <2>4, <3>1, <3>2 DEF WorkersIInv, BatchesOK, QueueOK, BatchOf
  <2>9. IdsOK' /\ OkOK' /\ RulingOK' /\ TasksApart'
    BY SMTT(30), <2>2, <2>4 DEF WorkersIInv, IdsOK, OkOK, RulingOK, TasksApart
  <2> QED BY <2>6, <2>7, <2>8, <2>9 DEF WorkersIInv
<1>2. CASE Collect(c)
  <2>1. /\ spawnCall' = [spawnCall EXCEPT ![c].at = "await", ![c].ids = done[c]]
        /\ done' = [done EXCEPT ![c] = NotDone]
        /\ spawnCall[c].at = "asked" /\ done[c] # NotDone
        /\ UNCHANGED <<spawnReqs, batches, kids, verdict, dog>>
    BY <1>2 DEF Collect
  <2>2. /\ spawnCall' \in [Calls -> Asks]
        /\ spawnCall'[c].at = "await" /\ spawnCall'[c].tasks = spawnCall[c].tasks
        /\ spawnCall'[c].ids = done[c] /\ spawnCall'[c].ok = spawnCall[c].ok
        /\ \A d \in Calls : d # c => spawnCall'[d] = spawnCall[d]
    BY <1>0, <2>1 DEF WorkersIInv, WorkersTyped, Asks
  <2>3. NotDone \in Seq(Nat)
    BY DEF NotDone
  <2>4. /\ done' \in [Calls -> Seq(Nat)] /\ done'[c] = NotDone
        /\ \A d \in Calls : d # c => done'[d] = done[d]
    BY <2>1, <2>3 DEF WorkersIInv, WorkersTyped
  <2>5. c \notin spawnReqs /\ \A i \in 1..Len(batches) : batches[i].call # c
    BY <2>1 DEF WorkersIInv, RequestsOK, BatchesOK, QueueOK, BatchOf
  <2>6. WorkersTyped'
    BY <2>1, <2>2, <2>4 DEF WorkersIInv, WorkersTyped
  <2>7. RequestsOK'
    BY <2>1, <2>2, <2>4, <2>5 DEF WorkersIInv, RequestsOK
  <2>8. BatchesOK'
    <3>2. \A i \in 1..Len(batches) : batches[i].call \in Calls
      BY BatchesAreCalls
    <3> QED BY <2>1, <2>2, <2>4, <2>5, <3>2 DEF WorkersIInv, BatchesOK, QueueOK, BatchOf
  <2>9. IdsOK'
    BY <2>1, <2>2, <2>4 DEF WorkersIInv, IdsOK
  <2>10. ~spawnCall[c].ok
    BY <2>1 DEF WorkersIInv, RequestsOK
  <2>11. OkOK'
    BY <2>1, <2>2, <2>10 DEF WorkersIInv, OkOK
  <2> QED BY <2>1, <2>6, <2>7, <2>8, <2>9, <2>11 DEF WorkersIInv, RulingOK, TasksApart
<1>3. ASSUME NEW a \in {"unconfirmed", "told"}, NEW x \in BOOLEAN,
             spawnCall' = [spawnCall EXCEPT ![c].at = a, ![c].ok = x],
             UNCHANGED <<spawnReqs, batches, done, kids, verdict, dog>>,
             a = "unconfirmed" => spawnCall[c].at = "asked",
             a = "told" => spawnCall[c].at = "await",
             x => a = "told" /\ Bad(c) = {}
      PROVE  WorkersIInv'
  <2>2. /\ spawnCall' \in [Calls -> Asks]
        /\ spawnCall'[c].at = a /\ spawnCall'[c].tasks = spawnCall[c].tasks
        /\ spawnCall'[c].ids = spawnCall[c].ids /\ spawnCall'[c].ok = x
        /\ \A d \in Calls : d # c => spawnCall'[d] = spawnCall[d]
    BY <1>0, <1>3 DEF WorkersIInv, WorkersTyped, Asks
  <2>3. WorkersTyped'
    BY <1>3, <2>2 DEF WorkersIInv, WorkersTyped
  <2>4. RequestsOK'
    BY <1>3, <2>2 DEF WorkersIInv, RequestsOK
  <2>5. BatchesOK'
    <3>1. \A i \in 1..Len(batches) : batches[i].call \in Calls
      BY BatchesAreCalls
    <3>2. a = "told" => \A i \in 1..Len(batches) : batches[i].call # c
      BY <1>3 DEF WorkersIInv, BatchesOK, QueueOK, BatchOf
    <3> QED BY <1>3, <2>2, <3>1, <3>2 DEF WorkersIInv, BatchesOK, QueueOK, BatchOf
  <2>6. IdsOK'
    BY <1>3, <2>2 DEF WorkersIInv, IdsOK
  <2>7. OkOK'
    <3>1. /\ spawnCall[c].ids \in Seq(1..Len(kids)) /\ Len(spawnCall[c].ids) \in Nat
          /\ \A i \in 1..Len(spawnCall[c].ids) : spawnCall[c].ids[i] \in 1..Len(kids)
      BY LenProperties, ElementOfSeq DEF WorkersIInv, IdsOK, Owned
    <3>2. \A k \in 1..Len(kids) : verdict[k] \in Verdicts
      BY ElementOfSeq DEF WorkersIInv, WorkersTyped
    <3>3. ASSUME x, NEW i \in 1..Len(spawnCall[c].ids), kids[spawnCall[c].ids[i]].row = "listed"
          PROVE  kids[spawnCall[c].ids[i]].heard = "task"
      <4>1. spawnCall[c].ids[i] \in ToSet(spawnCall[c].ids)
        BY <3>1 DEF ToSet
      <4>2. verdict[spawnCall[c].ids[i]] = "none"
        BY <1>3, <3>1, <3>2, <3>3, <4>1 DEF Bad, With, Verdicts
      <4> QED BY <3>1, <3>3, <4>2 DEF WorkersIInv, RulingOK
    <3> QED BY <1>3, <2>2, <3>3 DEF WorkersIInv, OkOK
  <2> QED BY <1>3, <2>3, <2>4, <2>5, <2>6, <2>7 DEF WorkersIInv, RulingOK, TasksApart
<1>4. CASE GiveUp(c)
  <2>1. /\ spawnCall' = [spawnCall EXCEPT ![c].at = "unconfirmed"] /\ spawnCall[c].at = "asked"
        /\ UNCHANGED <<spawnReqs, batches, done, kids, verdict, dog>>
    BY <1>4 DEF GiveUp
  <2>2. ~spawnCall[c].ok
    BY <2>1 DEF WorkersIInv, RequestsOK
  <2>3. spawnCall' = [spawnCall EXCEPT ![c].at = "unconfirmed", ![c].ok = FALSE]
    BY <1>0, <2>1, <2>2 DEF WorkersIInv, WorkersTyped, Asks
  <2> QED BY <1>3, <2>1, <2>3
<1>5. CASE TellCaller(c)
  <2>1. PICK x \in BOOLEAN : x = (spawnCall[c].ids # <<>> /\ Bad(c) = {})
    OBVIOUS
  <2>2. spawnCall' = [spawnCall EXCEPT ![c].at = "told", ![c].ok = x]
    BY <1>5, <2>1, Zenon DEF TellCaller
  <2> QED BY <1>3, <1>5, <2>1, <2>2 DEF TellCaller
<1> QED BY <1>1, <1>2, <1>4, <1>5 DEF Caller

-----------------------------------------------------------------------------
\* Where the elements of two sequences lie in the two together.
LEMMA ConcatLies ==
    ASSUME NEW T, NEW a \in Seq(T), NEW b \in Seq(T)
    PROVE  /\ a \o b \in Seq(T) /\ Len(a) \in Nat /\ Len(b) \in Nat /\ Len(a \o b) = Len(a) + Len(b)
           /\ \A i \in 1..Len(a) : (a \o b)[i] = a[i]
           /\ \A i \in (Len(a) + 1)..(Len(a) + Len(b)) :
                  i - Len(a) \in 1..Len(b) /\ (a \o b)[i] = b[i - Len(a)]
<1> DEFINE c == a \o b
<1>1. /\ c \in Seq(T) /\ Len(c) = Len(a) + Len(b)
      /\ \A i \in 1..Len(c) : c[i] = IF i <= Len(a) THEN a[i] ELSE b[i - Len(a)]
  BY ConcatProperties
<1>2. Len(a) \in Nat /\ Len(b) \in Nat
  BY LenProperties
<1> DEFINE m == Len(a)
           n == Len(b)
<1> HIDE DEF c, m, n
<1>3. /\ \A i \in 1..m : c[i] = a[i]
      /\ \A i \in (m + 1)..(m + n) : i - m \in 1..n /\ c[i] = b[i - m]
  <2>1. /\ m \in Nat /\ n \in Nat
        /\ \A i \in 1..(m + n) : c[i] = IF i <= m THEN a[i] ELSE b[i - m]
    BY <1>1, <1>2 DEF m, n
  <2> QED BY <2>1
<1> QED BY <1>1, <1>2, <1>3 DEF c, m, n

\* What the requests become lies behind the batches that wait.
LEMMA TakenQueues ==
    ASSUME WorkersIInv, NEW taken \in TakenIn
    PROVE  batches \o taken \in Seq(Batch) /\ QueueOK(batches \o taken, kids, done)
<1>1. PICK s \in SetToSeqs(spawnReqs) : taken = [i \in DOMAIN s |-> [call |-> s[i], task |-> 1, ids |-> <<>>]]
  BY DEF TakenIn
<1> DEFINE n == Cardinality(spawnReqs)
<1>2. /\ n \in Nat /\ s \in [1..n -> spawnReqs]
      /\ \A i, j \in 1..n : i # j => s[i] # s[j]
  BY FS_CardinalityType DEF SetToSeqs, WorkersIInv, WorkersTyped
<1> HIDE DEF n
<1>3. \A i \in 1..n : s[i] \in Calls /\ s[i] \in spawnReqs
  BY <1>2 DEF WorkersIInv, WorkersTyped
<1>4. /\ DOMAIN taken = 1..n
      /\ \A i \in 1..n : taken[i] = [call |-> s[i], task |-> 1, ids |-> <<>>]
  BY <1>1, <1>2
<1>5. \A i \in 1..n : /\ taken[i] \in Batch /\ taken[i].call = s[i] /\ taken[i].task = 1 /\ taken[i].ids = <<>>
  <2>1. 1 \in 1..MaxTasks /\ <<>> \in Seq(Nat)
    BY EmptySeq, WorkersAssumption
  <2>2. \A c \in Calls : [call |-> c, task |-> 1, ids |-> <<>>] \in Batch
    BY <2>1 DEF Batch
  <2> QED BY <1>3, <1>4, <2>2
<1>6. taken \in Seq(Batch) /\ Len(taken) = n
  <2>1. taken \in [1..n -> Batch]
    BY <1>1, <1>2, <1>4, <1>5
  <2> QED BY <1>2, <1>4, <2>1
<1> DEFINE q == batches \o taken
           m == Len(batches)
<1>7. /\ q \in Seq(Batch) /\ Len(q) = m + n /\ m \in Nat
      /\ \A i \in 1..m : q[i] = batches[i]
      /\ \A i \in (m + 1)..(m + n) : i - m \in 1..n /\ q[i] = taken[i - m]
  <2>1. batches \in Seq(Batch)
    BY DEF WorkersIInv, WorkersTyped
  <2> HIDE DEF WorkersIInv
  <2> QED BY <1>6, <2>1, ConcatLies
<1> HIDE DEF q
<1>8. \A i \in 1..n : BatchOf(taken[i], kids, done) /\ taken[i].task <= spawnCall[taken[i].call].tasks
  <2> SUFFICES ASSUME NEW i \in 1..n
               PROVE  BatchOf(taken[i], kids, done) /\ taken[i].task <= spawnCall[taken[i].call].tasks
    OBVIOUS
  <2>1. s[i] \in Calls /\ s[i] \in spawnReqs /\ spawnCall[s[i]] \in Asks
    BY <1>3 DEF WorkersIInv, WorkersTyped
  <2>2. /\ spawnCall[s[i]].at \in {"asked", "unconfirmed"} /\ spawnCall[s[i]].tasks # 0
        /\ done[s[i]] = NotDone /\ \A k \in 1..Len(kids) : kids[k].call # s[i]
    BY <2>1 DEF WorkersIInv, RequestsOK
  <2>3. 1 <= spawnCall[s[i]].tasks
    BY <2>1, <2>2, WorkersAssumption DEF Asks
  <2> QED BY <1>5, <2>2, <2>3, OwnedNone DEF BatchOf
<1>9. \A i \in 1..Len(q) : i \in 1..m \/ i \in (m + 1)..(m + n)
  BY <1>2, <1>7
<1>10. \A i \in 1..Len(q) : BatchOf(q[i], kids, done) /\ q[i].task <= spawnCall[q[i].call].tasks
  BY <1>7, <1>8, <1>9 DEF WorkersIInv, BatchesOK, QueueOK
<1>11. \A i, j \in 1..Len(q) : q[i].call = q[j].call => i = j
  <2> SUFFICES ASSUME NEW i \in 1..Len(q), NEW j \in 1..Len(q), q[i].call = q[j].call PROVE i = j
    OBVIOUS
  <2>1. CASE i \in 1..m /\ j \in 1..m
    BY <1>7, <2>1 DEF WorkersIInv, BatchesOK, QueueOK
  <2>2. CASE i \in (m + 1)..(m + n) /\ j \in (m + 1)..(m + n)
    <3>1. i - m \in 1..n /\ j - m \in 1..n /\ s[i - m] = s[j - m]
      BY <1>5, <1>7, <2>2
    <3>2. i - m = j - m
      BY <1>2, <3>1
    <3> QED BY <1>7, <2>2, <3>2
  <2>3. CASE i \in 1..m /\ j \in (m + 1)..(m + n)
    <3>1. q[j].call \in spawnReqs
      BY <1>3, <1>5, <1>7, <2>3
    <3> QED BY <1>7, <2>3, <3>1 DEF WorkersIInv, BatchesOK
  <2>4. CASE j \in 1..m /\ i \in (m + 1)..(m + n)
    <3>1. q[i].call \in spawnReqs
      BY <1>3, <1>5, <1>7, <2>4
    <3> QED BY <1>7, <2>4, <3>1 DEF WorkersIInv, BatchesOK
  <2> QED BY <1>9, <2>1, <2>2, <2>3, <2>4
<1> QED BY <1>7, <1>10, <1>11 DEF QueueOK, q

\* The first batch goes on, or answers.
LEMMA BatchGoesOn ==
    ASSUME WorkersIInv, UNCHANGED spawnCall, spawnReqs' = {},
           kids' \in Seq(KidRec), verdict' \in Seq(Verdicts), dog' \in Seq(Dogs),
           Len(verdict') = Len(kids'), Len(dog') = Len(kids'), Len(kids) <= Len(kids'),
           \A k \in 1..Len(kids) : kids'[k] = kids[k],
           TasksApart', RulingOK', OkOK',
           \A c \in Calls : spawnCall[c].at = "idle" => \A k \in 1..Len(kids') : kids'[k].call # c,
           NEW q \in Seq(Batch), q # <<>>, QueueOK(q, kids, done),
           NEW b, b = [call |-> b.call, task |-> b.task, ids |-> b.ids],
           b.call = Head(q).call, b.task = Head(q).task + 1, b.ids \in Seq(Nat),
           Owned(kids', b.call, b.ids),
           \A k \in 1..Len(kids') : /\ kids'[k].call = b.call => kids'[k].task < b.task
                                    /\ kids'[k].call # b.call => k \in 1..Len(kids),
           PutBack(b, Tail(q))
    PROVE  WorkersIInv'
<1>0. /\ Len(kids) \in Nat /\ Len(kids') \in Nat
      /\ \A k \in 1..Len(kids) : kids'[k].call = kids[k].call /\ kids'[k].task = kids[k].task
  BY LenProperties DEF WorkersIInv, WorkersTyped
<1> DEFINE rest == Tail(q)
<1>1. /\ rest \in Seq(Batch) /\ Len(rest) = Len(q) - 1 /\ Len(q) \in Nat /\ Len(q) >= 1 /\ Head(q) = q[1]
      /\ \A i \in 1..Len(rest) : rest[i] = q[i + 1] /\ i + 1 \in 1..Len(q)
  BY HeadTailProperties, LenProperties, EmptySeq
<1> HIDE DEF rest
<1>2. /\ b.call \in Calls /\ b.task \in Nat \ {0} /\ BatchOf(q[1], kids, done)
      /\ q[1] \in Batch /\ q[1].call = b.call
  <2>1. q[1] \in Batch /\ 1 \in 1..Len(q) /\ Head(q) = q[1]
    BY <1>1, ElementOfSeq
  <2>2. q[1].call \in Calls /\ q[1].task \in 1..MaxTasks
    BY <2>1 DEF Batch
  <2>3. b.task = q[1].task + 1 /\ q[1].call = b.call
    BY <2>1
  <2>4. b.task \in Nat \ {0}
    BY <2>2, <2>3, WorkersAssumption
  <2>5. BatchOf(q[1], kids, done)
    BY <2>1 DEF QueueOK
  <2> QED BY <2>1, <2>2, <2>3, <2>4, <2>5
<1>3. \A c, s : Owned(kids, c, s) => Owned(kids', c, s)
  <2> SUFFICES ASSUME NEW c, NEW s, Owned(kids, c, s) PROVE Owned(kids', c, s)
    OBVIOUS
  <2> QED BY <1>0, OwnedGrows
<1>4. \A i \in 1..Len(rest) : /\ rest[i].call # b.call /\ rest[i].call \in Calls
                              /\ BatchOf(rest[i], kids, done)
                              /\ rest[i].task <= spawnCall[rest[i].call].tasks
  <2> SUFFICES ASSUME NEW i \in 1..Len(rest)
               PROVE  /\ rest[i].call # b.call /\ rest[i].call \in Calls
                      /\ BatchOf(rest[i], kids, done)
                      /\ rest[i].task <= spawnCall[rest[i].call].tasks
    OBVIOUS
  <2>1. rest[i] = q[i + 1] /\ i + 1 \in 1..Len(q) /\ 1 \in 1..Len(q) /\ i + 1 # 1
    BY <1>1
  <2>2. rest[i] \in Batch
    BY <1>1, ElementOfSeq
  <2> QED BY <1>2, <2>1, <2>2 DEF QueueOK, Batch
<1>5. \A i, j \in 1..Len(rest) : rest[i].call = rest[j].call => i = j
  <2> SUFFICES ASSUME NEW i \in 1..Len(rest), NEW j \in 1..Len(rest), rest[i].call = rest[j].call PROVE i = j
    OBVIOUS
  <2>1. i + 1 = j + 1
    BY SMTT(30), <1>1 DEF QueueOK
  <2> QED BY <1>1, <2>1
<1>6. /\ done' \in [Calls -> Seq(Nat)]
      /\ \A c \in Calls : c # b.call => done'[c] = done[c]
      /\ done'[b.call] = IF b.task > spawnCall[b.call].tasks THEN b.ids ELSE NotDone
      /\ done[b.call] = NotDone
  <2>1. done[b.call] = NotDone
    BY <1>2 DEF BatchOf
  <2> QED BY <1>2, <2>1 DEF PutBack, WorkersIInv, WorkersTyped
<1>7. \A i \in 1..Len(rest) : BatchOf(rest[i], kids', done')
  <2> SUFFICES ASSUME NEW i \in 1..Len(rest) PROVE BatchOf(rest[i], kids', done')
    OBVIOUS
  <2>1. \A k \in 1..Len(kids') : kids'[k].call = rest[i].call => k \in 1..Len(kids)
    <3> SUFFICES ASSUME NEW k \in 1..Len(kids'), kids'[k].call = rest[i].call PROVE k \in 1..Len(kids)
      OBVIOUS
    <3>1. kids'[k].call # b.call
      BY <1>4
    <3> QED BY <3>1
  <2> QED BY <1>0, <1>3, <1>4, <1>6, <2>1 DEF BatchOf
<1>8. /\ batches' \in Seq(Batch) /\ QueueOK(batches', kids', done')
  <2>1. CASE b.task > spawnCall[b.call].tasks
    <3>1. batches' = rest
      BY <2>1 DEF PutBack, rest
    <3> QED BY <1>1, <1>4, <1>5, <1>7, <3>1 DEF QueueOK
  <2>2. CASE ~(b.task > spawnCall[b.call].tasks)
    <3>1. batches' = <<b>> \o rest
      BY <2>2 DEF PutBack, rest
    <3>2. spawnCall[b.call] \in Asks /\ b.task <= spawnCall[b.call].tasks
      BY <1>2, <2>2, WorkersAssumption DEF WorkersIInv, WorkersTyped, Asks
    <3>3. b.task \in 1..MaxTasks
      BY <1>2, <3>2, WorkersAssumption DEF Asks
    <3>4. b \in Batch
      BY <1>2, <3>3 DEF Batch
    <3>5. <<b>> \in Seq(Batch) /\ Len(<<b>>) = 1 /\ <<b>>[1] = b
      BY <3>4
    <3>6. Len(rest) \in Nat
      BY <1>1
    <3>7. /\ batches' \in Seq(Batch) /\ Len(batches') = 1 + Len(rest) /\ batches'[1] = b
          /\ \A i \in 2..(1 + Len(rest)) : batches'[i] = rest[i - 1] /\ i - 1 \in 1..Len(rest)
      BY <1>1, <3>1, <3>5, <3>6, ConcatProperties
    <3>8. BatchOf(b, kids', done')
      <4>1. spawnCall'[b.call].at \in {"asked", "unconfirmed"} /\ done'[b.call] = NotDone
        BY <1>2, <1>6, <2>2 DEF BatchOf
      <4>2. \A k \in 1..Len(kids') : kids'[k].call = b.call => kids'[k].task < b.task
        OBVIOUS
      <4> QED BY <4>1, <4>2 DEF BatchOf
    <3>9. \A i \in 1..Len(batches') : i = 1 \/ i \in 2..(1 + Len(rest))
      BY <3>6, <3>7
    <3>10. \A i \in 1..Len(batches') : /\ BatchOf(batches'[i], kids', done')
                                       /\ batches'[i].task <= spawnCall[batches'[i].call].tasks
      BY <1>4, <1>7, <3>2, <3>7, <3>8, <3>9
    <3>11. \A i, j \in 1..Len(batches') : batches'[i].call = batches'[j].call => i = j
      <4> SUFFICES ASSUME NEW i \in 1..Len(batches'), NEW j \in 1..Len(batches'),
                          batches'[i].call = batches'[j].call
                   PROVE  i = j
        OBVIOUS
      <4>1. CASE i \in 2..(1 + Len(rest)) /\ j \in 2..(1 + Len(rest))
        <5>1. /\ i - 1 \in 1..Len(rest) /\ batches'[i] = rest[i - 1]
              /\ j - 1 \in 1..Len(rest) /\ batches'[j] = rest[j - 1]
          BY <3>7, <4>1
        <5>2. i - 1 = j - 1
          BY <1>5, <5>1
        <5> QED BY <3>6, <4>1, <5>2
      <4>2. CASE i = 1 \/ j = 1
        BY ZenonT(30), <1>4, <3>7, <3>9, <4>2
      <4> QED BY <3>9, <4>1, <4>2
    <3> QED BY <3>7, <3>10, <3>11 DEF QueueOK
  <2> QED BY <2>1, <2>2
<1>9. BatchesOK'
  BY <1>8 DEF BatchesOK, QueueOK, BatchOf
<1>10. RequestsOK'
  <2>1. spawnCall[b.call].at \in {"asked", "unconfirmed"}
    BY <1>2 DEF BatchOf
  <2> QED BY <1>0, <1>6, <2>1 DEF WorkersIInv, RequestsOK
<1>11. IdsOK'
  BY <1>3, <1>6 DEF WorkersIInv, IdsOK
<1>12. WorkersTyped'
  BY <1>6, <1>8, FS_EmptySet DEF WorkersIInv, WorkersTyped
<1> QED BY <1>9, <1>10, <1>11, <1>12 DEF WorkersIInv

\* Every child has its call and task.
LEMMA KidsAreTyped ==
    ASSUME WorkersIInv PROVE \A k \in 1..Len(kids) : kids[k] \in KidRec /\ kids[k].task \in Nat
<1>1. \A k \in 1..Len(kids) : kids[k] \in KidRec
  BY ElementOfSeq DEF WorkersIInv, WorkersTyped
<1>2. \A e \in KidRec : e.task \in Nat
  BY WorkersAssumption DEF KidRec
<1> QED BY <1>1, <1>2

\* A batch with its next task, and with the child of this one.
LEMMA BatchNext ==
    ASSUME NEW h \in Batch, NEW t, t = h.task + 1, NEW new
    PROVE  [h EXCEPT !.task = @ + 1, !.ids = new] = [call |-> h.call, task |-> t, ids |-> new]
<1>1. h = [call |-> h.call, task |-> h.task, ids |-> h.ids]
  BY DEF Batch
<1>2. PICK g : g = [h EXCEPT !.task = t]
  OBVIOUS
<1>3. g = [call |-> h.call, task |-> t, ids |-> h.ids]
  BY <1>1, <1>2
<1>4. [g EXCEPT !.ids = new] = [call |-> h.call, task |-> t, ids |-> new]
  BY <1>3
<1> QED BY <1>2, <1>4

LEMMA TickStep ==
    ASSUME WorkersIInv, TickSpawns PROVE WorkersIInv'
<1>1. PICK taken \in TakenIn :
        LET q == batches \o taken
        IN  /\ q # <<>>
            /\ spawnReqs' = {} /\ UNCHANGED spawnCall
            /\ \/ /\ batches' = q /\ taken # <<>>
                  /\ UNCHANGED <<done, kids, verdict, dog>>
               \/ LET b == Head(q)
                      made == [b EXCEPT !.task = @ + 1, !.ids = Append(@, Len(kids) + 1)]
                  IN  KidsSpawned(b) /\ PutBack(made, Tail(q))
               \/ /\ PutBack([Head(q) EXCEPT !.task = @ + 1], Tail(q))
                  /\ UNCHANGED <<kids, verdict, dog>>
  BY DEF TickSpawns
<1>2. PICK q : q = batches \o taken
  OBVIOUS
<1>3. q \in Seq(Batch) /\ QueueOK(q, kids, done)
  BY <1>2, TakenQueues
<1>4. q # <<>> /\ spawnReqs' = {} /\ UNCHANGED spawnCall
  BY <1>1, <1>2
<1>5. /\ Head(q) = q[1] /\ q[1] \in Batch /\ BatchOf(q[1], kids, done)
      /\ q[1].task <= spawnCall[q[1].call].tasks
  <2>1. 1 \in 1..Len(q) /\ q[1] \in Batch /\ Head(q) = q[1]
    BY <1>3, <1>4, ElementOfSeq, EmptySeq, LenProperties
  <2> QED BY <1>3, <2>1 DEF QueueOK
<1>6. PICK h : h = Head(q)
  OBVIOUS
<1>7. h \in Batch /\ BatchOf(h, kids, done)
  BY <1>5, <1>6
<1>8. /\ Len(kids) \in Nat /\ Len(verdict) = Len(kids) /\ Len(dog) = Len(kids)
      /\ h.call \in Calls /\ h.task \in 1..MaxTasks /\ h.ids \in Seq(Nat)
      /\ h = [call |-> h.call, task |-> h.task, ids |-> h.ids]
  BY <1>7, LenProperties DEF WorkersIInv, WorkersTyped, Batch
<1>9. \A c \in Calls : spawnCall[c].at = "idle" => \A k \in 1..Len(kids) : kids[k].call # c
  BY DEF WorkersIInv, RequestsOK
<1>10. CASE batches' = q /\ UNCHANGED <<done, kids, verdict, dog>>
  <2>1. BatchesOK'
    BY <1>3, <1>4, <1>10 DEF BatchesOK, QueueOK, BatchOf
  <2>2. WorkersTyped'
    BY <1>3, <1>4, <1>10, FS_EmptySet DEF WorkersIInv, WorkersTyped
  <2>3. RequestsOK' /\ IdsOK' /\ RulingOK' /\ OkOK' /\ TasksApart'
    BY <1>4, <1>10 DEF WorkersIInv, RequestsOK, IdsOK, RulingOK, OkOK, TasksApart
  <2> QED BY <2>1, <2>2, <2>3 DEF WorkersIInv
<1>11. CASE PutBack([h EXCEPT !.task = @ + 1], Tail(q)) /\ UNCHANGED <<kids, verdict, dog>>
  <2>1. PICK t : t = h.task + 1
    OBVIOUS
  <2>2. PICK b : b = [call |-> h.call, task |-> t, ids |-> h.ids]
    OBVIOUS
  <2>3. b = [h EXCEPT !.task = @ + 1]
    BY <1>7, <2>1, <2>2 DEF Batch
  <2>4. PutBack(b, Tail(q))
    BY <1>11, <2>3
  <2>5. /\ b = [call |-> b.call, task |-> b.task, ids |-> b.ids]
        /\ b.call = Head(q).call /\ b.task = Head(q).task + 1 /\ b.ids = h.ids
    BY <1>6, <2>1, <2>2
  <2>6. Owned(kids', b.call, b.ids)
    BY <1>6, <1>7, <1>11, <2>5 DEF BatchOf
  <2>7. \A k \in 1..Len(kids') : /\ kids'[k].call = b.call => kids'[k].task < b.task
                                 /\ kids'[k].call # b.call => k \in 1..Len(kids)
    <3>1. \A k \in 1..Len(kids) : kids[k].task \in Nat
      BY KidsAreTyped
    <3> QED BY <1>6, <1>7, <1>8, <1>11, <2>5, <3>1 DEF BatchOf
  <2>8. /\ kids' \in Seq(KidRec) /\ verdict' \in Seq(Verdicts) /\ dog' \in Seq(Dogs)
        /\ Len(verdict') = Len(kids') /\ Len(dog') = Len(kids') /\ Len(kids) <= Len(kids')
        /\ TasksApart' /\ RulingOK' /\ OkOK'
    BY <1>4, <1>8, <1>11 DEF WorkersIInv, WorkersTyped, TasksApart, RulingOK, OkOK
  <2>9. b.ids \in Seq(Nat)
    BY <1>8, <2>5
  <2> QED BY <1>3, <1>4, <1>9, <1>11, <2>4, <2>5, <2>6, <2>7, <2>8, <2>9, BatchGoesOn
<1>12. CASE KidsSpawned(h) /\ PutBack([h EXCEPT !.task = @ + 1, !.ids = Append(@, Len(kids) + 1)], Tail(q))
  <2>1. PICK t, new : t = h.task + 1 /\ new = Append(h.ids, Len(kids) + 1)
    OBVIOUS
  <2>2. PICK b : b = [call |-> h.call, task |-> t, ids |-> new]
    OBVIOUS
  <2>3. b = [h EXCEPT !.task = @ + 1, !.ids = Append(@, Len(kids) + 1)]
    BY <1>7, <2>1, <2>2, BatchNext
  <2>4. PutBack(b, Tail(q))
    BY <1>12, <2>3
  <2>5. /\ b = [call |-> b.call, task |-> b.task, ids |-> b.ids]
        /\ b.call = Head(q).call /\ b.task = Head(q).task + 1 /\ b.ids = new /\ b.call = h.call
    BY <1>6, <2>1, <2>2
  <2>6. /\ Made(h) \in KidRec /\ Made(h).call = h.call /\ Made(h).task = h.task
        /\ "pending" \in Verdicts /\ "watch" \in Dogs
    BY <1>8 DEF Made, KidRec, Verdicts, Dogs
  <2>7. /\ kids' \in Seq(KidRec) /\ Len(kids') = Len(kids) + 1 /\ kids'[Len(kids')] = Made(h)
        /\ \A k \in 1..Len(kids) : kids'[k] = kids[k]
        /\ verdict' \in Seq(Verdicts) /\ Len(verdict') = Len(kids') /\ verdict'[Len(kids')] = "pending"
        /\ \A k \in 1..Len(kids) : verdict'[k] = verdict[k]
        /\ dog' \in Seq(Dogs) /\ Len(dog') = Len(kids')
    BY <1>8, <1>12, <2>6, AppendProperties DEF KidsSpawned, WorkersIInv, WorkersTyped
  <2>8. \A k \in 1..Len(kids') : k \in 1..Len(kids) \/ k = Len(kids')
    BY <1>8, <2>7
  <2>9. \A k \in 1..Len(kids) : kids[k].call = h.call => kids[k].task < h.task /\ kids[k].task \in Nat
    <3>1. \A k \in 1..Len(kids) : kids[k].task \in Nat
      BY KidsAreTyped
    <3> QED BY <1>7, <3>1 DEF BatchOf
  <2>10. TasksApart'
    <3> SUFFICES ASSUME NEW k \in 1..Len(kids'), NEW l \in 1..Len(kids'), kids'[k].call = kids'[l].call,
                        kids'[k].task = kids'[l].task
                 PROVE  k = l
      BY DEF TasksApart
    <3>1. CASE k \in 1..Len(kids) /\ l \in 1..Len(kids)
      BY <2>7, <3>1 DEF WorkersIInv, TasksApart
    <3>2. CASE k \in 1..Len(kids) /\ l = Len(kids')
      <4>1. kids[k].call = h.call /\ kids[k].task = h.task
        BY <2>6, <2>7, <3>2
      <4> QED BY <1>8, <2>9, <3>2, <4>1
    <3>3. CASE l \in 1..Len(kids) /\ k = Len(kids')
      <4>1. kids[l].call = h.call /\ kids[l].task = h.task
        BY <2>6, <2>7, <3>3
      <4> QED BY <1>8, <2>9, <3>3, <4>1
    <3> QED BY <2>8, <3>1, <3>2, <3>3
  <2>11. RulingOK'
    BY <2>7, <2>8 DEF WorkersIInv, RulingOK
  <2>12. OkOK'
    <3>1. \A c \in Calls : /\ spawnCall[c].ids \in Seq(1..Len(kids)) /\ Len(spawnCall[c].ids) \in Nat
                           /\ \A i \in 1..Len(spawnCall[c].ids) : spawnCall[c].ids[i] \in 1..Len(kids)
      BY LenProperties, ElementOfSeq DEF WorkersIInv, IdsOK, Owned
    <3> QED BY <1>4, <2>7, <3>1 DEF WorkersIInv, OkOK
  <2>13. \A c \in Calls : spawnCall[c].at = "idle" => \A k \in 1..Len(kids') : kids'[k].call # c
    BY <1>7, <1>9, <2>6, <2>7, <2>8 DEF BatchOf
  <2>14. Owned(kids', h.call, h.ids)
    <3>1. Owned(kids, h.call, h.ids)
      BY <1>7 DEF BatchOf
    <3>2. /\ Len(kids') \in Nat /\ Len(kids) <= Len(kids')
          /\ \A k \in 1..Len(kids) : kids'[k].call = kids[k].call /\ kids'[k].task = kids[k].task
      BY <1>8, <2>7
    <3> QED BY <1>8, <3>1, <3>2, OwnedGrows
  <2>15. \A i \in 1..Len(h.ids) : kids'[h.ids[i]].task < kids'[Len(kids')].task
    <3> SUFFICES ASSUME NEW i \in 1..Len(h.ids) PROVE kids'[h.ids[i]].task < kids'[Len(kids')].task
      OBVIOUS
    <3>1. h.ids[i] \in 1..Len(kids) /\ kids[h.ids[i]].call = h.call
      BY <1>7, ElementOfSeq DEF BatchOf, Owned
    <3> QED BY <2>6, <2>7, <2>9, <3>1
  <2>16. Owned(kids', b.call, b.ids)
    <3>1. new = Append(h.ids, Len(kids'))
      BY <2>1, <2>7
    <3>2. Len(kids') \in Nat \ {0} /\ kids'[Len(kids')].call = h.call
      BY <1>8, <2>6, <2>7
    <3>3. Owned(kids', h.call, Append(h.ids, Len(kids')))
      BY <2>14, <2>15, <3>2, OwnedAppends
    <3> QED BY <2>5, <3>1, <3>3
  <2>17. \A k \in 1..Len(kids') : /\ kids'[k].call = b.call => kids'[k].task < b.task
                                  /\ kids'[k].call # b.call => k \in 1..Len(kids)
    BY <1>6, <1>8, <2>5, <2>6, <2>7, <2>8, <2>9
  <2>18. b.ids \in Seq(Nat) /\ Len(kids) <= Len(kids')
    BY <1>8, <2>1, <2>5, <2>7, AppendProperties
  <2> QED BY <1>3, <1>4, <2>4, <2>5, <2>7, <2>10, <2>11, <2>12, <2>13, <2>16, <2>17, <2>18, BatchGoesOn
<1> QED BY <1>1, <1>2, <1>6, <1>10, <1>11, <1>12

LEMMA WorkersStep == WorkersIInv /\ [WorkersNext]_workersVars => WorkersIInv'
<1> SUFFICES ASSUME WorkersIInv, [WorkersNext]_workersVars PROVE WorkersIInv'
  OBVIOUS
<1>1. CASE UNCHANGED workersVars
  BY <1>1 DEF workersVars, WorkersIInv, WorkersTyped, TasksApart, RequestsOK, BatchesOK, QueueOK, BatchOf,
              IdsOK, RulingOK, OkOK
<1> QED BY <1>1, CallerStep, TickStep, KidStep, WatchStep DEF WorkersNext

\* However calls, ticks, children, closes and watchdogs interleave, a task of hub_spawn has one
\* child, the ids a caller reads are its own children's, in the order of its tasks, and an ok
\* is said only of children that heard theirs (process_spawn_requests, verify_spawn_delivery).
THEOREM TasksArrive == WorkersSpec => []WorkersInv
<1>1. WorkersIInv => WorkersInv
  <2> SUFFICES ASSUME WorkersIInv PROVE WorkersInv
    OBVIOUS
  <2>1. /\ Kid = 1..Len(kids) /\ kids \in [1..Len(kids) -> KidRec]
        /\ \A k \in 1..Len(kids) : kids[k] \in KidRec /\ verdict[k] \in Verdicts /\ dog[k] \in Dogs
    BY LenProperties, ElementOfSeq DEF WorkersIInv, WorkersTyped, Kid
  <2>2. WorkersTypeOK
    BY <2>1 DEF WorkersIInv, WorkersTyped, WorkersTypeOK, KidRec, Verdicts, Dogs
  <2>3. \A c \in Calls : /\ DOMAIN spawnCall[c].ids = 1..Len(spawnCall[c].ids) /\ Len(spawnCall[c].ids) \in Nat
    BY LenProperties DEF WorkersIInv, IdsOK, Owned
  <2>4. EachTaskOnce
    <3>1. \A k, l \in Kid : kids[k].call = kids[l].call /\ kids[k].task = kids[l].task => k = l
      BY <2>1 DEF WorkersIInv, TasksApart
    <3>2. ASSUME NEW c \in Calls, NEW i \in DOMAIN spawnCall[c].ids
          PROVE  /\ kids[spawnCall[c].ids[i]].call = c
                 /\ i > 1 => kids[spawnCall[c].ids[i - 1]].task < kids[spawnCall[c].ids[i]].task
      <4>1. i \in 1..Len(spawnCall[c].ids) /\ (i > 1 => i \in 2..Len(spawnCall[c].ids))
        BY <2>3
      <4> QED BY <4>1 DEF WorkersIInv, IdsOK, Owned
    <3> QED BY <3>1, <3>2 DEF EachTaskOnce
  <2>5. OkIsTrue
    BY <2>3 DEF WorkersIInv, OkOK, OkIsTrue
  <2> QED BY <2>2, <2>4, <2>5 DEF WorkersInv
<1> QED BY <1>1, WorkersStart, WorkersStep, PTL DEF WorkersSpec

-----------------------------------------------------------------------------
\* A child that has heard nothing is not closed by hub_close, and its delivery is pending
\* until its watchdog has given it up.
Awaited(k) == kids[k].alive /\ kids[k].heard = "nothing"
BriefOK ==
    \A k \in 1..Len(kids) : Awaited(k) => kids[k].row # "hub-closed" /\ (verdict[k] = "pending" \/ dog[k] = "off")

BriefKept ==
    \A k \in Kid : kids[k].alive /\ kids'[k].row = "hub-closed" => kids[k].heard # "nothing" \/ dog[k] = "off"

\* What one child, its row and its watchdog do.
LEMMA BriefOfOne ==
    ASSUME WorkersIInv, BriefOK, NEW k \in Kid, Child(k) \/ KidRow(k) \/ Watch(k)
    PROVE  BriefOK' /\ BriefKept
<1>0. /\ k \in 1..Len(kids) /\ Kid = 1..Len(kids) /\ kids \in [1..Len(kids) -> KidRec] /\ Len(kids) \in Nat
      /\ verdict \in [1..Len(kids) -> Verdicts] /\ dog \in [1..Len(kids) -> Dogs]
  BY LenProperties DEF WorkersIInv, WorkersTyped, Kid
<1>1. /\ \A j \in 1..Len(kids) : j # k => kids'[j] = kids[j] /\ verdict'[j] = verdict[j] /\ dog'[j] = dog[j]
      /\ Len(kids') = Len(kids)
  <2>1. \A e : /\ \A j \in 1..Len(kids) : j # k => [kids EXCEPT ![k] = e][j] = kids[j]
               /\ DOMAIN [kids EXCEPT ![k] = e] = 1..Len(kids)
    BY <1>0
  <2>2. \A w : \A j \in 1..Len(kids) : /\ j # k => [verdict EXCEPT ![k] = w][j] = verdict[j]
                                       /\ j # k => [dog EXCEPT ![k] = w][j] = dog[j]
    BY <1>0
  <2>3. UNCHANGED kids \/ \E e : kids' = [kids EXCEPT ![k] = e]
    BY DEF Child, KidRow, Watch, Begin, Rule, KidDies, ReapKid, UserClose, HubClose, WatchSettled, WatchGivesUp, WatchFails
  <2>4. UNCHANGED verdict \/ \E w : verdict' = [verdict EXCEPT ![k] = w]
    BY DEF Child, KidRow, Watch, Begin, Rule, KidDies, ReapKid, UserClose, HubClose, WatchSettled, WatchGivesUp, WatchFails
  <2>5. UNCHANGED dog \/ \E w : dog' = [dog EXCEPT ![k] = w]
    BY DEF Child, KidRow, Watch, Begin, Rule, KidDies, ReapKid, UserClose, HubClose, WatchSettled, WatchGivesUp, WatchFails
  <2>6. WorkersIInv'
    BY KidStep, WatchStep
  <2>7. DOMAIN kids' = 1..Len(kids') /\ Len(kids') \in Nat
    BY <2>6, LenProperties DEF WorkersIInv, WorkersTyped
  <2>8. Len(kids') = Len(kids)
    <3>1. 1..Len(kids') = 1..Len(kids)
      <4>1. CASE UNCHANGED kids
        BY <4>1
      <4>2. ASSUME NEW e, kids' = [kids EXCEPT ![k] = e] PROVE 1..Len(kids') = 1..Len(kids)
        BY <1>0, <2>7, <4>2
      <4> QED BY <2>3, <4>1, <4>2
    <3>2. \A m, n \in Nat : 1..m = 1..n => m = n
      <4> SUFFICES ASSUME NEW m \in Nat, NEW n \in Nat, 1..m = 1..n, m # n PROVE FALSE
        OBVIOUS
      <4>1. CASE m < n
        <5>1. n \in 1..n /\ n \notin 1..m
          BY <4>1
        <5> QED BY <5>1
      <4>2. CASE n < m
        <5>1. m \in 1..m /\ m \notin 1..n
          BY <4>2
        <5> QED BY <5>1
      <4> QED BY <4>1, <4>2
    <3> QED BY <1>0, <2>7, <3>1, <3>2
  <2>9. ASSUME NEW j \in 1..Len(kids), j # k
        PROVE  kids'[j] = kids[j] /\ verdict'[j] = verdict[j] /\ dog'[j] = dog[j]
    <3>1. kids'[j] = kids[j]
      BY <2>1, <2>3, <2>9
    <3>2. verdict'[j] = verdict[j]
      BY <2>2, <2>4, <2>9
    <3>3. dog'[j] = dog[j]
      BY ZenonT(30), <2>2, <2>5, <2>9
    <3> QED BY <3>1, <3>2, <3>3
  <2> QED BY <2>8, <2>9
<1>2. /\ kids'[k].alive => kids[k].alive
      /\ kids'[k].alive /\ kids'[k].heard = "nothing" => kids[k].heard = "nothing"
      /\ kids'[k].alive /\ kids'[k].row = "hub-closed" => kids[k].row = "hub-closed"
      /\ kids[k].alive /\ kids'[k].row = "hub-closed" => kids[k].row = "hub-closed" \/ ~Busy(k)
      /\ kids'[k].alive /\ kids'[k].heard = "nothing"
            => \/ verdict'[k] = verdict[k] /\ (dog'[k] = dog[k] \/ dog'[k] = "off" \/ verdict[k] = "pending")
               \/ dog'[k] = "off"
  <2>1. CASE Begin(k)
    <3>1. PICK h \in {"task", "other"} : kids' = [kids EXCEPT ![k].heard = h]
      BY <2>1 DEF Begin
    <3>2. kids'[k] = [kids[k] EXCEPT !.heard = h] /\ kids[k] \in KidRec
      BY <1>0, <3>1
    <3> QED BY <2>1, <3>2 DEF Begin, KidRec
  <2>2. CASE Rule(k)
    <3>1. kids'[k] = [kids[k] EXCEPT !.expected = FALSE] /\ kids[k] \in KidRec /\ kids[k].heard # "nothing"
      BY <1>0, <2>2 DEF Rule
    <3> QED BY <3>1 DEF KidRec
  <2>3. CASE KidDies(k)
    <3>1. kids'[k] = [kids[k] EXCEPT !.alive = FALSE] /\ kids[k] \in KidRec
      BY <1>0, <2>3 DEF KidDies
    <3> QED BY <3>1 DEF KidRec
  <2>4. CASE ReapKid(k)
    <3>1. kids'[k] = [kids[k] EXCEPT !.row = "gone", !.expected = FALSE] /\ kids[k] \in KidRec /\ ~kids[k].alive
      BY <1>0, <2>4 DEF ReapKid
    <3> QED BY <3>1 DEF KidRec
  <2>5. CASE UserClose(k)
    <3>1. kids'[k] = [kids[k] EXCEPT !.alive = FALSE, !.row = "closing"] /\ kids[k] \in KidRec
      BY <1>0, <2>5 DEF UserClose
    <3> QED BY <3>1 DEF KidRec
  <2>6. CASE HubClose(k)
    <3>1. /\ kids'[k] = [kids[k] EXCEPT !.alive = FALSE, !.row = "hub-closed"] /\ kids[k] \in KidRec
          /\ ~Busy(k)
      BY <1>0, <2>6 DEF HubClose
    <3> QED BY <3>1 DEF KidRec
  <2>7. CASE Watch(k)
    <3>1. UNCHANGED kids
      BY <2>7 DEF Watch, WatchSettled, WatchGivesUp, WatchFails
    <3>2. \/ dog'[k] = "off"
          \/ verdict'[k] = verdict[k] /\ verdict[k] = "pending"
      BY <1>0, <2>7 DEF Watch, WatchSettled, WatchGivesUp, WatchFails, Settled
    <3> QED BY <3>1, <3>2
  <2> QED BY <2>1, <2>2, <2>3, <2>4, <2>5, <2>6, <2>7 DEF Child, KidRow
<1>3. ASSUME Awaited(k)' PROVE Awaited(k) /\ kids'[k].row # "hub-closed" /\ (verdict'[k] = "pending" \/ dog'[k] = "off")
  BY <1>0, <1>2, <1>3 DEF BriefOK, Awaited
<1>4. BriefOK'
  <2> SUFFICES ASSUME NEW j \in 1..Len(kids'), Awaited(j)'
               PROVE  kids'[j].row # "hub-closed" /\ (verdict'[j] = "pending" \/ dog'[j] = "off")
    BY DEF BriefOK
  <2>1. CASE j = k
    BY <1>3, <2>1
  <2>2. CASE j # k
    BY <1>1, <2>2 DEF BriefOK, Awaited
  <2> QED BY <2>1, <2>2
<1>5. BriefKept
  <2> SUFFICES ASSUME NEW j \in Kid, kids[j].alive, kids'[j].row = "hub-closed", kids[j].heard = "nothing"
               PROVE  dog[j] = "off"
    BY DEF BriefKept
  <2>1. kids[j].row # "hub-closed" /\ (verdict[j] = "pending" \/ dog[j] = "off")
    BY <1>0 DEF BriefOK, Awaited
  <2>2. CASE j = k
    BY <1>2, <2>1, <2>2 DEF Busy
  <2>3. CASE j # k
    BY <1>0, <1>1, <2>1, <2>3
  <2> QED BY <2>2, <2>3
<1> QED BY <1>4, <1>5

\* A new child comes with a pending delivery; the calls change none.
LEMMA BriefStep ==
    ASSUME WorkersIInv, BriefOK, [WorkersNext]_workersVars
    PROVE  BriefOK' /\ BriefKept
<1>0. /\ Kid = 1..Len(kids) /\ Len(kids) \in Nat /\ kids \in Seq(KidRec)
      /\ verdict \in Seq(Verdicts) /\ Len(verdict) = Len(kids) /\ dog \in Seq(Dogs) /\ Len(dog) = Len(kids)
  BY LenProperties DEF WorkersIInv, WorkersTyped, Kid
<1>1. CASE UNCHANGED <<kids, verdict, dog>>
  <2>1. BriefOK'
    BY <1>1 DEF BriefOK, Awaited
  <2>2. BriefKept
    BY <1>0, <1>1 DEF BriefOK, Awaited, BriefKept
  <2> QED BY <2>1, <2>2
<1>2. ASSUME NEW b, KidsSpawned(b)
      PROVE  BriefOK' /\ BriefKept
  <2>1. /\ Len(kids') = Len(kids) + 1 /\ \A k \in 1..Len(kids) : kids'[k] = kids[k]
        /\ kids'[Len(kids) + 1] = Made(b)
        /\ \A k \in 1..Len(kids) : verdict'[k] = verdict[k] /\ dog'[k] = dog[k]
        /\ verdict'[Len(kids) + 1] = "pending"
    BY <1>0, <1>2 DEF KidsSpawned
  <2>2. \A k \in 1..Len(kids') : k \in 1..Len(kids) \/ k = Len(kids) + 1
    BY <1>0, <2>1
  <2>3. BriefOK'
    BY <2>1, <2>2 DEF BriefOK, Awaited, Made
  <2>4. BriefKept
    BY <1>0, <2>1 DEF BriefOK, Awaited, BriefKept
  <2> QED BY <2>3, <2>4
<1>3. CASE TickSpawns
  BY <1>1, <1>2, <1>3 DEF TickSpawns
<1>4. ASSUME NEW c \in Calls, Caller(c) PROVE UNCHANGED <<kids, verdict, dog>>
  BY <1>4 DEF Caller, Ask, Collect, GiveUp, TellCaller
<1>5. CASE UNCHANGED workersVars
  BY <1>1, <1>5 DEF workersVars
<1> QED BY <1>1, <1>3, <1>4, <1>5, BriefOfOne DEF WorkersNext

\* close_busy_reason: an instance that does not force never closes a child whose task was neither
\* heard nor given up by its watchdog, however hooks, ticks, closes and watchdogs interleave.
THEOREM BriefsAreKept == WorkersSpec => NoBriefLost
<1>1. WorkersInit => BriefOK
  BY EmptySeq DEF WorkersInit, BriefOK
<1>2. WorkersIInv /\ BriefOK /\ [WorkersNext]_workersVars => BriefOK' /\ [BriefKept]_workersVars
  BY BriefStep
<1> QED BY <1>1, <1>2, WorkersStart, WorkersStep, PTL DEF WorkersSpec, NoBriefLost, BriefKept

-----------------------------------------------------------------------------
(* The terminals of a claude.                                               *)

\* A set of numbers has a least one.
LEMMA LeastNumber ==
    ASSUME NEW S \in SUBSET Nat, S # {} PROVE \E x \in S : \A y \in S : x <= y
<1>1. PICK m \in S : \A k \in S : ~ (<<k, m>> \in OpToRel(<, Nat))
  BY NatLessThanWellFounded, WFMin
<1>2. \A k \in S : ~(k < m)
  BY <1>1 DEF OpToRel
<1> QED BY <1>2

Rising(f) == \A i, j \in DOMAIN f : i < j => f[i] < f[j]

\* A finite set of numbers can be listed in their order.
LEMMA SortedExists ==
    ASSUME NEW S \in SUBSET Nat, IsFiniteSet(S)
    PROVE  \E f \in Injection(1..Cardinality(S), S) : Rising(f)
<1> DEFINE Fits(U) == \E f \in Injection(1..Cardinality(U), U) : Rising(f)
           Misfits == {n \in Nat : \E U \in SUBSET Nat : IsFiniteSet(U) /\ Cardinality(U) = n /\ ~Fits(U)}
<1>1. SUFFICES ASSUME Misfits # {} PROVE FALSE
  <2>1. Cardinality(S) \in Nat
    BY FS_CardinalityType
  <2> QED BY <1>1, <2>1
<1>2. PICK n \in Misfits : \A m \in Misfits : n <= m
  BY <1>1, LeastNumber
<1>3. PICK U \in SUBSET Nat : IsFiniteSet(U) /\ Cardinality(U) = n /\ ~Fits(U)
  OBVIOUS
<1>4. n \in Nat
  OBVIOUS
<1>5. U # {}
  <2> SUFFICES ASSUME U = {} PROVE FALSE
    OBVIOUS
  <2>1. n = 0
    BY <1>3, FS_EmptySet
  <2> DEFINE f == [i \in 1..0 |-> 0]
  <2>2. f \in [1..0 -> U] /\ DOMAIN f = {}
    OBVIOUS
  <2>3. f \in Injection(1..0, U) /\ Rising(f)
    BY <2>2 DEF Injection, IsInjective, Rising
  <2> HIDE DEF f
  <2> QED BY <1>3, <2>1, <2>3
<1>6. PICK x \in U : \A y \in U : x <= y
  BY <1>5, LeastNumber
<1> DEFINE V == U \ {x}
<1>7. IsFiniteSet(V) /\ Cardinality(V) = n - 1 /\ V \in SUBSET Nat /\ n - 1 \in Nat
  <2>1. IsFiniteSet(V) /\ Cardinality(V) = n - 1
    BY <1>3, <1>6, FS_RemoveElement
  <2>2. Cardinality(V) \in Nat
    BY <2>1, FS_CardinalityType
  <2> QED BY <2>1, <2>2
<1>8. Fits(V)
  <2>1. n - 1 \notin Misfits
    BY <1>2, <1>4
  <2> QED BY <1>7, <2>1
<1>9. PICK g \in Injection(1..(n - 1), V) : Rising(g)
  BY <1>7, <1>8
<1>10. /\ g \in [1..(n - 1) -> V] /\ DOMAIN g = 1..(n - 1)
       /\ \A i, j \in 1..(n - 1) : i < j => g[i] < g[j]
       /\ \A i, j \in 1..(n - 1) : g[i] = g[j] => i = j
  BY <1>9 DEF Injection, IsInjective, Rising
<1>11. \A i \in 1..(n - 1) : g[i] \in U /\ g[i] \in Nat /\ x < g[i]
  <2> SUFFICES ASSUME NEW i \in 1..(n - 1) PROVE g[i] \in U /\ g[i] \in Nat /\ x < g[i]
    OBVIOUS
  <2>1. g[i] \in U /\ g[i] # x /\ g[i] \in Nat /\ x \in Nat
    BY <1>10
  <2> QED BY <1>6, <2>1
<1> DEFINE f == [i \in 1..n |-> IF i = 1 THEN x ELSE g[i - 1]]
<1>12. \A i \in 1..n : i = 1 \/ (i - 1 \in 1..(n - 1) /\ i # 1)
  BY <1>4
<1>13. f \in [1..n -> U] /\ DOMAIN f = 1..n /\ f \in [1..n -> Nat]
  BY <1>11, <1>12
<1>14. \A i, j \in 1..n : i < j => f[i] < f[j]
  <2> SUFFICES ASSUME NEW i \in 1..n, NEW j \in 1..n, i < j PROVE f[i] < f[j]
    OBVIOUS
  <2>1. j - 1 \in 1..(n - 1) /\ f[j] = g[j - 1]
    BY <1>4
  <2>2. CASE i = 1
    BY <1>11, <2>1, <2>2
  <2>3. CASE i # 1
    <3>1. i - 1 \in 1..(n - 1) /\ f[i] = g[i - 1] /\ i - 1 < j - 1
      BY <1>4, <2>3
    <3> QED BY <1>10, <2>1, <3>1
  <2> QED BY <2>2, <2>3
<1>15. Rising(f)
  BY <1>13, <1>14 DEF Rising
<1>16. \A i, j \in 1..n : f[i] = f[j] => i = j
  <2> SUFFICES ASSUME NEW i \in 1..n, NEW j \in 1..n, f[i] = f[j], i # j PROVE FALSE
    OBVIOUS
  <2>1. f[i] \in Nat /\ f[j] \in Nat /\ (i < j \/ j < i)
    BY <1>13
  <2> HIDE DEF f
  <2> QED BY <1>14, <2>1
<1>17. f \in Injection(1..n, U)
  BY <1>13, <1>16 DEF Injection, IsInjective
<1> HIDE DEF f
<1> QED BY <1>3, <1>15, <1>17

\* What Sorted makes of the requests: all of them, each once, in their order.
LEMMA SortedIs ==
    ASSUME NEW S \in SUBSET Nat, IsFiniteSet(S)
    PROVE  /\ Sorted(S) \in Seq(S)
           /\ \A i, j \in 1..Len(Sorted(S)) : i < j => Sorted(S)[i] < Sorted(S)[j]
           /\ \A x \in S : \E i \in 1..Len(Sorted(S)) : Sorted(S)[i] = x
<1> DEFINE n == Cardinality(S)
<1>0. n \in Nat
  BY FS_CardinalityType
<1>1. \E f \in Injection(1..n, S) : \A i, j \in DOMAIN f : i < j => f[i] < f[j]
  BY SortedExists DEF Rising
<1>2. /\ Sorted(S) \in Injection(1..n, S)
      /\ \A i, j \in DOMAIN Sorted(S) : i < j => Sorted(S)[i] < Sorted(S)[j]
  BY <1>1 DEF Sorted
<1>3. Sorted(S) \in [1..n -> S]
  BY <1>2 DEF Injection
<1>4. Sorted(S) \in Seq(S) /\ Len(Sorted(S)) = n /\ DOMAIN Sorted(S) = 1..n
  BY <1>0, <1>3
<1>5. Cardinality(1..n) = n
  BY <1>0, FS_Interval
<1>6. Sorted(S) \in Surjection(1..n, S)
  BY <1>2, <1>5, FS_Injection
<1>7. \A x \in S : \E i \in 1..n : Sorted(S)[i] = x
  BY <1>6 DEF Surjection
<1> QED BY <1>2, <1>4, <1>7

-----------------------------------------------------------------------------
\* The lines the terminal has still to read, the sends that are behind them, and the line
\* that runs.
Unread == {typed[i] : i \in 1..Len(typed)} \ {0}
Pending == IF step \in {"mark", "post"} THEN {N} ELSE {}
Behind == reqs \cup Pending
Pipe == Unread \cup Behind
Running == IF fg = <<>> THEN 0 ELSE fg[1]

SentRec == [kind : Kinds, wrapped : BOOLEAN, found : {"none", "logged", "shown", "running"}]

TermTyped ==
    /\ sent \in Seq(SentRec) /\ N <= MaxSends
    /\ row \in {"open", "exited", "closed"} /\ step \in {"idle", "mark", "post", "wait"}
    /\ act \in {"track", "keep", "clear"}
    /\ reqs \subseteq 1..N /\ (Pending # {} => N # 0 /\ N \notin reqs)
    /\ applied \in Seq(1..N) /\ typed \in Seq(0..N)
    /\ fg \in {<<>>, <<Running>>} /\ Running \in 0..N
    /\ onScreen \subseteq 1..N /\ log \subseteq 1..N /\ mark \in 0..N
    /\ fed \subseteq (0..N) \X (0..N)
    /\ told.n \in 0..N /\ told.of \in 0..N

\* What was sent is applied, read and run in its order.
OrderOK ==
    /\ SentInOrder
    /\ \A x \in Behind, i \in 1..Len(applied) : applied[i] < x
    /\ \A i, j \in 1..Len(typed) : i < j /\ typed[i] # 0 /\ typed[j] # 0 => typed[i] < typed[j]
    /\ \A x \in Behind, i \in 1..Len(typed) : typed[i] < x
    /\ Running # 0 => \A y \in Pipe : Running < y
    /\ \A x \in onScreen \cup log :
          Wrapped(x) /\ (\A y \in Pipe : x < y) /\ (Running # 0 => x < Running)
    /\ onScreen \cap log = {}

\* As long as it is open, the terminal gets what was sent: what is not on its way was read,
\* before all that is; and an interrupt that follows the running line is on its way.
NothingIsLost ==
    row = "open" =>
        \A k \in 1..N : /\ k \in Pipe \/ \A y \in Pipe : k < y
                        /\ Running # 0 /\ Running < k /\ Interrupt(k) => k \in Pipe

Interrupted(m, n) == \E k \in (m + 1)..n : Interrupt(k)

\* A wrapped line that follows another one came after its end or after an interrupt, and one
\* whose end nobody knows is the one marked or was interrupted.
MarkOK ==
    /\ mark # 0 => Wrapped(mark)
    /\ \A n \in 1..N : Wrapped(n) => ~Interrupt(n)
    /\ \A m, n \in 1..N : m < n /\ Wrapped(m) /\ Wrapped(n) => m \in log \/ Interrupted(m, n)
    /\ \A m \in 1..N : Wrapped(m) /\ m \notin log
                          => (m = mark \/ (m = N /\ step = "mark") \/ Interrupted(m, N))
    /\ step = "mark" => /\ N # 0 /\ (Wrapped(N) <=> act = "track")
                        /\ act = "track" \/ (act = "clear" /\ ~Interrupt(N)) => mark = 0 \/ mark \in log

IsLine(n) == sent[n].kind \in {"line", "lines"}
Unseen(n) == sent[n].found \in {"running", "shown"}

\* The lines after the marked one were sent when its end was not to be seen.
FoundOK ==
    /\ mark # 0 => \A n \in (mark + 1)..N : IsLine(n) => Unseen(n) \/ (n = N /\ step = "mark" /\ act # "keep")
    /\ ExitIsCurrent

TerminalsIInv == TermTyped /\ OrderOK /\ NothingIsLost /\ MarkOK /\ FoundOK /\ NoMarkerAsInput

LEMMA LengthOfSent ==
    ASSUME TerminalsIInv PROVE N \in Nat /\ \A n \in 1..N : sent[n] \in SentRec
<1>1. N \in Nat
  BY LenProperties DEF TerminalsIInv, TermTyped, N
<1>2. \A n \in 1..N : sent[n] \in SentRec
  BY ElementOfSeq DEF TerminalsIInv, TermTyped, N
<1> QED BY <1>1, <1>2

LEMMA TerminalsStart ==
    ASSUME TerminalsInit PROVE TerminalsIInv
<1>1. CASE sent = <<>> /\ typed = <<>> /\ mark = 0
  <2>1. N = 0 /\ Len(typed) = 0 /\ Running = 0 /\ Unread = {} /\ Pending = {} /\ reqs = {} /\ Len(applied) = 0
    BY <1>1, EmptySeq DEF TerminalsInit, N, Running, Unread, Pending
  <2>2. TermTyped
    BY <1>1, <2>1, EmptySeq, TerminalsAssumption DEF TerminalsInit, TermTyped
  <2>3. OrderOK /\ NothingIsLost
    BY <2>1 DEF TerminalsInit, OrderOK, SentInOrder, NothingIsLost, Behind
  <2>4. MarkOK /\ FoundOK /\ NoMarkerAsInput
    BY <1>1, <2>1 DEF TerminalsInit, MarkOK, FoundOK, ExitIsCurrent, Later, NoMarkerAsInput
  <2> QED BY <2>2, <2>3, <2>4 DEF TerminalsIInv
<1>2. CASE /\ typed = <<1>>
            /\ \E kind \in {"line", "lines"} :
                  /\ sent = <<[kind |-> kind, wrapped |-> kind = "line", found |-> "none"]>>
                  /\ mark = IF kind = "line" THEN 1 ELSE 0
  <2>000. PICK kind \in {"line", "lines"} :
                  /\ sent = <<[kind |-> kind, wrapped |-> kind = "line", found |-> "none"]>>
                  /\ mark = IF kind = "line" THEN 1 ELSE 0
    BY <1>2
  <2>0. PICK w \in BOOLEAN : w = (kind = "line")
    OBVIOUS
  <2>00. PICK e : e = [kind |-> kind, wrapped |-> w, found |-> "none"]
    OBVIOUS
  <2>1. /\ e \in SentRec /\ sent = <<e>> /\ e.kind = kind /\ e.wrapped = w
    BY <1>2, <2>000, <2>0, <2>00 DEF SentRec, Kinds
  <2>2. sent \in Seq(SentRec) /\ N = 1 /\ sent[1] = e
    BY <2>1 DEF N
  <2>3. typed \in Seq(0..1) /\ Len(typed) = 1 /\ typed[1] = 1
    BY <1>2, <2>000
  <2>4. Running = 0 /\ Pending = {} /\ reqs = {} /\ Len(applied) = 0 /\ Behind = {} /\ Unread = {1} /\ Pipe = {1}
    BY <2>3, EmptySeq DEF TerminalsInit, Running, Pending, Behind, Unread, Pipe
  <2>5. TermTyped
    BY <1>2, <2>000, <2>2, <2>3, <2>4, EmptySeq, TerminalsAssumption DEF TerminalsInit, TermTyped
  <2>6. OrderOK /\ NothingIsLost
    BY <2>2, <2>3, <2>4 DEF TerminalsInit, OrderOK, SentInOrder, NothingIsLost
  <2>7. /\ \A n : Wrapped(n) => n = 0 \/ sent[n].wrapped
        /\ \A n \in 1..N : n = 1 /\ (Wrapped(n) <=> w) /\ ~Interrupt(n)
    BY <2>1, <2>2 DEF Wrapped, Interrupt
  <2>8. MarkOK
    <3>1. mark # 0 => Wrapped(mark)
      <4>1. CASE kind = "line"
        <5>1. w
          BY <2>0, <4>1
        <5>2. mark = 1 /\ 1 \in 1..N
          BY <1>2, <2>000, <2>2, <4>1
        <5> QED BY <2>7, <5>1, <5>2
      <4>2. CASE kind # "line"
        BY <1>2, <2>000, <4>2
      <4> QED BY <4>1, <4>2
    <3>2. \A m \in 1..N : Wrapped(m) => m = mark
      BY <1>2, <2>000, <2>0, <2>2, <2>7
    <3>3. \A m, n \in 1..N : m = n
      BY <2>2
    <3> QED BY <2>2, <2>7, <3>1, <3>2, <3>3 DEF TerminalsInit, MarkOK
  <2>9. FoundOK /\ NoMarkerAsInput
    BY <1>2, <2>000, <2>2 DEF TerminalsInit, FoundOK, ExitIsCurrent, Later, NoMarkerAsInput
  <2> QED BY <2>5, <2>6, <2>8, <2>9 DEF TerminalsIInv
<1> QED BY <1>1, <1>2 DEF TerminalsInit, ByUser, BySeed

-----------------------------------------------------------------------------
\* Steps of others than the sender leave what was sent as it is.
LEMMA SameSent ==
    ASSUME UNCHANGED sent
    PROVE  /\ N' = N
           /\ \A n : (Wrapped(n)' <=> Wrapped(n)) /\ (Interrupt(n)' <=> Interrupt(n))
           /\ \A n : (IsLine(n)' <=> IsLine(n)) /\ (Unseen(n)' <=> Unseen(n))
BY DEF N, Wrapped, Interrupt, IsLine, Unseen

LEMMA SameMarks ==
    ASSUME TerminalsIInv, UNCHANGED <<sent, act, mark, told>>, log \subseteq log',
           step' = step \/ (step # "mark" /\ step' # "mark")
    PROVE  MarkOK' /\ FoundOK'
<1>1. \A m, n : Interrupted(m, n)' <=> Interrupted(m, n)
  BY SameSent DEF Interrupted
<1>2. MarkOK'
  BY <1>1, SameSent DEF TerminalsIInv, MarkOK
<1>3. ExitIsCurrent'
  BY DEF TerminalsIInv, FoundOK, ExitIsCurrent, Later
<1> QED BY <1>2, <1>3, SameSent DEF TerminalsIInv, FoundOK

LEMMA SameFed ==
    ASSUME TerminalsIInv, UNCHANGED <<sent, fed>> PROVE NoMarkerAsInput'
BY SameSent DEF TerminalsIInv, NoMarkerAsInput

\* What is on its way, and what runs, are unchanged.
LEMMA SamePipe ==
    ASSUME UNCHANGED <<sent, typed, reqs, fg>>, Pending' = Pending
    PROVE  Behind' = Behind /\ Pipe' = Pipe /\ Unread' = Unread /\ Running' = Running
BY DEF Behind, Pipe, Unread, Running

-----------------------------------------------------------------------------
LEMMA LookStep ==
    ASSUME TerminalsIInv, Look PROVE TerminalsIInv'
<1>0. N \in Nat /\ \A n \in 1..N : sent[n] \in SentRec
  BY LengthOfSent
<1>t. PICK t : t = N + 1
  OBVIOUS
<1>1. PICK kind \in Kinds :
        /\ act' = MarkAction(kind, AtPrompt)
        /\ sent' = Append(sent, [kind |-> kind, wrapped |-> act' = "track", found |-> Tracked])
        /\ step' = IF kind = "close" THEN "post" ELSE "mark"
  BY DEF Look
<1>2. PICK w \in BOOLEAN : w <=> act' = "track"
  OBVIOUS
<1>3. PICK e : e = [kind |-> kind, wrapped |-> act' = "track", found |-> Tracked]
  OBVIOUS
<1>4. e \in SentRec /\ e.kind = kind /\ (e.wrapped <=> w) /\ e.found = Tracked
  <2>1. Tracked \in {"none", "running", "shown", "logged"}
    BY DEF Tracked
  <2>2. (act' = "track") \in BOOLEAN
    OBVIOUS
  <2>3. e.kind = kind /\ e.wrapped = (act' = "track") /\ e.found = Tracked
    BY <1>3
  <2>4. e \in SentRec
    BY <1>3, <2>1, <2>2 DEF SentRec
  <2> QED BY <1>2, <2>3, <2>4
<1>5. /\ sent' \in Seq(SentRec) /\ Len(sent') = N + 1 /\ sent'[N + 1] = e
      /\ \A n \in 1..N : sent'[n] = sent[n]
  BY <1>1, <1>3, <1>4, AppendProperties DEF TerminalsIInv, TermTyped, N
<1>6. /\ step = "idle" /\ N < MaxSends /\ step' \in {"mark", "post"}
      /\ UNCHANGED <<row, reqs, dones, applied, typed, fg, onScreen, log, fed, byUser, mark, told>>
  BY <1>1 DEF Look, queue, shell
<1>7. N' = N + 1
  BY <1>5 DEF N
<1>8. /\ \A n \in 0..N : (Wrapped(n)' <=> Wrapped(n)) /\ (Interrupt(n)' <=> Interrupt(n))
      /\ \A n \in 1..N : (IsLine(n)' <=> IsLine(n)) /\ (Unseen(n)' <=> Unseen(n))
      /\ (Wrapped(t)' <=> w) /\ (Interrupt(t)' <=> kind = "interrupt")
  <2>1. \A n \in 0..N : n # 0 => n \in 1..N
    BY <1>0
  <2>2. N + 1 # 0
    BY <1>0
  <2>3. \A n \in 0..N : (Wrapped(n)' <=> Wrapped(n)) /\ (Interrupt(n)' <=> Interrupt(n))
    BY <1>5, <2>1 DEF Wrapped, Interrupt
  <2>4. (Wrapped(t)' <=> w) /\ (Interrupt(t)' <=> kind = "interrupt")
    <3>1. Wrapped(t)' <=> sent'[N + 1].wrapped
      BY <1>7, <1>t, <2>2 DEF Wrapped
    <3>2. Interrupt(t)' <=> sent'[N + 1].kind = "interrupt"
      BY <1>7, <1>t, <2>2 DEF Interrupt
    <3> QED BY <1>4, <1>5, <1>t, <3>1, <3>2
  <2>5. \A n \in 1..N : (IsLine(n)' <=> IsLine(n)) /\ (Unseen(n)' <=> Unseen(n))
    BY <1>5 DEF IsLine, Unseen
  <2> QED BY <2>3, <2>4, <2>5
<1>9. Pending = {} /\ Pending' = {N + 1} /\ Unread' = Unread /\ Running' = Running
      /\ Behind = reqs /\ Behind' = reqs \cup {N + 1} /\ Pipe' = Pipe \cup {N + 1}
  BY <1>6, <1>7 DEF Pending, Unread, Running, Behind, Pipe
<1>10. act' \in {"track", "keep", "clear"}
  BY <1>1 DEF MarkAction
<1>11. TermTyped'
  <2>1. 1..N \subseteq 1..(N + 1) /\ 0..N \subseteq 0..(N + 1) /\ N + 1 <= MaxSends /\ N + 1 # 0 /\ N + 1 \notin 1..N
    BY <1>0, <1>6, TerminalsAssumption
  <2>2. applied' \in Seq(1..(N + 1)) /\ typed' \in Seq(0..(N + 1))
    <3>1. applied \in Seq(1..N) /\ typed \in Seq(0..N)
      BY DEF TerminalsIInv, TermTyped
    <3>2. Seq(1..N) \subseteq Seq(1..(N + 1)) /\ Seq(0..N) \subseteq Seq(0..(N + 1))
      BY <2>1, SeqMonotonic
    <3> QED BY <1>6, <3>1, <3>2
  <2>3. reqs' \subseteq 1..N' /\ (Pending' # {} => N' # 0 /\ N' \notin reqs')
    BY <1>6, <1>7, <2>1 DEF TerminalsIInv, TermTyped
  <2>4. fg' \in {<<>>, <<Running'>>} /\ Running' \in 0..N'
    BY <1>6, <1>7, <1>9, <2>1 DEF TerminalsIInv, TermTyped
  <2> QED BY <1>5, <1>6, <1>7, <1>10, <2>1, <2>2, <2>3, <2>4 DEF TerminalsIInv, TermTyped
<1>12. OrderOK'
  <2>1. \A i \in 1..Len(applied) : applied[i] \in 1..N
    BY ElementOfSeq DEF TerminalsIInv, TermTyped
  <2>2. \A i \in 1..Len(typed) : typed[i] \in 0..N
    BY ElementOfSeq DEF TerminalsIInv, TermTyped
  <2>3. onScreen \subseteq 1..N /\ log \subseteq 1..N /\ Running \in 0..N
    BY DEF TerminalsIInv, TermTyped
  <2>4. \A k \in 0..N : k < N + 1
    BY <1>0
  <2>5. SentInOrder'
    BY <1>6 DEF TerminalsIInv, OrderOK, SentInOrder
  <2>6. \A x \in Behind', i \in 1..Len(applied') : applied'[i] < x
    BY <1>6, <1>9, <2>1, <2>4 DEF TerminalsIInv, OrderOK
  <2>7. \A x \in Behind', i \in 1..Len(typed') : typed'[i] < x
    BY <1>6, <1>9, <2>2, <2>4 DEF TerminalsIInv, OrderOK
  <2>8. Running' # 0 => \A y \in Pipe' : Running' < y
    BY <1>9, <2>3, <2>4 DEF TerminalsIInv, OrderOK
  <2>9. \A x \in onScreen' \cup log' :
          Wrapped(x)' /\ (\A y \in Pipe' : x < y) /\ (Running' # 0 => x < Running')
    <3> SUFFICES ASSUME NEW x \in onScreen \cup log
                 PROVE  Wrapped(x)' /\ (\A y \in Pipe' : x < y) /\ (Running' # 0 => x < Running')
      BY <1>6
    <3>1. x \in 0..N
      BY <2>3
    <3> QED BY <1>8, <1>9, <2>4, <3>1 DEF TerminalsIInv, OrderOK
  <2> QED BY <1>6, <2>5, <2>6, <2>7, <2>8, <2>9 DEF TerminalsIInv, OrderOK
<1>13. NothingIsLost'
  <2> SUFFICES ASSUME row = "open", NEW k \in 1..(N + 1)
               PROVE  /\ k \in Pipe' \/ \A y \in Pipe' : k < y
                      /\ Running' # 0 /\ Running' < k /\ Interrupt(k)' => k \in Pipe'
    BY <1>6, <1>7 DEF NothingIsLost
  <2>1. k = N + 1 \/ (k \in 1..N /\ k \in 0..N /\ k < N + 1)
    BY <1>0
  <2> QED BY <1>t, <1>8, <1>9, <2>1 DEF TerminalsIInv, NothingIsLost
<1>14. \A m, n \in 0..N : Interrupted(m, n) => Interrupted(m, n)' /\ Interrupted(m, t)'
  <2> SUFFICES ASSUME NEW m \in 0..N, NEW n \in 0..N, Interrupted(m, n)
               PROVE  Interrupted(m, n)' /\ Interrupted(m, t)'
    OBVIOUS
  <2>1. PICK k \in (m + 1)..n : Interrupt(k)
    BY DEF Interrupted
  <2>2. k \in 0..N /\ k \in (m + 1)..(N + 1)
    BY <1>0
  <2>3. Interrupt(k)'
    BY <1>8, <2>1, <2>2
  <2> QED BY <1>t, <2>2, <2>3 DEF Interrupted
<1>15. w => act' = "track" /\ kind = "line" /\ AtPrompt
  BY <1>1, <1>2 DEF MarkAction
<1>16. MarkOK'
  <2>0. mark \in 0..N
    BY DEF TerminalsIInv, TermTyped
  <2>1. mark' # 0 => Wrapped(mark)'
    BY <1>6, <1>8, <2>0 DEF TerminalsIInv, MarkOK
  <2>2. \A n \in 1..(N + 1) : n = N + 1 \/ (n \in 1..N /\ n \in 0..N)
    BY <1>0
  <2>3. \A n \in 1..(N + 1) : Wrapped(n)' => ~Interrupt(n)'
    BY <1>t, <1>8, <1>15, <2>2 DEF TerminalsIInv, MarkOK
  <2>4. ASSUME NEW m \in 1..(N + 1), NEW n \in 1..(N + 1), m < n, Wrapped(m)', Wrapped(n)'
        PROVE  m \in log' \/ Interrupted(m, n)'
    <3>1. m \in 1..N /\ m \in 0..N
      BY <1>0, <2>4
    <3>2. CASE n \in 1..N
      <4>1. n \in 0..N /\ Wrapped(m) /\ Wrapped(n)
        BY <1>0, <1>8, <2>4, <3>1, <3>2
      <4> QED BY <1>6, <1>14, <2>4, <3>1, <3>2, <4>1 DEF TerminalsIInv, MarkOK
    <3>3. CASE n = N + 1
      <4>1. w /\ Wrapped(m)
        BY <1>t, <1>8, <2>4, <3>1, <3>3
      <4>2. mark = 0 \/ mark \in log
        BY <1>15, <4>1 DEF AtPrompt
      <4>3. m \in log \/ Interrupted(m, N)
        BY <1>6, <3>1, <4>1, <4>2 DEF TerminalsIInv, MarkOK
      <4>4. N \in 0..N
        BY <1>0
      <4> QED BY <1>t, <1>6, <1>14, <3>1, <3>3, <4>3, <4>4
    <3> QED BY <2>2, <3>2, <3>3
  <2>5. ASSUME NEW m \in 1..(N + 1), Wrapped(m)', m \notin log'
        PROVE  m = mark' \/ (m = N' /\ step' = "mark") \/ Interrupted(m, t)'
    <3>1. CASE m \in 1..N
      <4>1. m \in 0..N /\ N \in 0..N /\ Wrapped(m)
        BY <1>0, <1>8, <2>5, <3>1
      <4>2. m = mark \/ Interrupted(m, N)
        BY <1>6, <2>5, <3>1, <4>1 DEF TerminalsIInv, MarkOK
      <4> QED BY <1>6, <1>14, <4>1, <4>2
    <3>2. CASE m = N + 1
      <4>1. kind = "line"
        BY <1>t, <1>8, <1>15, <2>5, <3>2
      <4> QED BY <1>1, <1>7, <3>2, <4>1
    <3> QED BY <2>2, <3>1, <3>2
  <2>6. step' = "mark" => /\ N + 1 # 0 /\ (Wrapped(t)' <=> act' = "track")
                          /\ act' = "track" \/ (act' = "clear" /\ ~Interrupt(t)') => mark' = 0 \/ mark' \in log'
    <3>1. act' = "clear" /\ kind # "interrupt" => AtPrompt
      BY <1>1 DEF MarkAction
    <3>2. AtPrompt => mark = 0 \/ mark \in log
      BY DEF AtPrompt
    <3>3. act' = "track" => w
      BY <1>2
    <3> QED BY <1>t, <1>0, <1>6, <1>8, <1>15, <3>1, <3>2, <3>3
  <2> QED BY <1>t, <1>7, <2>1, <2>3, <2>4, <2>5, <2>6 DEF MarkOK
<1>17. FoundOK'
  <2>1. ASSUME mark' # 0, NEW n \in (mark' + 1)..(N + 1), IsLine(n)', ~Unseen(n)'
        PROVE  n = N' /\ step' = "mark" /\ act' # "keep"
    <3>1. mark \in 0..N /\ mark # 0 /\ mark' = mark
      BY <1>6, <2>1 DEF TerminalsIInv, TermTyped
    <3>2. CASE n \in 1..N
      <4>1. n \in (mark + 1)..N /\ IsLine(n) /\ ~Unseen(n)
        BY <1>0, <1>8, <2>1, <3>1, <3>2
      <4> QED BY <1>6, <3>1, <4>1 DEF TerminalsIInv, FoundOK
    <3>3. CASE n = N + 1
      <4>1. kind \in {"line", "lines"} /\ Tracked \notin {"running", "shown"}
        BY <1>4, <1>5, <2>1, <3>3 DEF IsLine, Unseen
      <4>2. AtPrompt
        BY <4>1 DEF Tracked, AtPrompt
      <4>3. act' # "keep"
        BY <1>1, <4>1, <4>2 DEF MarkAction
      <4> QED BY <1>1, <1>7, <3>3, <4>1, <4>3
    <3> QED BY <1>0, <2>1, <3>1, <3>2, <3>3
  <2>2. ExitIsCurrent'
    <3>1. told.of \in 0..N /\ told.n \in 0..N
      BY DEF TerminalsIInv, TermTyped
    <3>2. \A n \in (told.n + 1)..told.of : n \in 1..N
      BY <1>0, <3>1
    <3>3. Later' = Later
      BY <1>5, <1>6, <3>2 DEF Later
    <3>4. \A n \in Later : n \in 1..N
      BY <3>2 DEF Later
    <3> QED BY <1>5, <3>3, <3>4 DEF TerminalsIInv, FoundOK, ExitIsCurrent
  <2> QED BY <1>7, <2>1, <2>2 DEF FoundOK
<1>18. NoMarkerAsInput'
  <2>1. \A p \in fed : p[1] \in 0..N /\ p[2] \in 0..N
    BY DEF TerminalsIInv, TermTyped
  <2> QED BY <1>6, <1>8, <2>1 DEF TerminalsIInv, NoMarkerAsInput
<1> QED BY <1>11, <1>12, <1>13, <1>16, <1>17, <1>18 DEF TerminalsIInv

LEMMA SetMarkStep ==
    ASSUME TerminalsIInv, SetMark PROVE TerminalsIInv'
<1>0. N \in Nat /\ \A n \in 1..N : sent[n] \in SentRec
  BY LengthOfSent
<1>1. /\ step = "mark" /\ step' = "post"
      /\ mark' = CASE act = "track" -> N [] act = "clear" -> 0 [] OTHER -> mark
      /\ UNCHANGED <<row, sent, act, reqs, dones, applied, typed, fg, onScreen, log, fed, byUser, told>>
  BY DEF SetMark, queue, shell
<1>2. N' = N /\ Pending' = Pending
  BY <1>1, SameSent DEF Pending
<1>3. /\ \A n : (Wrapped(n)' <=> Wrapped(n)) /\ (Interrupt(n)' <=> Interrupt(n))
      /\ \A n : (IsLine(n)' <=> IsLine(n)) /\ (Unseen(n)' <=> Unseen(n))
  BY <1>1, SameSent
<1>4. Behind' = Behind /\ Pipe' = Pipe /\ Running' = Running
  BY <1>1, <1>2, SamePipe
<1>5. act \in {"track", "keep", "clear"} /\ mark \in 0..N /\ N # 0
  BY <1>1 DEF TerminalsIInv, TermTyped, MarkOK
<1>6. mark' \in 0..N
  BY <1>0, <1>1, <1>5
<1>7. TermTyped'
  BY <1>1, <1>2, <1>4, <1>6 DEF TerminalsIInv, TermTyped
<1>8. OrderOK' /\ NothingIsLost'
  <2>1. OrderOK'
    BY <1>1, <1>3, <1>4 DEF TerminalsIInv, OrderOK, SentInOrder
  <2>2. NothingIsLost'
    BY <1>1, <1>2, <1>3, <1>4 DEF TerminalsIInv, NothingIsLost
  <2> QED BY <2>1, <2>2
<1>9. \A m, n : Interrupted(m, n)' <=> Interrupted(m, n)
  BY <1>3 DEF Interrupted
<1>10. MarkOK'
  <2>1. mark' # 0 => Wrapped(mark)'
    <3>1. CASE act = "track"
      BY <1>1, <1>3, <3>1 DEF TerminalsIInv, MarkOK
    <3>2. CASE act # "track"
      BY <1>1, <1>3, <1>5, <3>2 DEF TerminalsIInv, MarkOK
    <3> QED BY <3>1, <3>2
  <2>2. ASSUME NEW m \in 1..N, Wrapped(m), m \notin log
        PROVE  m = mark' \/ Interrupted(m, N)
    <3>1. m = mark \/ m = N \/ Interrupted(m, N)
      BY <2>2 DEF TerminalsIInv, MarkOK
    <3>2. m = N => act = "track"
      BY <1>1, <2>2 DEF TerminalsIInv, MarkOK
    <3>3. CASE act = "track"
      <4>1. mark = 0 \/ mark \in log
        BY <1>1, <3>3 DEF TerminalsIInv, MarkOK
      <4>2. m # 0
        OBVIOUS
      <4> QED BY <1>1, <2>2, <3>1, <3>3, <4>1, <4>2
    <3>4. CASE act = "clear"
      <4>1. CASE Interrupt(N)
        <5>1. m # N
          BY <3>2, <3>4
        <5>2. N \in (m + 1)..N
          BY <1>0, <5>1
        <5> QED BY <4>1, <5>2 DEF Interrupted
      <4>2. CASE ~Interrupt(N)
        <5>1. mark = 0 \/ mark \in log
          BY <1>1, <3>4, <4>2 DEF TerminalsIInv, MarkOK
        <5>2. m # 0
          OBVIOUS
        <5> QED BY <2>2, <3>1, <3>2, <3>4, <5>1, <5>2
      <4> QED BY <4>1, <4>2
    <3>5. CASE act = "keep"
      BY <1>1, <3>1, <3>2, <3>5
    <3> QED BY <1>5, <3>3, <3>4, <3>5
  <2> QED BY <1>1, <1>2, <1>3, <1>9, <2>1, <2>2 DEF TerminalsIInv, MarkOK
<1>11. FoundOK'
  <2>1. ASSUME mark' # 0, NEW n \in (mark' + 1)..N, IsLine(n) PROVE Unseen(n)
    <3>1. CASE act = "track"
      BY <1>0, <1>1, <2>1, <3>1
    <3>2. CASE act = "clear"
      BY <1>1, <2>1, <3>2
    <3>3. CASE act = "keep"
      BY <1>1, <2>1, <3>3 DEF TerminalsIInv, FoundOK
    <3> QED BY <1>5, <3>1, <3>2, <3>3
  <2>2. ExitIsCurrent'
    BY <1>1 DEF TerminalsIInv, FoundOK, ExitIsCurrent, Later
  <2> QED BY <1>2, <1>3, <2>1, <2>2 DEF FoundOK
<1>12. NoMarkerAsInput'
  BY <1>1, SameFed
<1> QED BY <1>7, <1>8, <1>10, <1>11, <1>12 DEF TerminalsIInv

LEMMA PostStep ==
    ASSUME TerminalsIInv, Post PROVE TerminalsIInv'
<1>0. N \in Nat /\ \A n \in 1..N : sent[n] \in SentRec
  BY LengthOfSent
<1>1. /\ step = "post" /\ step' = "wait" /\ reqs' = reqs \cup {N}
      /\ UNCHANGED <<row, sent, act, dones, applied, typed, fg, onScreen, log, fed, byUser, mark, told>>
  BY DEF Post, shell
<1>2. N' = N /\ Pending = {N} /\ Pending' = {}
  BY <1>1, SameSent DEF Pending
<1>3. Unread' = Unread /\ Behind' = Behind /\ Pipe' = Pipe /\ Running' = Running
  BY <1>1, <1>2 DEF Unread, Behind, Pipe, Running
<1>4. TermTyped'
  <2>1. N \in 1..N
    BY <1>0, <1>2 DEF TerminalsIInv, TermTyped
  <2> QED BY <1>1, <1>2, <1>3, <2>1 DEF TerminalsIInv, TermTyped
<1>5. OrderOK'
  BY <1>1, <1>3, SameSent DEF TerminalsIInv, OrderOK, SentInOrder
<1>6. NothingIsLost'
  BY <1>1, <1>3, SameSent DEF TerminalsIInv, NothingIsLost
<1>7. MarkOK' /\ FoundOK' /\ NoMarkerAsInput'
  BY <1>1, SameMarks, SameFed
<1> QED BY <1>4, <1>5, <1>6, <1>7 DEF TerminalsIInv

LEMMA AnswerStep ==
    ASSUME TerminalsIInv, Reply \/ SendTimesOut \/ Stray PROVE TerminalsIInv'
<1>1. /\ step' = step \/ (step # "mark" /\ step' # "mark")
      /\ Pending' = Pending
      /\ step' \in {"idle", "mark", "post", "wait"}
      /\ UNCHANGED <<row, sent, act, reqs, applied, typed, fg, onScreen, log, fed, byUser, mark, told>>
  <2>1. CASE Reply
    BY <2>1 DEF Reply, shell, Pending
  <2>2. CASE SendTimesOut
    BY <2>2 DEF SendTimesOut, queue, shell, Pending
  <2>3. CASE Stray
    BY <2>3, SameSent DEF Stray, caller, shell, Pending, TerminalsIInv, TermTyped
  <2> QED BY <2>1, <2>2, <2>3
<1>2. Behind' = Behind /\ Pipe' = Pipe /\ Running' = Running /\ N' = N
  BY <1>1, SamePipe, SameSent
<1>3. TermTyped'
  BY <1>1, <1>2 DEF TerminalsIInv, TermTyped
<1>4. OrderOK'
  BY <1>1, <1>2, SameSent DEF TerminalsIInv, OrderOK, SentInOrder
<1>5. NothingIsLost'
  BY <1>1, <1>2, SameSent DEF TerminalsIInv, NothingIsLost
<1>6. MarkOK' /\ FoundOK' /\ NoMarkerAsInput'
  BY <1>1, SameMarks, SameFed
<1> QED BY <1>3, <1>4, <1>5, <1>6 DEF TerminalsIInv

-----------------------------------------------------------------------------
LEMMA UserTypesStep ==
    ASSUME TerminalsIInv, UserTypes PROVE TerminalsIInv'
<1>0. N \in Nat
  BY LengthOfSent
<1>1. /\ typed' = Append(typed, 0)
      /\ UNCHANGED <<row, sent, step, act, reqs, dones, applied, fg, onScreen, log, mark, fed, told>>
  BY DEF UserTypes, caller, queue
<1>2. N' = N /\ Pending' = Pending /\ Behind' = Behind /\ Running' = Running
  BY <1>1, SameSent DEF Pending, Behind, Running
<1>3. typed \in Seq(0..N) /\ Len(typed) \in Nat
  BY LenProperties DEF TerminalsIInv, TermTyped
<1>4. /\ typed' \in Seq(0..N) /\ Len(typed') = Len(typed) + 1 /\ typed'[Len(typed) + 1] = 0
      /\ \A i \in 1..Len(typed) : typed'[i] = typed[i]
  BY <1>0, <1>1, <1>3, AppendProperties
<1>5. \A i \in 1..Len(typed') : i \in 1..Len(typed) \/ i = Len(typed) + 1
  BY <1>3, <1>4
<1>6. \A i \in 1..Len(typed) : i \in 1..Len(typed')
  BY <1>3, <1>4
<1>7. Unread' = Unread /\ Pipe' = Pipe
  BY <1>2, <1>4, <1>5, <1>6 DEF Unread, Pipe
<1>8. TermTyped'
  BY <1>1, <1>2, <1>4 DEF TerminalsIInv, TermTyped
<1>9. OrderOK'
  <2>1. \A i, j \in 1..Len(typed') : i < j /\ typed'[i] # 0 /\ typed'[j] # 0 => typed'[i] < typed'[j]
    BY <1>4, <1>5 DEF TerminalsIInv, OrderOK
  <2>2. Behind \subseteq 1..N
    BY <1>0 DEF TerminalsIInv, TermTyped, Behind, Pending
  <2>3. \A x \in Behind, i \in 1..Len(typed') : typed'[i] < x
    BY <1>4, <1>5, <2>2 DEF TerminalsIInv, OrderOK
  <2> QED BY <1>1, <1>2, <1>7, <2>1, <2>3, SameSent DEF TerminalsIInv, OrderOK, SentInOrder
<1>10. NothingIsLost'
  BY <1>1, <1>2, <1>7, SameSent DEF TerminalsIInv, NothingIsLost
<1>11. MarkOK' /\ FoundOK' /\ NoMarkerAsInput'
  BY <1>1, SameMarks, SameFed
<1> QED BY <1>8, <1>9, <1>10, <1>11 DEF TerminalsIInv

-----------------------------------------------------------------------------
\* What is applied of a list of requests is a beginning of it.
LEMMA UpToCloseIs ==
    ASSUME NEW S, NEW list \in Seq(S)
    PROVE  /\ UpToClose(list) \in Seq(S) /\ Len(UpToClose(list)) <= Len(list)
           /\ \A i \in 1..Len(UpToClose(list)) : UpToClose(list)[i] = list[i]
<1> DEFINE closes == {i \in DOMAIN list : sent[list[i]].kind = "close"}
<1>1. Len(list) \in Nat /\ DOMAIN list = 1..Len(list)
  BY LenProperties
<1>2. CASE closes = {}
  BY <1>1, <1>2 DEF UpToClose
<1>3. CASE closes # {}
  <2>1. closes \subseteq 1..Len(list) /\ closes \in SUBSET Nat
    BY <1>1
  <2>2. \E x \in closes : \A y \in closes : x <= y
    BY <1>3, <2>1, LeastNumber
  <2>3. Min(closes) \in closes
    BY <2>2 DEF Min
  <2>4. PICK m : m = Min(closes) - 1
    OBVIOUS
  <2>5. m \in 0..Len(list)
    BY <1>1, <2>1, <2>3, <2>4
  <2>6. UpToClose(list) = SubSeq(list, 1, m)
    BY <1>3, <2>4 DEF UpToClose
  <2>7. SubSeq(list, 1, m) \in Seq(S) /\ Len(SubSeq(list, 1, m)) = m
        /\ \A i \in 1..m : SubSeq(list, 1, m)[i] = list[i]
    BY <1>1, <2>5, SubSeqProperties
  <2> QED BY <2>5, <2>6, <2>7
<1> QED BY <1>2, <1>3

LEMMA TerminalTick ==
    ASSUME TerminalsIInv, Tick PROVE TerminalsIInv'
<1>0. N \in Nat
  BY LengthOfSent
<1>1. reqs' = {} /\ UNCHANGED <<sent, step, act, onScreen, log, mark, fed, told>>
  BY DEF Tick, caller
<1>2. N' = N /\ Pending' = Pending /\ Behind' = Pending
  BY <1>1, SameSent DEF Pending, Behind
<1>3. reqs \subseteq 1..N /\ Pending \subseteq 1..N /\ IsFiniteSet(reqs) /\ reqs \in SUBSET Nat
      /\ \A r \in reqs, p \in Pending : r < p
  <2>1. reqs \subseteq 1..N /\ (Pending # {} => N # 0 /\ N \notin reqs)
    BY DEF TerminalsIInv, TermTyped
  <2>2. IsFiniteSet(1..N)
    BY <1>0, FS_Interval
  <2>3. Pending = {} \/ Pending = {N}
    BY DEF Pending
  <2>4. IsFiniteSet(reqs)
    BY <2>1, <2>2, FS_Subset
  <2>5. ASSUME NEW r \in reqs, NEW p \in Pending PROVE r < p
    BY <1>0, <2>1, <2>3
  <2>6. Pending \subseteq 1..N
    BY <1>0, <2>1, <2>3
  <2>7. reqs \in SUBSET Nat
    BY <2>1
  <2> QED BY <2>1, <2>4, <2>5, <2>6, <2>7
<1> DEFINE list == Sorted(reqs)
           typing == UpToClose(list)
<1>4. /\ list \in Seq(reqs)
      /\ \A i, j \in 1..Len(list) : i < j => list[i] < list[j]
      /\ \A x \in reqs : \E i \in 1..Len(list) : list[i] = x
  BY <1>3, SortedIs
<1>5. /\ typing \in Seq(reqs) /\ Len(typing) <= Len(list)
      /\ \A i \in 1..Len(typing) : typing[i] = list[i]
  BY <1>4, UpToCloseIs
<1>6. Len(list) \in Nat /\ Len(typing) \in Nat /\ \A i \in 1..Len(typing) : typing[i] \in reqs
  BY <1>4, <1>5, LenProperties, ElementOfSeq
<1>7. \A i, j \in 1..Len(typing) : i < j => typing[i] < typing[j]
  <2>1. \A i \in 1..Len(typing) : i \in 1..Len(list) /\ typing[i] = list[i]
    BY <1>5, <1>6
  <2> HIDE DEF list, typing
  <2> QED BY <1>4, <2>1
<1>8. applied \in Seq(1..N) /\ typed \in Seq(0..N) /\ Len(applied) \in Nat /\ Len(typed) \in Nat
      /\ (\A i \in 1..Len(applied) : applied[i] \in 1..N) /\ (\A i \in 1..Len(typed) : typed[i] \in 0..N)
  BY LenProperties, ElementOfSeq DEF TerminalsIInv, TermTyped
<1>9. typing \in Seq(1..N) /\ typing \in Seq(0..N)
  <2>1. 1..N \subseteq 0..N
    BY <1>0
  <2> QED BY <1>3, <1>5, <2>1, SeqMonotonic
<1> HIDE DEF list, typing
<1>10. \/ row = "closed" /\ UNCHANGED <<row, applied, typed, fg>>
       \/ /\ row = "exited" /\ typing = list /\ UNCHANGED <<row, applied, typed, fg>>
       \/ /\ row = "open" /\ typing = list /\ UNCHANGED <<row, fg>>
          /\ applied' = applied \o typing /\ typed' = typed \o typing
       \/ /\ row' = "closed" /\ typed' = <<>> /\ fg' = <<>>
          /\ applied' = applied \/ applied' = applied \o typing
  BY DEF Tick, list, typing, TerminalsIInv, TermTyped
<1>11. /\ applied \o typing \in Seq(1..N)
       /\ Len(applied \o typing) = Len(applied) + Len(typing)
       /\ \A i \in 1..Len(applied) : (applied \o typing)[i] = applied[i]
       /\ \A i \in (Len(applied) + 1)..(Len(applied) + Len(typing)) : (applied \o typing)[i] = typing[i - Len(applied)]
  BY <1>6, <1>8, <1>9, ConcatProperties
<1>12. /\ typed \o typing \in Seq(0..N)
       /\ Len(typed \o typing) = Len(typed) + Len(typing)
       /\ \A i \in 1..Len(typed) : (typed \o typing)[i] = typed[i]
       /\ \A i \in (Len(typed) + 1)..(Len(typed) + Len(typing)) : (typed \o typing)[i] = typing[i - Len(typed)]
  BY <1>6, <1>8, <1>9, ConcatProperties
<1>13. ASSUME applied' = applied \/ applied' = applied \o typing
       PROVE  /\ applied' \in Seq(1..N) /\ SentInOrder'
              /\ \A x \in Pending, i \in 1..Len(applied') : applied'[i] < x
  <2>1. CASE applied' = applied
    <3>1. SentInOrder'
      BY <2>1 DEF TerminalsIInv, OrderOK, SentInOrder
    <3>2. \A x \in Pending, i \in 1..Len(applied') : applied'[i] < x
      BY <2>1 DEF TerminalsIInv, OrderOK, Behind
    <3> QED BY <1>8, <2>1, <3>1, <3>2
  <2>2. CASE applied' = applied \o typing
    <3>1. \A i \in 1..Len(applied') : \/ i \in 1..Len(applied) /\ applied'[i] = applied[i]
                                      \/ /\ i \in (Len(applied) + 1)..(Len(applied) + Len(typing))
                                         /\ i - Len(applied) \in 1..Len(typing)
                                         /\ applied'[i] = typing[i - Len(applied)]
      BY <1>6, <1>8, <1>11, <2>2
    <3>2. DOMAIN applied' = 1..Len(applied') /\ DOMAIN applied = 1..Len(applied)
      BY <1>8, <1>11, <2>2, LenProperties
    <3>3. \A i \in 1..Len(applied), r \in reqs : applied[i] < r
      BY DEF TerminalsIInv, OrderOK, Behind
    <3>4. \A i, j \in 1..Len(applied) : i < j => applied[i] < applied[j]
      BY <3>2 DEF TerminalsIInv, OrderOK, SentInOrder
    <3>5. ASSUME NEW i \in 1..Len(applied'), NEW j \in 1..Len(applied'), i < j
          PROVE  applied'[i] < applied'[j]
      <4>1. CASE i \in 1..Len(applied)
        BY SMTT(30), <1>6, <3>1, <3>3, <3>4, <3>5, <4>1
      <4>2. CASE i \notin 1..Len(applied)
        <5>1. j \notin 1..Len(applied)
          BY <1>8, <1>6, <1>11, <2>2, <3>5, <4>2
        <5>2. i - Len(applied) < j - Len(applied)
          BY <1>8, <1>6, <1>11, <2>2, <3>5
        <5> QED BY <1>7, <3>1, <4>2, <5>1, <5>2
      <4> QED BY <4>1, <4>2
    <3>6. \A x \in Pending, i \in 1..Len(applied') : applied'[i] < x
      <4>1. \A x \in Pending, i \in 1..Len(applied) : applied[i] < x
        BY DEF TerminalsIInv, OrderOK, Behind
      <4> QED BY <1>3, <1>6, <3>1, <4>1
    <3> QED BY <1>11, <2>2, <3>2, <3>5, <3>6 DEF SentInOrder
  <2> QED BY <1>13, <2>1, <2>2
<1>14. MarkOK' /\ FoundOK' /\ NoMarkerAsInput'
  BY <1>1, SameMarks, SameFed
<1>15. CASE row \in {"closed", "exited"} /\ UNCHANGED <<row, applied, typed, fg>>
  <2>1. Running' = Running /\ Behind' \subseteq Behind /\ Unread' = Unread /\ Pipe' \subseteq Pipe
    BY <1>2, <1>15 DEF Running, Unread, Behind, Pipe
  <2>2. TermTyped'
    BY <1>1, <1>2, <1>13, <1>15, <2>1 DEF TerminalsIInv, TermTyped
  <2>3. OrderOK'
    BY <1>1, <1>15, <2>1, <1>13, SameSent DEF TerminalsIInv, OrderOK
  <2>4. NothingIsLost'
    BY <1>15 DEF NothingIsLost
  <2> QED BY <1>14, <2>2, <2>3, <2>4 DEF TerminalsIInv
<1>16. CASE row = "open" /\ typing = list /\ UNCHANGED <<row, fg>>
            /\ applied' = applied \o typing /\ typed' = typed \o typing
  <2>1. \A i \in 1..Len(typed') : \/ i \in 1..Len(typed) /\ typed'[i] = typed[i]
                                  \/ /\ i \in (Len(typed) + 1)..(Len(typed) + Len(typing))
                                     /\ i - Len(typed) \in 1..Len(typing)
                                     /\ typed'[i] = typing[i - Len(typed)]
    BY <1>6, <1>8, <1>12, <1>16
  <2>2. Unread' = Unread \cup reqs
    <3>1. ASSUME NEW x \in reqs PROVE x \in Unread'
      <4>1. PICK i \in 1..Len(typing) : typing[i] = x
        BY <1>4, <1>16
      <4>2. i + Len(typed) \in 1..Len(typed') /\ typed'[i + Len(typed)] = x
        BY <1>6, <1>8, <1>12, <1>16, <4>1
      <4>3. x # 0
        BY <1>3
      <4> QED BY <4>2, <4>3 DEF Unread
    <3>2. ASSUME NEW x \in Unread PROVE x \in Unread'
      <4>1. PICK i \in 1..Len(typed) : typed[i] = x
        BY DEF Unread
      <4>2. i \in 1..Len(typed') /\ typed'[i] = x
        BY <1>6, <1>8, <1>12, <1>16, <4>1
      <4> QED BY <4>2 DEF Unread
    <3>3. ASSUME NEW x \in Unread' PROVE x \in Unread \cup reqs
      BY <1>6, <2>1 DEF Unread
    <3> QED BY <3>1, <3>2, <3>3
  <2>3. Pipe' = Pipe /\ Running' = Running /\ Behind' \subseteq Behind
    BY <1>2, <1>16, <2>2 DEF Pipe, Behind, Running
  <2>4. TermTyped'
    BY <1>1, <1>2, <1>12, <1>13, <1>16, <2>3 DEF TerminalsIInv, TermTyped
  <2>5. OrderOK'
    <3>1. \A i \in 1..Len(typed), r \in reqs : typed[i] < r
      BY DEF TerminalsIInv, OrderOK, Behind
    <3>2. ASSUME NEW i \in 1..Len(typed'), NEW j \in 1..Len(typed'), i < j, typed'[i] # 0, typed'[j] # 0
          PROVE  typed'[i] < typed'[j]
      <4>1. CASE i \in 1..Len(typed)
        <5>1. typed'[i] = typed[i]
          BY <1>8, <1>12, <1>16, <4>1
        <5>2. CASE j \in 1..Len(typed)
          <6>1. typed'[j] = typed[j]
            BY <1>8, <1>12, <1>16, <5>2
          <6> QED BY <3>2, <4>1, <5>1, <5>2, <6>1 DEF TerminalsIInv, OrderOK
        <5>3. CASE j \notin 1..Len(typed)
          BY <1>6, <2>1, <3>1, <4>1, <5>1, <5>3
        <5> QED BY <5>2, <5>3
      <4>2. CASE i \notin 1..Len(typed)
        <5>1. j \notin 1..Len(typed)
          BY <1>8, <1>6, <1>12, <1>16, <3>2, <4>2
        <5>2. i - Len(typed) < j - Len(typed)
          BY <1>8, <1>6, <1>12, <1>16, <3>2
        <5> QED BY <1>7, <2>1, <4>2, <5>1, <5>2
      <4> QED BY <4>1, <4>2
    <3>3. \A x \in Pending, i \in 1..Len(typed') : typed'[i] < x
      <4>1. \A x \in Pending, i \in 1..Len(typed) : typed[i] < x
        BY DEF TerminalsIInv, OrderOK, Behind
      <4> QED BY <1>3, <1>6, <2>1, <4>1
    <3> QED BY <1>1, <1>2, <1>13, <1>16, <2>3, <3>2, <3>3, SameSent DEF TerminalsIInv, OrderOK
  <2>6. NothingIsLost'
    BY <1>1, <1>2, <1>16, <2>3, SameSent DEF TerminalsIInv, NothingIsLost
  <2> QED BY <1>14, <2>4, <2>5, <2>6 DEF TerminalsIInv
<1>17. CASE row' = "closed" /\ typed' = <<>> /\ fg' = <<>> /\ (applied' = applied \/ applied' = applied \o typing)
  <2>1. Len(typed') = 0 /\ Unread' = {} /\ Running' = 0 /\ Pipe' = Pending /\ typed' \in Seq(0..N)
    BY <1>2, <1>17, EmptySeq DEF Unread, Running, Pipe
  <2>2. Pipe' \subseteq Pipe
    BY <2>1 DEF Pipe, Behind
  <2>3. TermTyped'
    BY <1>0, <1>1, <1>2, <1>13, <1>17, <2>1 DEF TerminalsIInv, TermTyped
  <2>4. OrderOK'
    BY <1>1, <1>2, <1>13, <1>17, <2>1, <2>2, SameSent DEF TerminalsIInv, OrderOK
  <2>5. NothingIsLost'
    BY <1>17 DEF NothingIsLost
  <2> QED BY <1>14, <2>3, <2>4, <2>5 DEF TerminalsIInv
<1> QED BY <1>10, <1>15, <1>16, <1>17

-----------------------------------------------------------------------------
\* A line that is read was before all that is still on its way.
LEMMA ReadsOne ==
    ASSUME TerminalsIInv, typed # <<>>, typed' = Tail(typed), UNCHANGED <<sent, step, act, reqs, applied, log, mark, told>>
    PROVE  /\ Head(typed) \in 0..N /\ typed' \in Seq(0..N)
           /\ (Head(typed) # 0 => Head(typed) \in Pipe)
           /\ N' = N /\ Pending' = Pending /\ Behind' = Behind
           /\ Pipe' \subseteq Pipe /\ Pipe \subseteq Pipe' \cup {Head(typed)}
           /\ \A y \in Pipe' : Head(typed) < y
           /\ SentInOrder' /\ MarkOK' /\ FoundOK'
           /\ \A x \in Behind', i \in 1..Len(applied') : applied'[i] < x
           /\ \A i, j \in 1..Len(typed') : i < j /\ typed'[i] # 0 /\ typed'[j] # 0 => typed'[i] < typed'[j]
           /\ \A x \in Behind', i \in 1..Len(typed') : typed'[i] < x
<1>0. N \in Nat
  BY LengthOfSent
<1>1. N' = N /\ Pending' = Pending /\ Behind' = Behind
  BY SameSent DEF Pending, Behind
<1>2. typed \in Seq(0..N) /\ Len(typed) \in Nat \ {0} /\ \A i \in 1..Len(typed) : typed[i] \in 0..N
  <2>1. typed \in Seq(0..N)
    BY DEF TerminalsIInv, TermTyped
  <2>2. Len(typed) \in Nat /\ Len(typed) # 0
    BY <2>1, LenProperties, EmptySeq
  <2> QED BY <2>1, <2>2, ElementOfSeq
<1>3. Head(typed) = typed[1] /\ 1 \in 1..Len(typed)
  BY <1>2
<1>4. /\ typed' \in Seq(0..N) /\ Len(typed') = Len(typed) - 1
      /\ \A i \in 1..Len(typed') : typed'[i] = typed[i + 1] /\ i + 1 \in 2..Len(typed) /\ i + 1 \in 1..Len(typed)
  BY <1>2, HeadTailProperties
<1>5. \A i \in 1..Len(typed) : i = 1 \/ (i - 1 \in 1..Len(typed') /\ typed'[i - 1] = typed[i])
  BY <1>2, <1>4
<1>6. Unread' \subseteq Unread /\ Unread \subseteq Unread' \cup {Head(typed)}
  <2>1. ASSUME NEW x \in Unread' PROVE x \in Unread
    BY <1>4, <2>1 DEF Unread
  <2>2. ASSUME NEW x \in Unread, x # Head(typed) PROVE x \in Unread'
    <3>1. PICK i \in 1..Len(typed) : typed[i] = x /\ x # 0
      BY DEF Unread
    <3>2. i # 1
      BY <1>3, <2>2, <3>1
    <3>3. i - 1 \in 1..Len(typed') /\ typed'[i - 1] = x
      BY <1>5, <3>1, <3>2
    <3> QED BY <3>1, <3>3 DEF Unread
  <2> QED BY <2>1, <2>2
<1>7. \A y \in Unread' : Head(typed) < y
  <2> SUFFICES ASSUME NEW y \in Unread' PROVE Head(typed) < y
    OBVIOUS
  <2>1. PICK i \in 1..Len(typed') : typed'[i] = y
    BY DEF Unread
  <2>2. y # 0 /\ y = typed[i + 1] /\ i + 1 \in 1..Len(typed) /\ 1 < i + 1 /\ y \in 0..N
    BY <1>2, <1>4, <2>1 DEF Unread
  <2>3. CASE Head(typed) = 0
    BY <2>2, <2>3
  <2>4. CASE Head(typed) # 0
    BY <1>3, <2>2, <2>4 DEF TerminalsIInv, OrderOK
  <2> QED BY <2>3, <2>4
<1>8. \A y \in Behind : Head(typed) < y
  BY <1>3 DEF TerminalsIInv, OrderOK
<1>9. Head(typed) # 0 => Head(typed) \in Pipe
  BY <1>3 DEF Unread, Pipe
<1>10. SentInOrder' /\ \A x \in Behind', i \in 1..Len(applied') : applied'[i] < x
  BY <1>1 DEF TerminalsIInv, OrderOK, SentInOrder
<1>11. \A i, j \in 1..Len(typed') : i < j /\ typed'[i] # 0 /\ typed'[j] # 0 => typed'[i] < typed'[j]
  <2>1. \A i, j \in 1..Len(typed') : i < j => i + 1 < j + 1
    BY <1>4, <1>2
  <2> QED BY <1>4, <2>1 DEF TerminalsIInv, OrderOK
<1>12. \A x \in Behind', i \in 1..Len(typed') : typed'[i] < x
  BY <1>1, <1>4 DEF TerminalsIInv, OrderOK
<1>13. MarkOK' /\ FoundOK'
  BY SameMarks
<1>14. /\ Pipe' \subseteq Pipe /\ Pipe \subseteq Pipe' \cup {Head(typed)}
       /\ \A y \in Pipe' : Head(typed) < y
  BY <1>1, <1>6, <1>7, <1>8 DEF Pipe
<1> QED BY <1>1, <1>2, <1>3, <1>4, <1>9, <1>10, <1>11, <1>12, <1>13, <1>14

\* So what is not on its way was read before all that is.
LEMMA ReadInOrder ==
    ASSUME TerminalsIInv, row = "open", typed # <<>>, typed' = Tail(typed),
           UNCHANGED <<sent, step, act, reqs, applied, log, mark, told>>, NEW k \in 1..N
    PROVE  k \in Pipe' \/ \A y \in Pipe' : k < y
<1>1. /\ Pipe' \subseteq Pipe /\ Pipe \subseteq Pipe' \cup {Head(typed)}
      /\ \A y \in Pipe' : Head(typed) < y
  BY ReadsOne
<1>2. k \in Pipe \/ \A y \in Pipe : k < y
  BY DEF TerminalsIInv, NothingIsLost
<1> QED BY <1>1, <1>2

LEMMA ReadLineStep ==
    ASSUME TerminalsIInv, ReadLine PROVE TerminalsIInv'
<1>0. N \in Nat
  BY LengthOfSent
<1>1. /\ row = "open" /\ fg = <<>> /\ typed # <<>> /\ typed' = Tail(typed)
      /\ \/ ~Interrupt(Head(typed)) /\ fg' = <<Head(typed)>> /\ UNCHANGED row
         \/ Interrupt(Head(typed)) /\ row' \in {"open", "exited"} /\ UNCHANGED fg
      /\ UNCHANGED <<sent, step, act, reqs, dones, applied, onScreen, log, mark, fed, told>>
  BY DEF ReadLine, caller, queue
<1> DEFINE h == Head(typed)
<1>2. /\ h \in 0..N /\ typed' \in Seq(0..N)
      /\ (h # 0 => h \in Pipe)
      /\ N' = N /\ Pending' = Pending /\ Behind' = Behind
      /\ Pipe' \subseteq Pipe /\ Pipe \subseteq Pipe' \cup {h}
      /\ \A y \in Pipe' : h < y
      /\ SentInOrder' /\ MarkOK' /\ FoundOK'
      /\ \A x \in Behind', i \in 1..Len(applied') : applied'[i] < x
      /\ \A i, j \in 1..Len(typed') : i < j /\ typed'[i] # 0 /\ typed'[j] # 0 => typed'[i] < typed'[j]
      /\ \A x \in Behind', i \in 1..Len(typed') : typed'[i] < x
  BY <1>1, ReadsOne
<1>3. Running = 0 /\ ((fg' = <<>> /\ Running' = 0) \/ (fg' = <<h>> /\ Running' = h /\ row' = "open"))
  <2>1. Running = 0
    BY <1>1 DEF Running
  <2>2. fg' = <<>> => Running' = 0
    BY DEF Running
  <2>3. fg' = <<h>> => Running' = h
    <3>1. <<h>> # <<>> /\ <<h>>[1] = h
      OBVIOUS
    <3> QED BY <3>1 DEF Running
  <2>4. CASE ~Interrupt(h)
    <3>1. fg' = <<h>> /\ row' = "open"
      BY <1>1, <2>4
    <3> HIDE DEF h
    <3> QED BY <2>1, <2>3, <3>1
  <2>5. CASE Interrupt(h)
    <3>1. fg' = <<>>
      BY <1>1, <2>5
    <3>2. Running' = 0
      BY <2>2, <3>1
    <3> HIDE DEF h
    <3> QED BY <2>1, <3>1, <3>2
  <2> QED BY <2>4, <2>5
<1> HIDE DEF h
<1>4. TermTyped'
  <2>1. fg' \in {<<>>, <<Running'>>} /\ Running' \in 0..N' /\ row' \in {"open", "exited", "closed"}
    BY <1>0, <1>1, <1>2, <1>3
  <2> QED BY <1>1, <1>2, <2>1 DEF TerminalsIInv, TermTyped
<1>5. OrderOK'
  <2>1. Running' # 0 => \A y \in Pipe' : Running' < y
    BY <1>2, <1>3
  <2>2. ASSUME NEW x \in onScreen \cup log PROVE Wrapped(x)' /\ (\A y \in Pipe' : x < y) /\ (Running' # 0 => x < Running')
    <3>1. Wrapped(x) /\ \A y \in Pipe : x < y
      BY DEF TerminalsIInv, OrderOK
    <3> QED BY <1>1, <1>2, <1>3, <3>1, SameSent
  <2>3. onScreen' \cap log' = {}
    BY <1>1 DEF TerminalsIInv, OrderOK
  <2> QED BY <1>1, <1>2, <2>1, <2>2, <2>3 DEF OrderOK
<1>6. NothingIsLost'
  <2> SUFFICES ASSUME NEW k \in 1..N
               PROVE  /\ k \in Pipe' \/ \A y \in Pipe' : k < y
                      /\ Running' # 0 /\ Running' < k /\ Interrupt(k)' => k \in Pipe'
    BY <1>2 DEF NothingIsLost
  <2>1. k \in Pipe' \/ \A y \in Pipe' : k < y
    BY <1>1, ReadInOrder
  <2>2. ASSUME Running' # 0, Running' < k PROVE k \in Pipe'
    <3>1. Running' = h /\ h \in Pipe /\ h \in Nat /\ h < k /\ ~(k < h)
      BY <1>0, <1>2, <1>3, <2>2
    <3>2. k \in Pipe
      BY <1>1, <3>1 DEF TerminalsIInv, NothingIsLost
    <3> QED BY <1>2, <3>1, <3>2
  <2> QED BY <2>1, <2>2
<1>7. NoMarkerAsInput'
  BY <1>1, SameFed
<1> QED BY <1>2, <1>4, <1>5, <1>6, <1>7 DEF TerminalsIInv

LEMMA FeedStep ==
    ASSUME TerminalsIInv, Feed PROVE TerminalsIInv'
<1>0. N \in Nat
  BY LengthOfSent
<1>1. /\ row = "open" /\ fg # <<>> /\ typed # <<>> /\ typed' = Tail(typed)
      /\ \/ Interrupt(Head(typed)) /\ fg' = <<>> /\ UNCHANGED fed
         \/ ~Interrupt(Head(typed)) /\ fed' = fed \cup {<<Head(typed), fg[1]>>} /\ UNCHANGED fg
      /\ UNCHANGED <<row, sent, step, act, reqs, dones, applied, onScreen, log, mark, told>>
  BY DEF Feed, caller, queue
<1> DEFINE h == Head(typed)
<1>2. /\ h \in 0..N /\ typed' \in Seq(0..N)
      /\ (h # 0 => h \in Pipe)
      /\ N' = N /\ Pending' = Pending /\ Behind' = Behind
      /\ Pipe' \subseteq Pipe /\ Pipe \subseteq Pipe' \cup {h}
      /\ \A y \in Pipe' : h < y
      /\ SentInOrder' /\ MarkOK' /\ FoundOK'
      /\ \A x \in Behind', i \in 1..Len(applied') : applied'[i] < x
      /\ \A i, j \in 1..Len(typed') : i < j /\ typed'[i] # 0 /\ typed'[j] # 0 => typed'[i] < typed'[j]
      /\ \A x \in Behind', i \in 1..Len(typed') : typed'[i] < x
  BY <1>1, ReadsOne
<1>3. fg[1] = Running /\ Running \in 0..N
  BY <1>1 DEF Running, TerminalsIInv, TermTyped
<1>4. \/ Interrupt(h) /\ fg' = <<>> /\ Running' = 0 /\ UNCHANGED fed
      \/ ~Interrupt(h) /\ fed' = fed \cup {<<h, Running>>} /\ UNCHANGED fg /\ Running' = Running
  BY <1>1, <1>3 DEF Running
<1> HIDE DEF h
<1>5. TermTyped'
  <2>1. fg' \in {<<>>, <<Running'>>} /\ Running' \in 0..N'
    BY <1>0, <1>2, <1>3, <1>4 DEF TerminalsIInv, TermTyped
  <2>2. fed' \subseteq (0..N') \X (0..N')
    <3>1. fed \subseteq (0..N) \X (0..N)
      BY DEF TerminalsIInv, TermTyped
    <3>2. <<h, Running>> \in (0..N) \X (0..N)
      BY <1>2, <1>3
    <3> QED BY <1>2, <1>4, <3>1, <3>2
  <2> QED BY <1>1, <1>2, <2>1, <2>2 DEF TerminalsIInv, TermTyped
<1>6. OrderOK'
  <2>1. Running' # 0 => \A y \in Pipe' : Running' < y
    BY <1>2, <1>4 DEF TerminalsIInv, OrderOK
  <2>2. ASSUME NEW x \in onScreen \cup log PROVE Wrapped(x)' /\ (\A y \in Pipe' : x < y) /\ (Running' # 0 => x < Running')
    <3>1. Wrapped(x) /\ (\A y \in Pipe : x < y) /\ (Running # 0 => x < Running)
      BY DEF TerminalsIInv, OrderOK
    <3> QED BY <1>1, <1>2, <1>4, <3>1, SameSent
  <2>3. onScreen' \cap log' = {}
    BY <1>1 DEF TerminalsIInv, OrderOK
  <2> QED BY <1>1, <1>2, <2>1, <2>2, <2>3 DEF OrderOK
<1>7. NothingIsLost'
  <2> SUFFICES ASSUME NEW k \in 1..N
               PROVE  /\ k \in Pipe' \/ \A y \in Pipe' : k < y
                      /\ Running' # 0 /\ Running' < k /\ Interrupt(k)' => k \in Pipe'
    BY <1>2 DEF NothingIsLost
  <2>1. k \in Pipe' \/ \A y \in Pipe' : k < y
    BY <1>1, ReadInOrder
  <2>2. ASSUME Running' # 0, Running' < k, Interrupt(k)' PROVE k \in Pipe'
    <3>1. Running' = Running /\ ~Interrupt(h) /\ Interrupt(k)
      BY <1>1, <1>4, <2>2, SameSent
    <3>2. k \in Pipe /\ k # h
      BY <1>1, <2>2, <3>1 DEF TerminalsIInv, NothingIsLost
    <3> QED BY <1>2, <3>2
  <2> QED BY <2>1, <2>2
<1>8. NoMarkerAsInput'
  <2>1. CASE Interrupt(h)
    BY <1>1, <1>4, <2>1, SameFed
  <2>2. CASE ~Interrupt(h)
    <3>1. ASSUME Wrapped(h), Wrapped(Running) PROVE FALSE
      <4>1. h # 0 /\ Running # 0 /\ h \in 1..N /\ Running \in 1..N
        BY <1>0, <1>2, <1>3, <3>1 DEF Wrapped
      <4>2. Running < h
        BY <1>2, <4>1 DEF TerminalsIInv, OrderOK
      <4>3. Running \notin log
        BY <1>0, <4>1 DEF TerminalsIInv, OrderOK
      <4>4. Interrupted(Running, h)
        BY <3>1, <4>1, <4>2, <4>3 DEF TerminalsIInv, MarkOK
      <4>5. PICK k \in (Running + 1)..h : Interrupt(k)
        BY <4>4 DEF Interrupted
      <4>6. k # h
        BY <2>2, <4>5
      <4>7. k \in 1..N /\ Running < k /\ k < h /\ ~(h < k)
        BY <1>0, <4>1, <4>5, <4>6
      <4>8. k \in Pipe
        BY <1>1, <4>1, <4>5, <4>7 DEF TerminalsIInv, NothingIsLost
      <4> QED BY <1>2, <4>6, <4>7, <4>8
    <3>2. ASSUME NEW p \in fed' PROVE ~(Wrapped(p[1]) /\ Wrapped(p[2]))
      <4>1. CASE p \in fed
        BY <4>1 DEF TerminalsIInv, NoMarkerAsInput
      <4>2. CASE p \notin fed
        <5>1. p[1] = h /\ p[2] = Running
          BY <1>4, <2>2, <3>2, <4>2
        <5> QED BY <3>1, <5>1
      <4> QED BY <4>1, <4>2
    <3> QED BY <1>1, <3>2, SameSent DEF NoMarkerAsInput
  <2> QED BY <2>1, <2>2
<1> QED BY <1>2, <1>5, <1>6, <1>7, <1>8 DEF TerminalsIInv

LEMMA FinishRunStep ==
    ASSUME TerminalsIInv, FinishRun PROVE TerminalsIInv'
<1>0. N \in Nat
  BY LengthOfSent
<1>1. /\ fg # <<>> /\ fg' = <<>> /\ onScreen' = IF Wrapped(fg[1]) THEN onScreen \cup {fg[1]} ELSE onScreen
      /\ UNCHANGED <<row, sent, step, act, reqs, dones, applied, typed, log, mark, fed, told>>
  BY DEF FinishRun, caller, queue
<1>2. fg[1] = Running /\ Running' = 0 /\ Running \in 0..N
  BY <1>1 DEF Running, TerminalsIInv, TermTyped
<1>3. N' = N /\ Pending' = Pending /\ Behind' = Behind /\ Pipe' = Pipe
  BY <1>1, SameSent DEF Pending, Behind, Pipe, Unread
<1>4. onScreen' = onScreen \/ (Wrapped(Running) /\ onScreen' = onScreen \cup {Running} /\ Running \in 1..N)
  BY <1>0, <1>1, <1>2 DEF Wrapped
<1>5. TermTyped'
  <2>1. onScreen' \subseteq 1..N
    BY <1>4 DEF TerminalsIInv, TermTyped
  <2> QED BY <1>0, <1>1, <1>2, <1>3, <2>1 DEF TerminalsIInv, TermTyped
<1>6. OrderOK'
  <2>1. ASSUME NEW x \in onScreen' \cup log' PROVE Wrapped(x)' /\ \A y \in Pipe' : x < y
    <3>1. CASE x \in onScreen \cup log
      BY <1>1, <1>3, <3>1, SameSent DEF TerminalsIInv, OrderOK
    <3>2. CASE x \notin onScreen \cup log
      <4>1. x = Running /\ Wrapped(x) /\ x # 0
        BY <1>0, <1>1, <1>4, <2>1, <3>2
      <4> QED BY <1>1, <1>3, <4>1, SameSent DEF TerminalsIInv, OrderOK
    <3> QED BY <3>1, <3>2
  <2>2. onScreen' \cap log' = {}
    <3>1. Running # 0 => Running \notin log
      BY <1>0, <1>2 DEF TerminalsIInv, OrderOK
    <3>2. onScreen \cap log = {}
      BY DEF TerminalsIInv, OrderOK
    <3> QED BY <1>0, <1>1, <1>4, <3>1, <3>2
  <2> QED BY <1>1, <1>2, <1>3, <2>1, <2>2 DEF TerminalsIInv, OrderOK, SentInOrder
<1>7. NothingIsLost'
  BY <1>1, <1>2, <1>3 DEF TerminalsIInv, NothingIsLost
<1>8. MarkOK' /\ FoundOK' /\ NoMarkerAsInput'
  BY <1>1, SameMarks, SameFed
<1> QED BY <1>5, <1>6, <1>7, <1>8 DEF TerminalsIInv

LEMMA ScrollStep ==
    ASSUME TerminalsIInv, Scroll PROVE TerminalsIInv'
<1>0. N \in Nat
  BY LengthOfSent
<1>1. PICK m : m = Min(onScreen)
  OBVIOUS
<1>2. /\ onScreen # {} /\ log' = log \cup {m} /\ onScreen' = onScreen \ {m}
      /\ UNCHANGED <<row, sent, step, act, reqs, dones, applied, typed, fg, mark, fed, told>>
  BY <1>1 DEF Scroll, caller, queue
<1>3. m \in onScreen
  <2>1. onScreen \in SUBSET Nat
    BY <1>0 DEF TerminalsIInv, TermTyped
  <2>2. \E x \in onScreen : \A y \in onScreen : x <= y
    BY <1>2, <2>1, LeastNumber
  <2> QED BY <1>1, <2>2 DEF Min
<1>4. onScreen' \cup log' = onScreen \cup log /\ (onScreen \cap log = {} => onScreen' \cap log' = {})
  BY <1>2, <1>3
<1>5. N' = N /\ Pending' = Pending /\ Behind' = Behind /\ Pipe' = Pipe /\ Running' = Running
  BY <1>2, SameSent DEF Pending, Behind, Pipe, Unread, Running
<1>6. TermTyped'
  <2>1. onScreen' \subseteq 1..N /\ log' \subseteq 1..N
    BY <1>4 DEF TerminalsIInv, TermTyped
  <2> QED BY <1>2, <1>5, <2>1 DEF TerminalsIInv, TermTyped
<1>7. OrderOK'
  BY <1>2, <1>4, <1>5, SameSent DEF TerminalsIInv, OrderOK, SentInOrder
<1>8. NothingIsLost'
  BY <1>2, <1>5, SameSent DEF TerminalsIInv, NothingIsLost
<1>9. MarkOK' /\ FoundOK' /\ NoMarkerAsInput'
  BY <1>2, SameMarks, SameFed
<1> QED BY <1>6, <1>7, <1>8, <1>9 DEF TerminalsIInv

LEMMA ReadBackStep ==
    ASSUME TerminalsIInv, ReadBack PROVE TerminalsIInv'
<1>0. N \in Nat
  BY LengthOfSent
<1>1. PICK n : n = IF mark \in log THEN mark ELSE 0
  OBVIOUS
<1>2. /\ step = "idle" /\ told' = [n |-> n, of |-> N]
      /\ UNCHANGED <<row, sent, step, act, reqs, dones, applied, typed, fg, onScreen, log, mark, fed>>
  BY <1>1 DEF ReadBack, caller, queue, shell
<1>3. told'.n = n /\ told'.of = N /\ n \in 0..N /\ N \in 0..N
  BY <1>0, <1>1, <1>2 DEF TerminalsIInv, TermTyped
<1>4. N' = N /\ Pending' = Pending /\ Behind' = Behind /\ Pipe' = Pipe /\ Running' = Running
  BY <1>2, SameSent DEF Pending, Behind, Pipe, Unread, Running
<1>5. TermTyped'
  BY <1>2, <1>3, <1>4 DEF TerminalsIInv, TermTyped
<1>6. OrderOK'
  BY <1>2, <1>4, SameSent DEF TerminalsIInv, OrderOK, SentInOrder
<1>7. NothingIsLost'
  BY <1>2, <1>4, SameSent DEF TerminalsIInv, NothingIsLost
<1>8. MarkOK'
  BY <1>2, SameSent DEF TerminalsIInv, MarkOK, Interrupted
<1>9. FoundOK'
  <2>1. ExitIsCurrent'
    <3> SUFFICES ASSUME NEW x \in (n + 1)..N, n # 0, IsLine(x) PROVE Unseen(x)
      BY <1>2, <1>3 DEF ExitIsCurrent, Later, IsLine, Unseen
    <3>1. n = mark /\ mark # 0
      BY <1>1
    <3> QED BY <1>2, <3>1 DEF TerminalsIInv, FoundOK
  <2> QED BY <1>2, <2>1, SameSent DEF TerminalsIInv, FoundOK
<1>10. NoMarkerAsInput'
  BY <1>2, SameFed
<1> QED BY <1>5, <1>6, <1>7, <1>8, <1>9, <1>10 DEF TerminalsIInv

LEMMA TerminalsIdle ==
    ASSUME TerminalsIInv, UNCHANGED terminalsVars PROVE TerminalsIInv'
<1>1. UNCHANGED <<row, sent, step, act, reqs, dones, applied, typed, fg, onScreen, log, mark, fed, told>>
  BY DEF terminalsVars
<1>2. Pending' = Pending /\ Behind' = Behind /\ Pipe' = Pipe /\ Running' = Running /\ N' = N
  BY <1>1, SameSent DEF Pending, Behind, Pipe, Unread, Running
<1>3. TermTyped'
  BY <1>1, <1>2 DEF TerminalsIInv, TermTyped
<1>4. OrderOK' /\ NothingIsLost'
  BY <1>1, <1>2, SameSent DEF TerminalsIInv, OrderOK, SentInOrder, NothingIsLost
<1>5. MarkOK' /\ FoundOK' /\ NoMarkerAsInput'
  BY <1>1, SameMarks, SameFed
<1> QED BY <1>3, <1>4, <1>5 DEF TerminalsIInv

\* hub_terminal_send and hub_terminal_read, for any number of sends, over every
\* interleaving with the user's typing, the shell, the screen and the tick: what an instance
\* sends is applied in its order and at most once, a tracked command never reads another
\* one's marker, and the exit code that a read reports is that of the last command whose
\* end its sender could see.
THEOREM TerminalsAreTruthful == TerminalsSpec => []TerminalsInv
<1>1. TerminalsInit => TerminalsIInv
  BY TerminalsStart
<1>2. TerminalsIInv /\ [TerminalsNext]_terminalsVars => TerminalsIInv'
  <2> SUFFICES ASSUME TerminalsIInv, [TerminalsNext]_terminalsVars PROVE TerminalsIInv'
    OBVIOUS
  <2>1. CASE Look
    BY <2>1, LookStep
  <2>2. CASE SetMark
    BY <2>2, SetMarkStep
  <2>3. CASE Post
    BY <2>3, PostStep
  <2>4. CASE Reply \/ SendTimesOut \/ Stray
    BY <2>4, AnswerStep
  <2>5. CASE Tick
    BY <2>5, TerminalTick
  <2>6. CASE UserTypes
    BY <2>6, UserTypesStep
  <2>7. CASE ReadLine
    BY <2>7, ReadLineStep
  <2>8. CASE Feed
    BY <2>8, FeedStep
  <2>9. CASE FinishRun
    BY <2>9, FinishRunStep
  <2>10. CASE Scroll
    BY <2>10, ScrollStep
  <2>11. CASE ReadBack
    BY <2>11, ReadBackStep
  <2>12. CASE UNCHANGED terminalsVars
    BY <2>12, TerminalsIdle
  <2> QED BY <2>1, <2>2, <2>3, <2>4, <2>5, <2>6, <2>7, <2>8, <2>9, <2>10, <2>11, <2>12
          DEF TerminalsNext, Send, Shell
<1>3. TerminalsIInv => TerminalsInv
  <2> SUFFICES ASSUME TerminalsIInv PROVE TerminalsInv
    OBVIOUS
  <2>1. TerminalsTypeOK
    BY DEF TerminalsIInv, TermTyped, OrderOK, MarkOK, TerminalsTypeOK
  <2> QED BY <2>1 DEF TerminalsIInv, OrderOK, FoundOK, TerminalsInv
<1> QED BY <1>1, <1>2, <1>3, PTL DEF TerminalsSpec

-----------------------------------------------------------------------------
(* The transcript of a terminal.                                            *)

Lines == 1..MaxLines
Frame == [n : Nat, text : Seq(Lines)]
ReadStep == [at : {"idle", "before", "raw", "after", "view"}, full : BOOLEAN, wait : BOOLEAN, try : Nat,
             base : Nat, raw : Seq(Lines), moved : BOOLEAN]

Items(s) == {s[i] : i \in 1..Len(s)}
Ordered(s) == \A i, j \in 1..Len(s) : i < j => s[i] < s[j]
Before(S, T) == \A x \in S, y \in T : x < y

RecorderTyped ==
    /\ screen \in Seq(Lines) /\ hist \in Seq(Lines) /\ data \in Seq(Lines)
    /\ height \in 1..MaxRows /\ Len(screen) <= height /\ next \in 1..(MaxLines + 1)
    /\ head \in Nat /\ base \in Nat
    /\ trim \in {"no", "move", "cut", "head"}
    /\ alt \in BOOLEAN /\ ended \in BOOLEAN
    /\ frames \in Seq(Frame)

\* Every line printed is in the log, on the screen or erased, in its order, and once.
LinesOK ==
    /\ Ordered(hist) /\ Ordered(screen) /\ Before(Items(hist), Items(screen))
    /\ Items(hist) \cup Items(screen) \cup erased = 1..(next - 1)
    /\ (Items(hist) \cup Items(screen)) \cap erased = {}

\* The first n lines of the log file are those of the history from its base on.
Mirrors(d, from, n) == n <= Len(d) /\ from + n <= Len(hist) /\ \A i \in 1..n : d[i] = hist[from + i]

LogOK ==
    /\ head <= base /\ base <= Len(hist)
    /\ head + Len(data) <= Len(hist)
    /\ Len(data) <= MaxLog + MaxRows + 1
    /\ trim = "no" => Len(data) <= MaxLog
    /\ trim = "move" => Len(data) > MaxLog
    /\ trim \in {"no", "move"} =>
          head = base /\ base + Len(data) = Len(hist) /\ Mirrors(data, base, Len(data))
    /\ trim \in {"cut", "head"} => base + KeepLog = Len(hist) /\ Mirrors(data, base, KeepLog)
    /\ trim = "head" => Len(data) = KeepLog

\* Where in the history a read's window may begin.
Origin(p, h) ==
    /\ p.base <= h /\ h <= head /\ Mirrors(p.raw, h, Len(p.raw))
    /\ p.at = "view" => h = p.base

\* A read in progress, by a reader whose cursor is c.
StepFine(p, c) ==
    /\ p \in ReadStep
    /\ c \in Nat /\ c <= Len(hist)
    /\ p.at \in {"raw", "after", "view"} => p.base <= head
    /\ p.at \in {"after", "view"} => p.base + Len(p.raw) <= Len(hist)
    /\ p.at \in {"after", "view"} /\ ~p.moved => \E h \in Nat : Origin(p, h) /\ c <= h + Len(p.raw)

\* A window that was given is a piece of the history.
GaveFine(g) ==
    /\ g.from \in Nat /\ g.to \in Nat /\ g.from <= g.to /\ g.to <= Len(hist)
    /\ g.text \in Seq(Lines) /\ Len(g.text) = g.to - g.from
    /\ \A i \in 1..(g.to - g.from) : g.text[i] = hist[g.from + i]

ReaderFine(r) == StepFine(rd[r], cursor[r].at) /\ (r \notin torn => GaveFine(gave[r]))

ReadersOK ==
    /\ DOMAIN rd = Readers /\ DOMAIN cursor = Readers /\ DOMAIN gave = Readers
    /\ \A r \in Readers : ReaderFine(r)

TranscriptIInv == RecorderTyped /\ LinesOK /\ LogOK /\ ReadersOK

-----------------------------------------------------------------------------
(* Sequences as the items they hold                                        *)

LEMMA ItemsOfConcat ==
    ASSUME NEW T, NEW s \in Seq(T), NEW t \in Seq(T)
    PROVE  /\ s \o t \in Seq(T) /\ Items(s \o t) = Items(s) \cup Items(t)
           /\ Len(s \o t) = Len(s) + Len(t) /\ \A i \in 1..Len(s) : (s \o t)[i] = s[i]
<1>1. /\ s \o t \in Seq(T) /\ Len(s \o t) = Len(s) + Len(t) /\ Len(s) \in Nat /\ Len(t) \in Nat
      /\ \A i \in 1..Len(s) : (s \o t)[i] = s[i]
      /\ \A i \in (Len(s) + 1)..(Len(s) + Len(t)) : (s \o t)[i] = t[i - Len(s)]
  BY ConcatProperties, LenProperties
<1>2. \A x \in Items(s) : x \in Items(s \o t)
  <2> SUFFICES ASSUME NEW i \in 1..Len(s) PROVE s[i] \in Items(s \o t)
    BY DEF Items
  <2>1. i \in 1..Len(s \o t) /\ (s \o t)[i] = s[i]
    BY <1>1
  <2> QED BY <2>1 DEF Items
<1>3. \A x \in Items(t) : x \in Items(s \o t)
  <2> SUFFICES ASSUME NEW i \in 1..Len(t) PROVE t[i] \in Items(s \o t)
    BY DEF Items
  <2>1. i + Len(s) \in 1..Len(s \o t) /\ (s \o t)[i + Len(s)] = t[i]
    BY <1>1
  <2> QED BY <2>1 DEF Items
<1>4. \A x \in Items(s \o t) : x \in Items(s) \cup Items(t)
  <2> SUFFICES ASSUME NEW i \in 1..Len(s \o t) PROVE (s \o t)[i] \in Items(s) \cup Items(t)
    BY DEF Items
  <2>1. CASE i \in 1..Len(s)
    BY <1>1, <2>1 DEF Items
  <2>2. CASE i \notin 1..Len(s)
    <3>1. i - Len(s) \in 1..Len(t) /\ (s \o t)[i] = t[i - Len(s)]
      BY <1>1, <2>2
    <3> QED BY <3>1 DEF Items
  <2> QED BY <2>1, <2>2
<1> QED BY <1>1, <1>2, <1>3, <1>4

LEMMA OrderedConcat ==
    ASSUME NEW T \in SUBSET Nat, NEW s \in Seq(T), NEW t \in Seq(T),
           Ordered(s), Ordered(t), Before(Items(s), Items(t))
    PROVE  Ordered(s \o t)
<1>1. /\ Len(s \o t) = Len(s) + Len(t) /\ Len(s) \in Nat /\ Len(t) \in Nat
      /\ \A i \in 1..Len(s) : (s \o t)[i] = s[i]
      /\ \A i \in (Len(s) + 1)..(Len(s) + Len(t)) : (s \o t)[i] = t[i - Len(s)]
  BY ConcatProperties, LenProperties
<1> SUFFICES ASSUME NEW i \in 1..Len(s \o t), NEW j \in 1..Len(s \o t), i < j PROVE (s \o t)[i] < (s \o t)[j]
  BY DEF Ordered
<1>2. CASE i \in 1..Len(s)
  <2>1. CASE j \in 1..Len(s)
    BY <1>1, <1>2, <2>1 DEF Ordered
  <2>2. CASE j \notin 1..Len(s)
    <3>1. j - Len(s) \in 1..Len(t) /\ (s \o t)[j] = t[j - Len(s)]
      BY <1>1, <2>2
    <3>2. s[i] \in Items(s) /\ t[j - Len(s)] \in Items(t)
      BY <1>2, <3>1 DEF Items
    <3> QED BY <1>1, <1>2, <3>1, <3>2 DEF Before
  <2> QED BY <2>1, <2>2
<1>3. CASE i \notin 1..Len(s)
  <2>1. /\ i - Len(s) \in 1..Len(t) /\ (s \o t)[i] = t[i - Len(s)]
        /\ j - Len(s) \in 1..Len(t) /\ (s \o t)[j] = t[j - Len(s)]
        /\ i - Len(s) < j - Len(s)
    BY <1>1, <1>3
  <2> QED BY <2>1 DEF Ordered
<1> QED BY <1>2, <1>3

\* A sequence taken apart at n.
LEMMA OrderedSplit ==
    ASSUME NEW T \in SUBSET Nat, NEW s \in Seq(T), NEW n \in 0..Len(s), Ordered(s)
    PROVE  LET a == SubSeq(s, 1, n)
               b == SubSeq(s, n + 1, Len(s))
           IN  /\ a \in Seq(T) /\ b \in Seq(T) /\ Len(a) = n /\ Len(b) = Len(s) - n
               /\ Ordered(a) /\ Ordered(b) /\ Before(Items(a), Items(b))
               /\ Items(a) \cup Items(b) = Items(s) /\ Items(a) \cap Items(b) = {}
<1>0. Len(s) \in Nat /\ \A i \in 1..Len(s) : s[i] \in T
  BY LenProperties, ElementOfSeq
<1> DEFINE a == SubSeq(s, 1, n)
           b == SubSeq(s, n + 1, Len(s))
<1>1. a \in Seq(T) /\ Len(a) = n /\ \A i \in 1..n : a[i] = s[i] /\ i \in 1..Len(s)
  BY <1>0, SubSeqProperties
<1>2. b \in Seq(T) /\ Len(b) = Len(s) - n /\ \A i \in 1..(Len(s) - n) : b[i] = s[n + i] /\ n + i \in 1..Len(s)
  BY <1>0, SubSeqProperties
<1> HIDE DEF a, b
<1>3. Ordered(a)
  BY <1>1 DEF Ordered
<1>4. Ordered(b)
  <2> SUFFICES ASSUME NEW i \in 1..Len(b), NEW j \in 1..Len(b), i < j PROVE b[i] < b[j]
    BY DEF Ordered
  <2>1. n + i < n + j
    BY <1>0
  <2> QED BY <1>2, <2>1 DEF Ordered
<1>5. Before(Items(a), Items(b))
  <2> SUFFICES ASSUME NEW i \in 1..n, NEW j \in 1..(Len(s) - n) PROVE a[i] < b[j]
    BY <1>1, <1>2 DEF Before, Items
  <2>1. i < n + j
    BY <1>0
  <2> QED BY <1>1, <1>2, <2>1 DEF Ordered
<1>6. Items(a) \cup Items(b) = Items(s)
  <2>1. \A x \in Items(a) \cup Items(b) : x \in Items(s)
    <3>1. \A i \in 1..Len(a) : a[i] \in Items(s)
      BY <1>1 DEF Items
    <3>2. \A i \in 1..Len(b) : b[i] \in Items(s)
      BY <1>2 DEF Items
    <3> QED BY <3>1, <3>2 DEF Items
  <2>2. ASSUME NEW i \in 1..Len(s) PROVE s[i] \in Items(a) \cup Items(b)
    <3>1. CASE i \in 1..n
      BY <1>1, <3>1 DEF Items
    <3>2. CASE i \notin 1..n
      <4>1. i - n \in 1..(Len(s) - n) /\ n + (i - n) = i
        BY <1>0, <3>2
      <4>2. b[i - n] = s[i]
        BY <1>2, <4>1
      <4> QED BY <1>2, <4>1, <4>2 DEF Items
    <3> QED BY <3>1, <3>2
  <2> QED BY <2>1, <2>2 DEF Items
<1>7. Items(a) \cap Items(b) = {}
  <2>1. Items(a) \subseteq Nat
    BY <1>0, <1>1 DEF Items
  <2> QED BY <1>5, <2>1 DEF Before
<1> QED BY <1>1, <1>2, <1>3, <1>4, <1>5, <1>6, <1>7 DEF a, b

LEMMA OneItem ==
    ASSUME NEW T, NEW x \in T
    PROVE  <<x>> \in Seq(T) /\ Len(<<x>>) = 1 /\ Items(<<x>>) = {x} /\ Ordered(<<x>>)
BY DEF Items, Ordered

LEMMA NoItem == Items(<<>>) = {} /\ Ordered(<<>>) /\ Len(<<>>) = 0
BY EmptySeq DEF Items, Ordered

-----------------------------------------------------------------------------
(* What a step of the recorder leaves to the readers                       *)

\* The history only grows, and the header only moves on.
Extends ==
    /\ hist' \in Seq(Lines) /\ Len(hist) <= Len(hist') /\ \A i \in 1..Len(hist) : hist'[i] = hist[i]
    /\ head' \in Nat /\ head <= head'

LEMMA MirrorsKept ==
    ASSUME NEW d, NEW from \in Nat, NEW n \in Nat, hist \in Seq(Lines), Extends, Mirrors(d, from, n)
    PROVE  Mirrors(d, from, n)'
<1>1. Len(hist) \in Nat /\ Len(hist') \in Nat
  BY LenProperties DEF Extends
<1>2. \A i \in 1..n : from + i \in 1..Len(hist)
  BY <1>1 DEF Mirrors
<1> QED BY <1>1, <1>2 DEF Mirrors, Extends

LEMMA StepKept ==
    ASSUME NEW p, NEW c, hist \in Seq(Lines), head \in Nat, Extends, StepFine(p, c)
    PROVE  StepFine(p, c)'
<1>1. Len(hist) \in Nat /\ Len(hist') \in Nat /\ p \in ReadStep /\ c \in Nat
  BY LenProperties DEF Extends, StepFine
<1>2. p.base \in Nat /\ Len(p.raw) \in Nat /\ p.raw \in Seq(Lines)
  BY <1>1, LenProperties DEF ReadStep
<1>3. c <= Len(hist') /\ (p.at \in {"raw", "after", "view"} => p.base <= head')
      /\ (p.at \in {"after", "view"} => p.base + Len(p.raw) <= Len(hist'))
  BY <1>1, <1>2 DEF StepFine, Extends
<1>4. ASSUME p.at \in {"after", "view"}, ~p.moved
      PROVE  \E h \in Nat : Origin(p, h)' /\ c <= h + Len(p.raw)
  <2>1. PICK h \in Nat : Origin(p, h) /\ c <= h + Len(p.raw)
    BY <1>4 DEF StepFine
  <2>2. Mirrors(p.raw, h, Len(p.raw))'
    BY <1>2, <2>1, MirrorsKept DEF Origin
  <2>3. h <= head'
    BY <2>1 DEF Origin, Extends
  <2> QED BY <2>1, <2>2, <2>3 DEF Origin
<1> QED BY <1>1, <1>3, <1>4 DEF StepFine

LEMMA GaveKept ==
    ASSUME NEW g, hist \in Seq(Lines), Extends, GaveFine(g) PROVE GaveFine(g)'
<1>1. Len(hist) \in Nat /\ Len(hist') \in Nat
  BY LenProperties DEF Extends
<1>2. \A i \in 1..(g.to - g.from) : g.from + i \in 1..Len(hist)
  BY <1>1 DEF GaveFine
<1>3. \A i \in 1..(g.to - g.from) : g.text[i] = hist'[g.from + i]
  BY <1>2 DEF GaveFine, Extends
<1>4. g.to <= Len(hist')
  BY <1>1 DEF GaveFine, Extends
<1> QED BY <1>3, <1>4 DEF GaveFine

LEMMA ReadersKept ==
    ASSUME TranscriptIInv, Extends, UNCHANGED readerVars PROVE ReadersOK'
<1>1. hist \in Seq(Lines) /\ head \in Nat
  BY DEF TranscriptIInv, RecorderTyped
<1>2. UNCHANGED <<rd, cursor, gave, torn>>
  BY DEF readerVars
<1>3. ASSUME NEW r \in Readers PROVE ReaderFine(r)'
  <2>1. PICK p : p = rd[r]
    OBVIOUS
  <2>2. PICK c : c = cursor[r].at
    OBVIOUS
  <2>3. PICK g : g = gave[r]
    OBVIOUS
  <2>4. StepFine(p, c) /\ (r \notin torn => GaveFine(g))
    BY <2>1, <2>2, <2>3 DEF TranscriptIInv, ReadersOK, ReaderFine
  <2>5. StepFine(p, c)' /\ (r \notin torn => GaveFine(g)')
    BY <1>1, <2>4, StepKept, GaveKept
  <2>6. p = rd'[r] /\ c = cursor'[r].at /\ g = gave'[r] /\ torn' = torn
    BY <1>2, <2>1, <2>2, <2>3
  <2> QED BY <2>5, <2>6 DEF ReaderFine
<1> QED BY <1>2, <1>3 DEF TranscriptIInv, ReadersOK

\* Lines that end the log, and nothing is trimmed yet.
LEMMA AppendKeeps ==
    ASSUME TranscriptIInv, trim = "no", NEW lines \in Seq(Lines), Len(lines) <= MaxRows + 1, Append2Log(lines)
    PROVE  /\ hist' \in Seq(Lines) /\ data' \in Seq(Lines) /\ trim' \in {"no", "move"}
           /\ UNCHANGED <<base, head>> /\ LogOK' /\ Extends
           /\ Items(hist') = Items(hist) \cup Items(lines)
           /\ (Ordered(lines) /\ Before(Items(hist), Items(lines)) => Ordered(hist'))
<1>1. /\ hist' = hist \o lines /\ data' = data \o lines
      /\ trim' = IF Len(data') > MaxLog THEN "move" ELSE "no"
      /\ UNCHANGED <<base, head>>
  BY DEF Append2Log
<1>2. /\ hist \in Seq(Lines) /\ data \in Seq(Lines) /\ base \in Nat /\ head \in Nat
      /\ Len(hist) \in Nat /\ Len(data) \in Nat /\ Len(lines) \in Nat
  BY LenProperties DEF TranscriptIInv, RecorderTyped
<1>3. /\ hist' \in Seq(Lines) /\ Len(hist') = Len(hist) + Len(lines)
      /\ \A i \in 1..Len(hist) : hist'[i] = hist[i]
      /\ \A i \in (Len(hist) + 1)..(Len(hist) + Len(lines)) : hist'[i] = lines[i - Len(hist)]
  BY <1>1, <1>2, ConcatProperties
<1>4. /\ data' \in Seq(Lines) /\ Len(data') = Len(data) + Len(lines)
      /\ \A i \in 1..Len(data) : data'[i] = data[i]
      /\ \A i \in (Len(data) + 1)..(Len(data) + Len(lines)) : data'[i] = lines[i - Len(data)]
  BY <1>1, <1>2, ConcatProperties
<1>5. Items(hist') = Items(hist) \cup Items(lines)
  BY <1>1, <1>2, ItemsOfConcat
<1>6. Ordered(lines) /\ Before(Items(hist), Items(lines)) => Ordered(hist')
  <2>1. Lines \in SUBSET Nat
    BY TranscriptAssumption DEF Lines
  <2>2. Ordered(hist)
    BY DEF TranscriptIInv, LinesOK
  <2> SUFFICES ASSUME Ordered(lines), Before(Items(hist), Items(lines)) PROVE Ordered(hist \o lines)
    BY <1>1
  <2> QED BY <1>2, <2>1, <2>2, OrderedConcat
<1>7. Extends
  BY <1>1, <1>2, <1>3 DEF Extends
<1>8. /\ head = base /\ base + Len(data) = Len(hist) /\ Len(data) <= MaxLog
      /\ \A i \in 1..Len(data) : data[i] = hist[base + i]
  BY DEF TranscriptIInv, LogOK, Mirrors
<1>9. \A i \in 1..Len(data') : data'[i] = hist'[base + i]
  <2> SUFFICES ASSUME NEW i \in 1..Len(data') PROVE data'[i] = hist'[base + i]
    OBVIOUS
  <2>1. CASE i \in 1..Len(data)
    <3>1. base + i \in 1..Len(hist)
      BY <1>2, <1>8, <2>1
    <3> QED BY <1>3, <1>4, <1>8, <2>1, <3>1
  <2>2. CASE i \notin 1..Len(data)
    <3>1. /\ i \in (Len(data) + 1)..(Len(data) + Len(lines))
          /\ base + i \in (Len(hist) + 1)..(Len(hist) + Len(lines))
          /\ (base + i) - Len(hist) = i - Len(data)
      <4>1. PICK dl \in Nat, hl \in Nat, ll \in Nat : dl = Len(data) /\ hl = Len(hist) /\ ll = Len(lines)
        BY <1>2
      <4>2. base \in Nat /\ base + dl = hl /\ i \in 1..(dl + ll) /\ i \notin 1..dl
        BY <1>2, <1>4, <1>8, <2>2, <4>1
      <4>3. i \in (dl + 1)..(dl + ll) /\ base + i \in (hl + 1)..(hl + ll) /\ (base + i) - hl = i - dl
        BY <4>2
      <4> QED BY <4>1, <4>3
    <3>2. data'[i] = lines[i - Len(data)]
      BY <1>4, <3>1
    <3>3. hist'[base + i] = lines[(base + i) - Len(hist)]
      <4> DEFINE k == base + i
      <4>1. k \in (Len(hist) + 1)..(Len(hist) + Len(lines))
        BY <3>1
      <4> HIDE DEF k
      <4>2. hist'[k] = lines[k - Len(hist)]
        BY <1>3, <4>1
      <4> QED BY <4>2 DEF k
    <3> QED BY <3>1, <3>2, <3>3
  <2> QED BY <2>1, <2>2
<1>10. LogOK'
  <2>1. MaxLog \in Nat /\ MaxRows \in Nat
    BY TranscriptAssumption
  <2>2. Mirrors(data, base, Len(data))'
    BY <1>1, <1>2, <1>3, <1>4, <1>8, <1>9 DEF Mirrors
  <2>3. base' <= Len(hist') /\ head' + Len(data') <= Len(hist') /\ base' + Len(data') = Len(hist')
    <3>1. base' = base /\ head' = base
      BY <1>1, <1>8
    <3>2. PICK dl \in Nat, hl \in Nat, ll \in Nat : dl = Len(data) /\ hl = Len(hist) /\ ll = Len(lines)
      BY <1>2
    <3>3. Len(hist') = hl + ll /\ Len(data') = dl + ll /\ base + dl = hl /\ base \in Nat
      BY <1>2, <1>3, <1>4, <1>8, <3>2
    <3>4. base <= hl + ll /\ base + (dl + ll) <= hl + ll /\ base + (dl + ll) = hl + ll
      BY <3>3
    <3> QED BY <3>1, <3>3, <3>4
  <2>4. Len(data') <= MaxLog + MaxRows + 1
    BY <1>2, <1>4, <1>8, <2>1
  <2>5. trim' = "no" => Len(data') <= MaxLog
    BY <1>1, <1>2, <1>4, <2>1
  <2>6. trim' = "move" => Len(data') > MaxLog
    BY <1>1
  <2> QED BY <1>1, <1>2, <1>8, <2>2, <2>3, <2>4, <2>5, <2>6 DEF LogOK
<1> QED BY <1>1, <1>3, <1>4, <1>5, <1>6, <1>7, <1>10

\* A step that logs nothing.
LEMMA NoLogKeeps ==
    ASSUME TranscriptIInv, NoLog PROVE LogOK' /\ Extends
<1>1. UNCHANGED <<hist, data, base, head, trim>>
  BY DEF NoLog
<1>2. LogOK'
  BY <1>1 DEF TranscriptIInv, LogOK, Mirrors
<1>3. Extends
  <2>1. hist \in Seq(Lines) /\ Len(hist) \in Nat /\ head \in Nat
    BY LenProperties DEF TranscriptIInv, RecorderTyped
  <2> QED BY <1>1, <2>1 DEF Extends
<1> QED BY <1>2, <1>3

-----------------------------------------------------------------------------
(* The recorder                                                            *)

LEMMA HeadApart ==
    ASSUME NEW T \in SUBSET Nat, NEW s \in Seq(T), s # <<>>, Ordered(s)
    PROVE  /\ Head(s) \in T /\ Tail(s) \in Seq(T) /\ Len(Tail(s)) = Len(s) - 1 /\ Ordered(Tail(s))
           /\ Items(s) = {Head(s)} \cup Items(Tail(s))
           /\ \A y \in Items(Tail(s)) : Head(s) < y
<1>0. Len(s) \in Nat \ {0} /\ \A i \in 1..Len(s) : s[i] \in T
  <2>1. Len(s) \in Nat /\ Len(s) # 0
    BY LenProperties, EmptySeq
  <2> QED BY <2>1, ElementOfSeq
<1>1. Head(s) = s[1] /\ 1 \in 1..Len(s)
  BY <1>0
<1>2. /\ Tail(s) \in Seq(T) /\ Len(Tail(s)) = Len(s) - 1
      /\ \A i \in 1..Len(Tail(s)) : Tail(s)[i] = s[i + 1] /\ i + 1 \in 1..Len(s) /\ 1 < i + 1
  BY <1>0, HeadTailProperties
<1>3. Ordered(Tail(s))
  <2>1. \A i, j \in 1..Len(Tail(s)) : i < j => i + 1 < j + 1
    BY <1>0, <1>2
  <2> QED BY <1>2, <2>1 DEF Ordered
<1>4. Items(s) = {Head(s)} \cup Items(Tail(s))
  <2>1. \A x \in Items(Tail(s)) : x \in Items(s)
    BY <1>2 DEF Items
  <2>2. Head(s) \in Items(s)
    BY <1>1 DEF Items
  <2>3. ASSUME NEW i \in 1..Len(s), i # 1 PROVE s[i] \in Items(Tail(s))
    <3>1. i - 1 \in 1..Len(Tail(s)) /\ (i - 1) + 1 = i
      BY <1>0, <1>2, <2>3
    <3>2. Tail(s)[i - 1] = s[i]
      BY <1>2, <3>1
    <3> QED BY <3>1, <3>2 DEF Items
  <2>4. \A x \in Items(s) : x \in {Head(s)} \cup Items(Tail(s))
    BY <1>1, <2>3 DEF Items
  <2> QED BY <2>1, <2>2, <2>4
<1>5. \A y \in Items(Tail(s)) : Head(s) < y
  BY <1>1, <1>2 DEF Items, Ordered
<1> QED BY <1>0, <1>1, <1>2, <1>3, <1>4, <1>5

LEMMA LastApart ==
    ASSUME NEW T \in SUBSET Nat, NEW s \in Seq(T), s # <<>>, Ordered(s)
    PROVE  /\ Last(s) \in T /\ Front(s) \in Seq(T) /\ Len(Front(s)) = Len(s) - 1 /\ Ordered(Front(s))
           /\ Items(s) = Items(Front(s)) \cup {Last(s)} /\ Last(s) \notin Items(Front(s))
<1>0. Len(s) \in Nat \ {0} /\ \A i \in 1..Len(s) : s[i] \in T
  <2>1. Len(s) \in Nat /\ Len(s) # 0
    BY LenProperties, EmptySeq
  <2> QED BY <2>1, ElementOfSeq
<1> DEFINE n == Len(s) - 1
           b == SubSeq(s, n + 1, Len(s))
<1>1. n \in 0..Len(s) /\ n + 1 = Len(s) /\ Front(s) = SubSeq(s, 1, n) /\ Last(s) = s[Len(s)]
  BY <1>0 DEF Front, Last
<1>2. /\ Front(s) \in Seq(T) /\ Len(Front(s)) = n /\ Ordered(Front(s))
      /\ Items(Front(s)) \cup Items(b) = Items(s) /\ Items(Front(s)) \cap Items(b) = {}
  BY <1>1, OrderedSplit
<1>3. Len(b) = 1 /\ b[1] = s[Len(s)]
  BY <1>0, <1>1, SubSeqProperties
<1>4. Items(b) = {Last(s)}
  <2> HIDE DEF b, n
  <2> QED BY <1>1, <1>3 DEF Items
<1> QED BY <1>0, <1>1, <1>2, <1>4

LEMMA ToSetIsItems ==
    ASSUME NEW T, NEW s \in Seq(T) PROVE ToSet(s) = Items(s)
<1>1. DOMAIN s = 1..Len(s)
  BY LenProperties
<1> QED BY <1>1 DEF ToSet, Items

\* The numbers of what was printed; the next one is new.
LEMMA NextIsNew ==
    ASSUME TranscriptIInv
    PROVE  /\ next \in Nat /\ 1..next = (1..(next - 1)) \cup {next} /\ (next + 1) - 1 = next
           /\ Items(hist) \subseteq 1..(next - 1) /\ Items(screen) \subseteq 1..(next - 1) /\ erased \subseteq 1..(next - 1)
           /\ \A x \in 1..(next - 1) : x < next /\ x \in Nat
           /\ (next <= MaxLines => next \in Lines /\ next + 1 \in 1..(MaxLines + 1))
           /\ Lines \in SUBSET Nat
<1>1. MaxLines \in Nat
  BY TranscriptAssumption
<1>2. next \in 1..(MaxLines + 1)
  BY DEF TranscriptIInv, RecorderTyped
<1>3. Items(hist) \cup Items(screen) \cup erased = 1..(next - 1)
  BY DEF TranscriptIInv, LinesOK
<1> QED BY <1>1, <1>2, <1>3 DEF Lines

LEMMA PrintLineStep ==
    ASSUME TranscriptIInv, PrintLine PROVE TranscriptIInv'
<1>0. /\ screen \in Seq(Lines) /\ Len(screen) \in Nat /\ Len(screen) <= height /\ height \in 1..MaxRows
      /\ hist \in Seq(Lines)
  BY LenProperties DEF TranscriptIInv, RecorderTyped
<1>1. /\ ended = FALSE /\ trim = "no" /\ next <= MaxLines /\ next' = next + 1
      /\ UNCHANGED <<height, alt, ended, shot, frames, readerVars>>
  BY DEF PrintLine, Free, TranscriptIInv, RecorderTyped
<1>2. /\ next \in Nat /\ 1..next = (1..(next - 1)) \cup {next} /\ (next + 1) - 1 = next
      /\ Items(hist) \subseteq 1..(next - 1) /\ Items(screen) \subseteq 1..(next - 1) /\ erased \subseteq 1..(next - 1)
      /\ \A x \in 1..(next - 1) : x < next /\ x \in Nat
      /\ next \in Lines /\ next + 1 \in 1..(MaxLines + 1)
      /\ Lines \in SUBSET Nat
  BY <1>1, NextIsNew
<1>one. PICK one : one = <<next>>
  OBVIOUS
<1>3. one \in Seq(Lines) /\ Len(one) = 1 /\ Items(one) = {next} /\ Ordered(one)
  BY <1>one, <1>2, OneItem
<1>4. /\ Ordered(hist) /\ Ordered(screen) /\ Before(Items(hist), Items(screen))
      /\ Items(hist) \cup Items(screen) \cup erased = 1..(next - 1)
      /\ (Items(hist) \cup Items(screen)) \cap erased = {}
  BY DEF TranscriptIInv, LinesOK
<1>5. CASE Len(screen) < height
  <2>1. screen' = screen \o one /\ NoLog /\ UNCHANGED erased
    BY <1>one, <1>5 DEF PrintLine
  <2>2. LogOK' /\ Extends /\ UNCHANGED <<hist, data, base, head, trim>>
    BY <2>1, NoLogKeeps DEF NoLog
  <2>3. screen' \in Seq(Lines) /\ Items(screen') = Items(screen) \cup {next} /\ Len(screen') = Len(screen) + 1
    <3>1. /\ screen \o one \in Seq(Lines) /\ Items(screen \o one) = Items(screen) \cup Items(one)
          /\ Len(screen \o one) = Len(screen) + Len(one)
      BY ZenonT(30), <1>0, <1>3, ItemsOfConcat
    <3> QED BY <1>3, <2>1, <3>1
  <2>4. Ordered(screen')
    <3>1. Before(Items(screen), Items(one))
      BY <1>2, <1>3 DEF Before
    <3> QED BY <1>0, <1>2, <1>3, <1>4, <2>1, <3>1, OrderedConcat
  <2>5. LinesOK'
    <3>1. Before(Items(hist), Items(screen'))
      BY <1>2, <1>4, <2>3 DEF Before
    <3>2. next \notin erased
      BY <1>2
    <3>3. Items(hist) \cup Items(screen') \cup erased = 1..next
      BY <1>2, <1>4, <2>3
    <3>4. (Items(hist) \cup Items(screen')) \cap erased = {}
      BY <1>4, <2>3, <3>2
    <3> QED BY <1>1, <1>2, <1>4, <2>1, <2>2, <2>4, <3>1, <3>3, <3>4 DEF LinesOK
  <2>6. RecorderTyped'
    BY <1>0, <1>1, <1>2, <1>5, <2>2, <2>3 DEF TranscriptIInv, RecorderTyped
  <2>7. ReadersOK'
    BY <1>1, <2>2, ReadersKept
  <2> QED BY <2>2, <2>5, <2>6, <2>7 DEF TranscriptIInv
<1>6. CASE ~(Len(screen) < height)
  <2>1. /\ screen' = Tail(screen) \o one
        /\ IF alt THEN Lost(<<Head(screen)>>) /\ NoLog ELSE Append2Log(<<Head(screen)>>) /\ UNCHANGED erased
    BY <1>one, <1>6 DEF PrintLine
  <2>2. screen # <<>>
    BY <1>0, <1>6, EmptySeq
  <2>3. /\ Head(screen) \in Lines /\ Tail(screen) \in Seq(Lines) /\ Len(Tail(screen)) = Len(screen) - 1 /\ Ordered(Tail(screen))
        /\ Items(screen) = {Head(screen)} \cup Items(Tail(screen))
        /\ \A y \in Items(Tail(screen)) : Head(screen) < y
    BY <1>0, <1>2, <1>4, <2>2, HeadApart
  <2>4. screen' \in Seq(Lines) /\ Items(screen') = Items(Tail(screen)) \cup {next} /\ Len(screen') = Len(screen)
    <3>1. screen' \in Seq(Lines) /\ Items(screen') = Items(Tail(screen)) \cup {next} /\ Len(screen') = Len(Tail(screen)) + 1
      <4>1. /\ Tail(screen) \o one \in Seq(Lines)
            /\ Items(Tail(screen) \o one) = Items(Tail(screen)) \cup Items(one)
            /\ Len(Tail(screen) \o one) = Len(Tail(screen)) + Len(one)
        <5>1. PICK rest : rest = Tail(screen)
          OBVIOUS
        <5>2. rest \in Seq(Lines) /\ one \in Seq(Lines)
          BY <1>3, <2>3, <5>1
        <5>3. rest \o one \in Seq(Lines) /\ Items(rest \o one) = Items(rest) \cup Items(one) /\ Len(rest \o one) = Len(rest) + Len(one)
          BY <5>2, ItemsOfConcat
        <5> QED BY <5>1, <5>3
      <4> QED BY <1>3, <2>1, <4>1
    <3> QED BY <1>0, <2>3, <3>1
  <2>5. Ordered(screen')
    <3>1. Before(Items(Tail(screen)), Items(one))
      BY <1>2, <1>3, <2>3 DEF Before
    <3> QED BY <1>2, <1>3, <2>1, <2>3, <3>1, OrderedConcat
  <2>6. <<Head(screen)>> \in Seq(Lines) /\ Len(<<Head(screen)>>) = 1 /\ Items(<<Head(screen)>>) = {Head(screen)} /\ Ordered(<<Head(screen)>>)
    BY <2>3, OneItem
  <2>7. Head(screen) \in Items(screen) /\ Head(screen) \in Nat /\ Head(screen) < next /\ Head(screen) \notin Items(Tail(screen))
    BY SMTT(30), <1>2, <2>3
  <2>8. CASE alt
    <3>1. NoLog /\ erased' = erased \cup {Head(screen)}
      BY <2>1, <2>6, <2>8, ToSetIsItems DEF Lost
    <3>2. LogOK' /\ Extends /\ UNCHANGED <<hist, data, base, head, trim>>
      BY <3>1, NoLogKeeps DEF NoLog
    <3>3. LinesOK'
      <4>1. Before(Items(hist), Items(screen'))
        BY <1>2, <1>4, <2>3, <2>4 DEF Before
      <4>2. Items(hist) \cup Items(screen') \cup erased' = 1..next
        BY <1>2, <1>4, <2>3, <2>4, <3>1
      <4>3. Head(screen) \notin Items(hist)
        BY <1>2, <1>4, <2>7 DEF Before
      <4>4. Head(screen) # next /\ next \notin erased
        BY <1>2, <2>7
      <4>5. (Items(hist) \cup Items(screen')) \cap erased' = {}
        BY <1>4, <2>3, <2>4, <2>7, <3>1, <4>3, <4>4
      <4> QED BY <1>1, <1>2, <1>4, <2>5, <3>2, <4>1, <4>2, <4>5 DEF LinesOK
    <3>4. RecorderTyped'
      BY <1>0, <1>1, <1>2, <2>4, <3>2 DEF TranscriptIInv, RecorderTyped
    <3>5. ReadersOK'
      BY <1>1, <3>2, ReadersKept
    <3> QED BY <3>2, <3>3, <3>4, <3>5 DEF TranscriptIInv
  <2>9. CASE ~alt
    <3>1. Append2Log(<<Head(screen)>>) /\ UNCHANGED erased
      BY <2>1, <2>9
    <3>2. 1 <= MaxRows + 1
      BY TranscriptAssumption
    <3>3. Before(Items(hist), {Head(screen)})
      BY <1>4, <2>7 DEF Before
    <3>4. /\ hist' \in Seq(Lines) /\ data' \in Seq(Lines) /\ trim' \in {"no", "move"}
          /\ UNCHANGED <<base, head>> /\ LogOK' /\ Extends
          /\ Items(hist') = Items(hist) \cup {Head(screen)} /\ Ordered(hist')
      BY <1>1, <2>6, <3>1, <3>2, <3>3, AppendKeeps
    <3>5. LinesOK'
      <4>1. Before(Items(hist'), Items(screen'))
        BY <1>2, <1>4, <2>3, <2>4, <2>7, <3>4 DEF Before
      <4>2. Items(hist') \cup Items(screen') \cup erased = 1..next
        BY <1>2, <1>4, <2>3, <2>4, <3>4
      <4>3. next \notin erased
        BY <1>2
      <4>4. (Items(hist') \cup Items(screen')) \cap erased = {}
        BY <1>4, <2>3, <2>4, <3>4, <4>3
      <4> QED BY <1>1, <1>2, <2>5, <3>1, <3>4, <4>1, <4>2, <4>4 DEF LinesOK
    <3>6. RecorderTyped'
      BY <1>0, <1>1, <1>2, <2>4, <3>4 DEF TranscriptIInv, RecorderTyped
    <3>7. ReadersOK'
      BY <1>1, <3>4, ReadersKept
    <3> QED BY <3>4, <3>5, <3>6, <3>7 DEF TranscriptIInv
  <2> QED BY <2>8, <2>9
<1> QED BY <1>5, <1>6

LEMMA RepaintStep ==
    ASSUME TranscriptIInv, Repaint PROVE TranscriptIInv'
<1>0. /\ screen \in Seq(Lines) /\ Len(screen) \in Nat \ {0} /\ Len(screen) <= height /\ height \in 1..MaxRows
      /\ hist \in Seq(Lines)
  <2>1. screen \in Seq(Lines) /\ Len(screen) <= height /\ height \in 1..MaxRows /\ hist \in Seq(Lines) /\ screen # <<>>
    BY DEF Repaint, TranscriptIInv, RecorderTyped
  <2>2. Len(screen) \in Nat /\ Len(screen) # 0
    BY <2>1, LenProperties, EmptySeq
  <2> QED BY <2>1, <2>2
<1>1. /\ next <= MaxLines /\ next' = next + 1 /\ screen # <<>> /\ NoLog
      /\ screen' = Front(screen) \o <<next>> /\ Lost(<<Last(screen)>>)
      /\ UNCHANGED <<height, alt, ended, shot, frames, readerVars>>
  BY DEF Repaint
<1>2. /\ next \in Nat /\ 1..next = (1..(next - 1)) \cup {next} /\ (next + 1) - 1 = next
      /\ Items(hist) \subseteq 1..(next - 1) /\ Items(screen) \subseteq 1..(next - 1) /\ erased \subseteq 1..(next - 1)
      /\ \A x \in 1..(next - 1) : x < next /\ x \in Nat
      /\ next \in Lines /\ next + 1 \in 1..(MaxLines + 1)
      /\ Lines \in SUBSET Nat
  BY <1>1, NextIsNew
<1>4. /\ Ordered(hist) /\ Ordered(screen) /\ Before(Items(hist), Items(screen))
      /\ Items(hist) \cup Items(screen) \cup erased = 1..(next - 1)
      /\ (Items(hist) \cup Items(screen)) \cap erased = {}
  BY DEF TranscriptIInv, LinesOK
<1>5. PICK one : one = <<next>>
  OBVIOUS
<1>6. one \in Seq(Lines) /\ Len(one) = 1 /\ Items(one) = {next} /\ Ordered(one)
  BY <1>2, <1>5, OneItem
<1>7. PICK rest, last : rest = Front(screen) /\ last = Last(screen)
  OBVIOUS
<1>8. /\ last \in Lines /\ rest \in Seq(Lines) /\ Len(rest) = Len(screen) - 1 /\ Ordered(rest)
      /\ Items(screen) = Items(rest) \cup {last} /\ last \notin Items(rest)
  BY <1>0, <1>1, <1>2, <1>4, <1>7, LastApart
<1>9. screen' = rest \o one /\ erased' = erased \cup {last}
  <2>1. <<last>> \in Seq(Lines) /\ Items(<<last>>) = {last}
    BY <1>8, OneItem
  <2> QED BY <1>1, <1>5, <1>7, <2>1, ToSetIsItems DEF Lost
<1>10. screen' \in Seq(Lines) /\ Items(screen') = Items(rest) \cup {next} /\ Len(screen') = Len(screen)
  <2>1. rest \o one \in Seq(Lines) /\ Items(rest \o one) = Items(rest) \cup Items(one) /\ Len(rest \o one) = Len(rest) + Len(one)
    <3>1. rest \in Seq(Lines) /\ one \in Seq(Lines)
      BY <1>6, <1>8
    <3> QED BY <3>1, ItemsOfConcat
  <2> QED BY <1>0, <1>6, <1>8, <1>9, <2>1
<1>11. Ordered(screen')
  <2>1. Before(Items(rest), Items(one))
    BY <1>2, <1>6, <1>8 DEF Before
  <2> QED BY <1>2, <1>6, <1>8, <1>9, <2>1, OrderedConcat
<1>12. LogOK' /\ Extends /\ UNCHANGED <<hist, data, base, head, trim>>
  BY <1>1, NoLogKeeps DEF NoLog
<1>13. LinesOK'
  <2>1. Before(Items(hist), Items(screen'))
    BY <1>2, <1>4, <1>8, <1>10 DEF Before
  <2>2. Items(hist) \cup Items(screen') \cup erased' = 1..next
    BY <1>2, <1>4, <1>8, <1>9, <1>10
  <2>3. last \notin Items(hist) /\ last # next /\ next \notin erased
    BY <1>2, <1>4, <1>8 DEF Before
  <2>4. (Items(hist) \cup Items(screen')) \cap erased' = {}
    BY <1>4, <1>8, <1>9, <1>10, <2>3
  <2> QED BY <1>1, <1>2, <1>4, <1>11, <1>12, <2>1, <2>2, <2>4 DEF LinesOK
<1>14. RecorderTyped'
  BY <1>0, <1>1, <1>2, <1>10, <1>12 DEF TranscriptIInv, RecorderTyped
<1>15. ReadersOK'
  BY <1>1, <1>12, ReadersKept
<1> QED BY <1>12, <1>13, <1>14, <1>15 DEF TranscriptIInv

\* The screen is emptied: what was visible is logged.
LEMMA Emptied ==
    ASSUME TranscriptIInv, trim = "no", Append2Log(Visible), screen' = <<>>, next' = next,
           IF alt THEN Lost(screen) ELSE UNCHANGED erased
    PROVE  /\ hist' \in Seq(Lines) /\ data' \in Seq(Lines) /\ trim' \in {"no", "move"}
           /\ UNCHANGED <<base, head>> /\ LogOK' /\ Extends /\ LinesOK'
           /\ screen' \in Seq(Lines) /\ Len(screen') = 0
<1>0. /\ screen \in Seq(Lines) /\ Len(screen) \in Nat /\ Len(screen) <= height /\ height \in 1..MaxRows
      /\ hist \in Seq(Lines) /\ MaxRows \in Nat
  BY TranscriptAssumption, LenProperties DEF TranscriptIInv, RecorderTyped
<1>1. Items(<<>>) = {} /\ Ordered(<<>>) /\ Len(<<>>) = 0 /\ <<>> \in Seq(Lines)
  BY NoItem, EmptySeq
<1>2. PICK lines : lines = Visible
  OBVIOUS
<1>3. /\ Ordered(hist) /\ Ordered(screen) /\ Before(Items(hist), Items(screen))
      /\ Items(hist) \cup Items(screen) \cup erased = 1..(next - 1)
      /\ (Items(hist) \cup Items(screen)) \cap erased = {}
  BY DEF TranscriptIInv, LinesOK
<1>4. \/ alt /\ lines = <<>> /\ erased' = erased \cup Items(screen)
      \/ ~alt /\ lines = screen /\ erased' = erased
  BY <1>0, <1>2, ToSetIsItems DEF Visible, Lost
<1>5. /\ lines \in Seq(Lines) /\ Len(lines) <= MaxRows + 1 /\ Ordered(lines) /\ Before(Items(hist), Items(lines))
  <2>1. CASE alt
    BY <1>0, <1>1, <1>4, <2>1 DEF Before
  <2>2. CASE ~alt
    BY <1>0, <1>3, <1>4, <2>2
  <2> QED BY <2>1, <2>2
<1>6. /\ hist' \in Seq(Lines) /\ data' \in Seq(Lines) /\ trim' \in {"no", "move"}
      /\ UNCHANGED <<base, head>> /\ LogOK' /\ Extends
      /\ Items(hist') = Items(hist) \cup Items(lines) /\ Ordered(hist')
  BY <1>2, <1>5, AppendKeeps
<1>7. Items(screen') = {} /\ Ordered(screen')
  BY <1>1
<1>8. Before(Items(hist'), Items(screen'))
  BY <1>7 DEF Before
<1>9. Before(Items(hist), Items(screen)) => Items(hist) \cap Items(screen) = {}
  <2>1. Items(hist) \subseteq Nat
    BY NextIsNew
  <2> QED BY <2>1 DEF Before
<1>10. LinesOK'
  <2>1. CASE alt
    <3>1. Items(hist') = Items(hist) /\ erased' = erased \cup Items(screen)
      BY <1>1, <1>4, <1>6, <2>1
    <3>2. Items(hist') \cup Items(screen') \cup erased' = 1..(next - 1)
      BY <1>3, <1>7, <3>1
    <3>3. (Items(hist') \cup Items(screen')) \cap erased' = {}
      BY <1>3, <1>7, <1>9, <3>1
    <3> QED BY <1>6, <1>7, <1>8, <3>2, <3>3 DEF LinesOK
  <2>2. CASE ~alt
    <3>1. Items(hist') = Items(hist) \cup Items(screen) /\ erased' = erased
      BY <1>4, <1>6, <2>2
    <3>2. Items(hist') \cup Items(screen') \cup erased' = 1..(next - 1)
      BY <1>3, <1>7, <3>1
    <3>3. (Items(hist') \cup Items(screen')) \cap erased' = {}
      BY <1>3, <1>7, <3>1
    <3> QED BY <1>6, <1>7, <1>8, <3>2, <3>3 DEF LinesOK
  <2> QED BY <2>1, <2>2
<1> QED BY <1>1, <1>6, <1>10

\* The frame that Framed takes is the text, and no frame is ever empty.
LEMMA FramedKeeps ==
    ASSUME frames \in Seq(Frame), NEW text \in Seq(Lines)
    PROVE  /\ Framed(text) \in Seq(Frame)
           /\ text # <<>> => Framed(text) # <<>> /\ Last(Framed(text)).text = text
<1>0. Len(frames) \in Nat /\ (Len(frames) = 0 <=> frames = <<>>)
  BY LenProperties, EmptySeq
<1>1. PICK stamp : stamp = IF frames = <<>> THEN 1 ELSE Last(frames).n + 1
  OBVIOUS
<1>2. stamp \in Nat
  <2>1. CASE frames = <<>>
    BY <1>1, <2>1
  <2>2. CASE frames # <<>>
    <3>1. Len(frames) \in 1..Len(frames)
      BY <1>0, <2>2
    <3>2. Last(frames) \in Frame
      BY <3>1, ElementOfSeq DEF Last
    <3>3. Last(frames).n \in Nat
      BY <3>2 DEF Frame
    <3> QED BY <1>1, <2>2, <3>3
  <2> QED BY <2>1, <2>2
<1>3. PICK e : e = [n |-> stamp, text |-> text]
  OBVIOUS
<1>4. e \in Frame /\ e.text = text
  BY <1>2, <1>3 DEF Frame
<1>5. PICK one : one = <<e>>
  OBVIOUS
<1>6. one \in Seq(Frame) /\ Len(one) = 1 /\ one[1] = e
  BY <1>4, <1>5
<1>7. PICK all : all = frames \o one
  OBVIOUS
<1>8. all \in Seq(Frame) /\ Len(all) = Len(frames) + 1 /\ all[Len(frames) + 1] = e
  <2>1. Len(frames) + 1 \in (Len(frames) + 1)..(Len(frames) + Len(one)) /\ (Len(frames) + 1) - Len(frames) = 1
    BY <1>0, <1>6
  <2>2. /\ frames \o one \in Seq(Frame) /\ Len(frames \o one) = Len(frames) + Len(one)
        /\ \A i \in (Len(frames) + 1)..(Len(frames) + Len(one)) : (frames \o one)[i] = one[i - Len(frames)]
    <3>1. frames \in Seq(Frame) /\ one \in Seq(Frame)
      BY <1>6
    <3> QED BY <3>1, ConcatProperties
  <2>3. all[Len(frames) + 1] = one[1]
    BY <1>7, <2>1, <2>2
  <2> QED BY <1>6, <1>7, <2>2, <2>3
<1>9. Framed(text) = IF text = <<>> \/ (frames # <<>> /\ Last(frames).text = text) THEN frames
                     ELSE IF Len(all) > MaxFrames THEN Tail(all) ELSE all
  BY <1>1, <1>3, <1>5, <1>7 DEF Framed
<1>10. CASE text = <<>> \/ (frames # <<>> /\ Last(frames).text = text)
  BY <1>9, <1>10
<1>11. CASE ~(text = <<>> \/ (frames # <<>> /\ Last(frames).text = text))
  <2>1. all # <<>> /\ Last(all) = e
    BY <1>0, <1>8, EmptySeq DEF Last
  <2>2. CASE ~(Len(all) > MaxFrames)
    BY <1>4, <1>8, <1>9, <1>11, <2>1, <2>2
  <2>3. CASE Len(all) > MaxFrames
    <3>1. Len(all) \in Nat /\ Len(all) > 1
      BY <1>0, <1>8, <2>3, TranscriptAssumption
    <3>2. PICK rest : rest = Tail(all)
      OBVIOUS
    <3>3. rest \in Seq(Frame) /\ Len(rest) = Len(all) - 1 /\ \A i \in 1..Len(rest) : rest[i] = all[i + 1]
      BY <1>8, <2>1, <3>2, HeadTailProperties
    <3>4. Len(rest) \in 1..Len(rest) /\ Len(rest) + 1 = Len(all) /\ Len(rest) # 0
      BY <3>1, <3>3
    <3>5. rest[Len(rest)] = e
      BY <2>1, <3>3, <3>4 DEF Last
    <3>6. rest # <<>> /\ Last(rest) = e
      BY <3>4, <3>5, EmptySeq DEF Last
    <3>7. Framed(text) = rest
      BY <1>9, <1>11, <2>3, <3>2
    <3> QED BY <1>4, <3>3, <3>6, <3>7
  <2> QED BY <2>2, <2>3
<1> QED BY <1>10, <1>11

LEMMA ClearStep ==
    ASSUME TranscriptIInv, Clear PROVE TranscriptIInv'
<1>1. /\ trim = "no" /\ Append2Log(Visible) /\ screen' = <<>> /\ (IF alt THEN Lost(screen) ELSE UNCHANGED erased)
      /\ UNCHANGED <<height, alt, next, ended, shot, frames, readerVars>>
  BY DEF Clear, Free
<1>2. /\ hist' \in Seq(Lines) /\ data' \in Seq(Lines) /\ trim' \in {"no", "move"}
      /\ UNCHANGED <<base, head>> /\ LogOK' /\ Extends /\ LinesOK'
      /\ screen' \in Seq(Lines) /\ Len(screen') = 0
  BY <1>1, Emptied
<1>3. RecorderTyped'
  <2>1. \A h \in 1..MaxRows : 0 <= h
    BY TranscriptAssumption
  <2> QED BY <1>1, <1>2, <2>1 DEF TranscriptIInv, RecorderTyped
<1>4. ReadersOK'
  BY <1>1, <1>2, ReadersKept
<1> QED BY <1>2, <1>3, <1>4 DEF TranscriptIInv

LEMMA FinishStep ==
    ASSUME TranscriptIInv, Finish PROVE TranscriptIInv'
<1>1. /\ trim = "no" /\ Append2Log(Visible) /\ screen' = <<>> /\ (IF alt THEN Lost(screen) ELSE UNCHANGED erased)
      /\ ended' = TRUE /\ frames' = (IF alt THEN Framed(screen) ELSE frames)
      /\ UNCHANGED <<height, alt, next, readerVars>>
  BY DEF Finish, Free
<1>2. /\ hist' \in Seq(Lines) /\ data' \in Seq(Lines) /\ trim' \in {"no", "move"}
      /\ UNCHANGED <<base, head>> /\ LogOK' /\ Extends /\ LinesOK'
      /\ screen' \in Seq(Lines) /\ Len(screen') = 0
  BY <1>1, Emptied
<1>3. frames' \in Seq(Frame)
  BY <1>1, FramedKeeps DEF TranscriptIInv, RecorderTyped
<1>4. RecorderTyped'
  <2>1. \A h \in 1..MaxRows : 0 <= h
    BY TranscriptAssumption
  <2> QED BY <1>1, <1>2, <1>3, <2>1 DEF TranscriptIInv, RecorderTyped
<1>5. ReadersOK'
  BY <1>1, <1>2, ReadersKept
<1> QED BY <1>2, <1>4, <1>5 DEF TranscriptIInv

LEMMA EnterAltStep ==
    ASSUME TranscriptIInv, EnterAlt PROVE TranscriptIInv'
<1>0. /\ screen \in Seq(Lines) /\ Len(screen) \in Nat /\ Len(screen) <= height /\ height \in 1..MaxRows
      /\ hist \in Seq(Lines) /\ MaxRows \in Nat
  BY TranscriptAssumption, LenProperties DEF TranscriptIInv, RecorderTyped
<1>1. PICK one : one = <<next>>
  OBVIOUS
<1>2. PICK lines : lines = screen \o one
  OBVIOUS
<1>3. /\ trim = "no" /\ next <= MaxLines /\ Append2Log(lines) /\ next' = next + 1
      /\ screen' = <<>> /\ alt' = TRUE
      /\ UNCHANGED <<height, erased, ended, shot, frames, readerVars>>
  BY <1>1, <1>2 DEF EnterAlt, Free
<1>4. /\ next \in Nat /\ 1..next = (1..(next - 1)) \cup {next} /\ (next + 1) - 1 = next
      /\ Items(hist) \subseteq 1..(next - 1) /\ Items(screen) \subseteq 1..(next - 1) /\ erased \subseteq 1..(next - 1)
      /\ \A x \in 1..(next - 1) : x < next /\ x \in Nat
      /\ next \in Lines /\ next + 1 \in 1..(MaxLines + 1)
      /\ Lines \in SUBSET Nat
  BY <1>3, NextIsNew
<1>5. one \in Seq(Lines) /\ Len(one) = 1 /\ Items(one) = {next} /\ Ordered(one)
  BY <1>1, <1>4, OneItem
<1>6. /\ Ordered(hist) /\ Ordered(screen) /\ Before(Items(hist), Items(screen))
      /\ Items(hist) \cup Items(screen) \cup erased = 1..(next - 1)
      /\ (Items(hist) \cup Items(screen)) \cap erased = {}
  BY DEF TranscriptIInv, LinesOK
<1>7. lines \in Seq(Lines) /\ Items(lines) = Items(screen) \cup {next} /\ Len(lines) <= MaxRows + 1
  <2>1. screen \in Seq(Lines) /\ one \in Seq(Lines)
    BY <1>0, <1>5
  <2>2. /\ screen \o one \in Seq(Lines) /\ Items(screen \o one) = Items(screen) \cup Items(one)
        /\ Len(screen \o one) = Len(screen) + Len(one)
    BY <2>1, ItemsOfConcat
  <2> QED BY <1>0, <1>2, <1>5, <2>2
<1>8. Ordered(lines)
  <2>1. Before(Items(screen), Items(one))
    BY <1>4, <1>5 DEF Before
  <2> QED BY <1>0, <1>2, <1>4, <1>5, <1>6, <2>1, OrderedConcat
<1>9. Before(Items(hist), Items(lines))
  BY <1>4, <1>6, <1>7 DEF Before
<1>10. /\ hist' \in Seq(Lines) /\ data' \in Seq(Lines) /\ trim' \in {"no", "move"}
       /\ UNCHANGED <<base, head>> /\ LogOK' /\ Extends
       /\ Items(hist') = Items(hist) \cup Items(lines) /\ Ordered(hist')
  BY <1>3, <1>7, <1>8, <1>9, AppendKeeps
<1>11. Items(screen') = {} /\ Ordered(screen') /\ Len(screen') = 0 /\ screen' \in Seq(Lines)
  BY <1>3, NoItem, EmptySeq
<1>12. LinesOK'
  <2>1. Before(Items(hist'), Items(screen'))
    BY <1>11 DEF Before
  <2>2. Items(hist') \cup Items(screen') \cup erased = 1..next
    BY <1>4, <1>6, <1>7, <1>10, <1>11
  <2>3. next \notin erased
    BY <1>4
  <2>4. (Items(hist') \cup Items(screen')) \cap erased = {}
    BY <1>6, <1>7, <1>10, <1>11, <2>3
  <2> QED BY <1>3, <1>4, <1>10, <1>11, <2>1, <2>2, <2>4 DEF LinesOK
<1>13. RecorderTyped'
  <2>1. \A h \in 1..MaxRows : 0 <= h
    BY TranscriptAssumption
  <2> QED BY <1>3, <1>4, <1>10, <1>11, <2>1 DEF TranscriptIInv, RecorderTyped
<1>14. ReadersOK'
  BY <1>3, <1>10, ReadersKept
<1> QED BY <1>10, <1>12, <1>13, <1>14 DEF TranscriptIInv

\* Nothing is logged, and what leaves the screen is erased.
LEMMA Dropped ==
    ASSUME TranscriptIInv, NoLog, next' = next, NEW gone,
           Items(screen') \cup gone = Items(screen), Items(screen') \cap gone = {}, Ordered(screen'),
           erased' = erased \cup gone
    PROVE  LogOK' /\ Extends /\ LinesOK' /\ UNCHANGED <<hist, data, base, head, trim>>
<1>1. LogOK' /\ Extends /\ UNCHANGED <<hist, data, base, head, trim>>
  BY NoLogKeeps DEF NoLog
<1>2. /\ Ordered(hist) /\ Before(Items(hist), Items(screen))
      /\ Items(hist) \cup Items(screen) \cup erased = 1..(next - 1)
      /\ (Items(hist) \cup Items(screen)) \cap erased = {}
  BY DEF TranscriptIInv, LinesOK
<1>3. Items(hist) \cap Items(screen) = {}
  <2>1. Items(hist) \subseteq Nat
    BY NextIsNew
  <2> QED BY <1>2, <2>1 DEF Before
<1>4. Before(Items(hist), Items(screen'))
  BY <1>2 DEF Before
<1>5. Items(hist) \cup Items(screen') \cup erased' = 1..(next - 1)
  BY <1>2
<1>6. (Items(hist) \cup Items(screen')) \cap erased' = {}
  BY <1>2, <1>3
<1> QED BY <1>1, <1>2, <1>4, <1>5, <1>6 DEF LinesOK

LEMMA LeaveAltStep ==
    ASSUME TranscriptIInv, LeaveAlt PROVE TranscriptIInv'
<1>0. screen \in Seq(Lines) /\ frames \in Seq(Frame)
  BY DEF TranscriptIInv, RecorderTyped
<1>1. /\ frames' = Framed(screen) /\ NoLog /\ screen' = <<>> /\ alt' = FALSE
      /\ erased' = erased \cup Items(screen)
      /\ UNCHANGED <<height, next, ended, shot, readerVars>>
  BY <1>0, ToSetIsItems DEF LeaveAlt, Lost
<1>2. Items(screen') = {} /\ Ordered(screen') /\ Len(screen') = 0 /\ screen' \in Seq(Lines)
  BY <1>1, NoItem, EmptySeq
<1>3. LogOK' /\ Extends /\ LinesOK' /\ UNCHANGED <<hist, data, base, head, trim>>
  BY <1>1, <1>2, Dropped
<1>4. frames' \in Seq(Frame)
  BY <1>0, <1>1, FramedKeeps
<1>5. RecorderTyped'
  <2>1. \A h \in 1..MaxRows : 0 <= h
    BY TranscriptAssumption
  <2> QED BY <1>1, <1>2, <1>3, <1>4, <2>1 DEF TranscriptIInv, RecorderTyped
<1>6. ReadersOK'
  BY <1>1, <1>3, ReadersKept
<1> QED BY <1>3, <1>5, <1>6 DEF TranscriptIInv

LEMMA ResizeStep ==
    ASSUME TranscriptIInv, Resize PROVE TranscriptIInv'
<1>0. screen \in Seq(Lines) /\ Len(screen) \in Nat /\ Lines \in SUBSET Nat /\ Ordered(screen)
  BY LenProperties, NextIsNew DEF TranscriptIInv, RecorderTyped, LinesOK
<1>1. PICK k, gone : /\ k = (IF Len(screen) < height' THEN Len(screen) ELSE height')
                     /\ gone = SubSeq(screen, height' + 1, Len(screen))
  OBVIOUS
<1>2. /\ height' \in 1..MaxRows /\ screen' = SubSeq(screen, 1, k) /\ erased' = erased \cup ToSet(gone) /\ NoLog
      /\ UNCHANGED <<alt, next, ended, shot, frames, readerVars>>
  BY <1>1 DEF Resize, Lost
<1>3. k \in 0..Len(screen) /\ k <= height' /\ height' \in Nat
  BY <1>0, <1>1, <1>2
<1>4. PICK rest : rest = SubSeq(screen, k + 1, Len(screen))
  OBVIOUS
<1>5. /\ screen' \in Seq(Lines) /\ Len(screen') = k /\ Ordered(screen') /\ rest \in Seq(Lines) /\ Len(rest) = Len(screen) - k
      /\ Items(screen') \cup Items(rest) = Items(screen) /\ Items(screen') \cap Items(rest) = {}
  BY <1>0, <1>2, <1>3, <1>4, OrderedSplit
<1>6. ToSet(gone) = Items(rest)
  <2>1. CASE Len(screen) < height'
    <3>1. gone = <<>>
      BY <1>0, <1>1, <1>3, <2>1
    <3>2. Len(rest) = 0
      BY <1>0, <1>1, <1>5, <2>1
    <3>3. Items(rest) = {}
      BY <3>2 DEF Items
    <3>4. gone \in Seq(Lines) /\ Items(gone) = {}
      BY <3>1, NoItem, EmptySeq
    <3> QED BY <3>3, <3>4, ToSetIsItems
  <2>2. CASE ~(Len(screen) < height')
    BY <1>1, <1>4, <1>5, <2>2, ToSetIsItems
  <2> QED BY <2>1, <2>2
<1>7. LogOK' /\ Extends /\ LinesOK' /\ UNCHANGED <<hist, data, base, head, trim>>
  BY <1>2, <1>5, <1>6, Dropped
<1>8. RecorderTyped'
  BY <1>2, <1>3, <1>5, <1>7 DEF TranscriptIInv, RecorderTyped
<1>9. ReadersOK'
  BY <1>2, <1>7, ReadersKept
<1> QED BY <1>7, <1>8, <1>9 DEF TranscriptIInv

\* Steps that change no line: a snapshot, a published screen.
LEMMA QuietStep ==
    ASSUME TranscriptIInv, UNCHANGED <<screen, height, alt, next, erased, hist, data, head, base, trim, ended>>,
           frames' \in Seq(Frame), UNCHANGED readerVars
    PROVE  TranscriptIInv'
<1>1. LogOK' /\ Extends
  BY NoLogKeeps DEF NoLog
<1>2. LinesOK' /\ RecorderTyped'
  BY DEF TranscriptIInv, LinesOK, RecorderTyped
<1>3. ReadersOK'
  BY <1>1, ReadersKept
<1> QED BY <1>1, <1>2, <1>3 DEF TranscriptIInv

LEMMA SnapshotStep ==
    ASSUME TranscriptIInv, Snapshot \/ Publish PROVE TranscriptIInv'
<1>1. CASE Snapshot
  <2>1. frames' \in Seq(Frame)
    BY <1>1, FramedKeeps DEF Snapshot, TranscriptIInv, RecorderTyped
  <2> QED BY <1>1, <2>1, QuietStep DEF Snapshot
<1>2. CASE Publish
  <2>1. frames' \in Seq(Frame)
    BY <1>2 DEF Publish, TranscriptIInv, RecorderTyped
  <2> QED BY <1>2, <2>1, QuietStep DEF Publish
<1> QED BY <1>1, <1>2

\* A trim touches the log file alone.
LEMMA TrimKeeps ==
    ASSUME TranscriptIInv, UNCHANGED <<screen, height, alt, next, erased, hist, ended, frames, readerVars>>,
           data' \in Seq(Lines), base' \in Nat, head' \in Nat, head <= head', trim' \in {"no", "move", "cut", "head"}, LogOK'
    PROVE  TranscriptIInv'
<1>1. Extends
  <2>1. hist \in Seq(Lines) /\ Len(hist) \in Nat
    BY LenProperties DEF TranscriptIInv, RecorderTyped
  <2> QED BY <2>1 DEF Extends
<1>2. LinesOK' /\ RecorderTyped'
  BY DEF TranscriptIInv, LinesOK, RecorderTyped
<1>3. ReadersOK'
  BY <1>1, ReadersKept
<1> QED BY <1>2, <1>3 DEF TranscriptIInv

LEMMA TrimFacts ==
    ASSUME TranscriptIInv
    PROVE  /\ data \in Seq(Lines) /\ Len(data) \in Nat /\ hist \in Seq(Lines) /\ Len(hist) \in Nat
           /\ base \in Nat /\ head \in Nat /\ KeepLog \in Nat /\ MaxLog \in Nat /\ MaxRows \in Nat
           /\ 0 < KeepLog /\ KeepLog < MaxLog
BY TranscriptAssumption, LenProperties DEF TranscriptIInv, RecorderTyped

LEMMA TrimMoveStep ==
    ASSUME TranscriptIInv, TrimMove PROVE TranscriptIInv'
<1>0. /\ data \in Seq(Lines) /\ Len(data) \in Nat /\ hist \in Seq(Lines) /\ Len(hist) \in Nat
      /\ base \in Nat /\ head \in Nat /\ KeepLog \in Nat /\ MaxLog \in Nat /\ MaxRows \in Nat
      /\ 0 < KeepLog /\ KeepLog < MaxLog
  BY TrimFacts
<1>1. PICK cut : cut = Len(data) - KeepLog
  OBVIOUS
<1>2. /\ head = base /\ base + Len(data) = Len(hist) /\ MaxLog < Len(data) /\ Len(data) <= MaxLog + MaxRows + 1
      /\ \A i \in 1..Len(data) : data[i] = hist[base + i]
  BY <1>0 DEF TrimMove, TranscriptIInv, LogOK, Mirrors
<1>3. cut \in Nat /\ cut + KeepLog = Len(data) /\ cut + 1 \in 1..Len(data) /\ KeepLog + 1 \in 1..(Len(data) + 1)
      /\ (Len(data) - KeepLog) + 1 = cut + 1
  <2>1. Len(data) \in Nat /\ KeepLog \in Nat /\ 0 < KeepLog /\ KeepLog < Len(data)
    BY <1>0, <1>2
  <2>2. \A n, k \in Nat : 0 < k /\ k < n =>
            n - k \in Nat /\ (n - k) + k = n /\ (n - k) + 1 \in 1..n /\ k + 1 \in 1..(n + 1)
    OBVIOUS
  <2> QED BY <1>1, <2>1, <2>2
<1>4. PICK kept, rest : kept = SubSeq(data, cut + 1, Len(data)) /\ rest = SubSeq(data, KeepLog + 1, Len(data))
  OBVIOUS
<1>5. /\ kept \in Seq(Lines) /\ Len(kept) = KeepLog
      /\ \A i \in 1..KeepLog : kept[i] = data[cut + i]
  <2>1. kept \in Seq(Lines) /\ Len(kept) = Len(data) - (cut + 1) + 1
    BY <1>0, <1>3, <1>4, SubSeqProperties
  <2>2. \A i \in 1..KeepLog : kept[i] = data[cut + i]
    BY <1>0, <1>3, <1>4, SubSeqProperties
  <2>3. (Len(data) - (cut + 1)) + 1 = KeepLog
    <3>1. PICK dl \in Nat : dl = Len(data)
      BY <1>0
    <3>2. cut \in Nat /\ KeepLog \in Nat /\ cut + KeepLog = dl
      BY <1>0, <1>3, <3>1
    <3>3. (dl - (cut + 1)) + 1 = KeepLog
      BY <3>2
    <3> QED BY <3>1, <3>3
  <2> QED BY <2>1, <2>2, <2>3
<1>6. rest \in Seq(Lines) /\ Len(rest) = Len(data) - KeepLog
  BY <1>0, <1>3, <1>4, SubSeqProperties
<1>7. /\ data' = kept \o rest /\ base' = base + cut /\ trim' = "cut"
      /\ UNCHANGED <<screen, height, alt, next, erased, hist, head, ended, shot, frames, readerVars>>
  BY <1>1, <1>3, <1>4 DEF TrimMove, Kept
<1>8. /\ data' \in Seq(Lines) /\ Len(data') = Len(data)
      /\ \A i \in 1..KeepLog : data'[i] = kept[i]
  <2>1. /\ kept \o rest \in Seq(Lines) /\ Len(kept \o rest) = Len(kept) + Len(rest)
        /\ \A i \in 1..Len(kept) : (kept \o rest)[i] = kept[i]
    BY <1>5, <1>6, ItemsOfConcat
  <2>2. KeepLog + (Len(data) - KeepLog) = Len(data)
    BY <1>0
  <2> QED BY <1>5, <1>6, <1>7, <2>1, <2>2
<1>9. \A i \in 1..KeepLog : data'[i] = hist[(base + cut) + i]
  <2> SUFFICES ASSUME NEW i \in 1..KeepLog PROVE data'[i] = hist[(base + cut) + i]
    OBVIOUS
  <2>1. cut + i \in 1..Len(data) /\ base + (cut + i) = (base + cut) + i
    BY <1>0, <1>3
  <2> QED BY <1>2, <1>5, <1>8, <2>1
<1>10. LogOK'
  <2>1. (base + cut) + KeepLog = Len(hist) /\ KeepLog <= Len(data) /\ head <= base + cut /\ base + cut <= Len(hist)
        /\ head + Len(data) <= Len(hist)
    <3>1. PICK dl \in Nat, hl \in Nat : dl = Len(data) /\ hl = Len(hist)
      BY <1>0
    <3>2. cut \in Nat /\ KeepLog \in Nat /\ base \in Nat /\ cut + KeepLog = dl /\ base + dl = hl /\ head = base
      BY <1>0, <1>2, <1>3, <3>1
    <3>3. (base + cut) + KeepLog = hl /\ KeepLog <= dl /\ head <= base + cut /\ base + cut <= hl /\ head + dl <= hl
      BY <3>2
    <3> QED BY <3>1, <3>3
  <2>2. Mirrors(data, base, KeepLog)'
    BY SMTT(30), <1>0, <1>7, <1>8, <1>9, <2>1 DEF Mirrors
  <2> QED BY <1>2, <1>7, <1>8, <2>1, <2>2 DEF LogOK
<1>11. base' \in Nat /\ head' \in Nat /\ head <= head'
  BY <1>0, <1>3, <1>7
<1> QED BY <1>7, <1>8, <1>10, <1>11, TrimKeeps

LEMMA TrimCutStep ==
    ASSUME TranscriptIInv, TrimCut PROVE TranscriptIInv'
<1>0. /\ data \in Seq(Lines) /\ Len(data) \in Nat /\ hist \in Seq(Lines) /\ Len(hist) \in Nat
      /\ base \in Nat /\ head \in Nat /\ KeepLog \in Nat /\ MaxLog \in Nat /\ MaxRows \in Nat
      /\ 0 < KeepLog /\ KeepLog < MaxLog
  BY TrimFacts
<1>1. /\ data' = SubSeq(data, 1, KeepLog) /\ trim' = "head"
      /\ UNCHANGED <<screen, height, alt, next, erased, hist, head, base, ended, shot, frames, readerVars>>
  BY DEF TrimCut
<1>2. /\ base + KeepLog = Len(hist) /\ KeepLog <= Len(data) /\ head <= base /\ head + Len(data) <= Len(hist)
      /\ Len(data) <= MaxLog + MaxRows + 1 /\ base <= Len(hist)
      /\ \A i \in 1..KeepLog : data[i] = hist[base + i]
  BY DEF TrimCut, TranscriptIInv, LogOK, Mirrors
<1>3. /\ data' \in Seq(Lines) /\ Len(data') = KeepLog /\ \A i \in 1..KeepLog : data'[i] = data[i]
  BY <1>0, <1>1, <1>2, SubSeqProperties
<1>4. LogOK'
  <2>1. head + KeepLog <= Len(hist) /\ KeepLog <= MaxLog + MaxRows + 1
    BY <1>0, <1>2
  <2>2. Mirrors(data, base, KeepLog)'
    BY <1>0, <1>1, <1>2, <1>3 DEF Mirrors
  <2> QED BY <1>1, <1>2, <1>3, <2>1, <2>2 DEF LogOK
<1>5. base' \in Nat /\ head' \in Nat /\ head <= head'
  BY <1>0, <1>1
<1> QED BY <1>1, <1>3, <1>4, <1>5, TrimKeeps

LEMMA TrimHeaderStep ==
    ASSUME TranscriptIInv, TrimHeader PROVE TranscriptIInv'
<1>0. /\ data \in Seq(Lines) /\ Len(data) \in Nat /\ hist \in Seq(Lines) /\ Len(hist) \in Nat
      /\ base \in Nat /\ head \in Nat /\ KeepLog \in Nat /\ MaxLog \in Nat /\ MaxRows \in Nat
      /\ 0 < KeepLog /\ KeepLog < MaxLog
  BY TrimFacts
<1>1. /\ head' = base /\ trim' = "no"
      /\ UNCHANGED <<screen, height, alt, next, erased, hist, data, base, ended, shot, frames, readerVars>>
  BY DEF TrimHeader
<1>2. /\ base + KeepLog = Len(hist) /\ KeepLog = Len(data) /\ head <= base /\ base <= Len(hist)
      /\ \A i \in 1..KeepLog : data[i] = hist[base + i]
  BY DEF TrimHeader, TranscriptIInv, LogOK, Mirrors
<1>4. LogOK'
  <2>1. base <= base /\ KeepLog <= Len(hist) /\ Len(data) <= MaxLog + MaxRows + 1 /\ Len(data) <= MaxLog
    BY <1>0, <1>2
  <2>2. Mirrors(data, base, Len(data))'
    BY <1>0, <1>1, <1>2 DEF Mirrors
  <2> QED BY <1>0, <1>1, <1>2, <2>1, <2>2 DEF LogOK
<1>5. base' \in Nat /\ head' \in Nat /\ head <= head' /\ data' \in Seq(Lines)
  BY <1>0, <1>1, <1>2
<1> QED BY <1>1, <1>4, <1>5, TrimKeeps

-----------------------------------------------------------------------------
(* The readers                                                             *)

\* Reader r goes on to p; the rest stays.
LEMMA ReaderMoves ==
    ASSUME TranscriptIInv, NEW r \in Readers, NEW p, Goto(r, p), UNCHANGED <<recorderVars, cursor, gave, torn>>,
           StepFine(p, cursor[r].at)
    PROVE  TranscriptIInv'
<1>1. UNCHANGED <<screen, height, alt, next, erased, hist, data, head, base, trim, ended, frames>>
  BY DEF recorderVars
<1>2. LogOK' /\ Extends
  BY <1>1, NoLogKeeps DEF NoLog
<1>3. LinesOK' /\ RecorderTyped'
  BY <1>1 DEF TranscriptIInv, LinesOK, RecorderTyped
<1>4. hist \in Seq(Lines) /\ head \in Nat
  BY DEF TranscriptIInv, RecorderTyped
<1>5. DOMAIN rd = Readers /\ rd' = [rd EXCEPT ![r] = p]
  BY DEF TranscriptIInv, ReadersOK, Goto
<1>6. ASSUME NEW q \in Readers PROVE ReaderFine(q)'
  <2>1. PICK o, c, g : /\ o = IF q = r THEN p ELSE rd[q]
                       /\ c = cursor[q].at /\ g = gave[q]
    OBVIOUS
  <2>2. StepFine(o, c) /\ (q \notin torn => GaveFine(g))
    BY <2>1 DEF TranscriptIInv, ReadersOK, ReaderFine
  <2>3. StepFine(o, c)' /\ (q \notin torn => GaveFine(g)')
    BY <1>2, <1>4, <2>2, StepKept, GaveKept
  <2>4. o = rd'[q] /\ c = cursor'[q].at /\ g = gave'[q] /\ torn' = torn
    BY <1>5, <2>1
  <2> QED BY <2>3, <2>4 DEF ReaderFine
<1>7. ReadersOK'
  <2>1. DOMAIN rd' = Readers
    BY <1>5
  <2> QED BY <1>6, <2>1 DEF TranscriptIInv, ReadersOK
<1> QED BY <1>2, <1>3, <1>7 DEF TranscriptIInv

\* A reader that has read nothing.
LEMMA FreshStep ==
    ASSUME TranscriptIInv, NEW r \in Readers, NEW p \in ReadStep, p.at \in {"idle", "before"}
    PROVE  StepFine(p, cursor[r].at)
<1>1. cursor[r].at \in Nat /\ cursor[r].at <= Len(hist)
  BY DEF TranscriptIInv, ReadersOK, ReaderFine, StepFine
<1> QED BY <1>1 DEF StepFine

LEMMA OpenIs ==
    ASSUME NEW full \in BOOLEAN, NEW wait \in BOOLEAN, NEW n \in Nat
    PROVE  Open(full, wait, n) \in ReadStep /\ Open(full, wait, n).at = "before"
BY EmptySeq DEF Open, ReadStep

LEMMA IdleIs == Idle \in ReadStep /\ Idle.at = "idle"
<1>1. PICK o : o = Open(FALSE, FALSE, 0)
  OBVIOUS
<1>2. o = [at |-> "before", full |-> FALSE, wait |-> FALSE, try |-> 0, base |-> 0, raw |-> <<>>, moved |-> FALSE]
  BY <1>1 DEF Open
<1>3. Idle = [o EXCEPT !.at = "idle"]
  BY <1>1 DEF Idle
<1> QED BY <1>2, <1>3, EmptySeq DEF ReadStep

LEMMA ToView ==
    ASSUME NEW p \in ReadStep, NEW q, q = [p EXCEPT !.at = "view"]
    PROVE  q \in ReadStep /\ q.at = "view" /\ q.base = p.base /\ q.raw = p.raw /\ q.moved = p.moved
<1>1. q \in ReadStep
  BY DEF ReadStep
<1>2. q.at = "view" /\ q.base = p.base /\ q.raw = p.raw
  BY DEF ReadStep
<1>3. q.moved = p.moved
  BY Zenon DEF ReadStep
<1> QED BY <1>1, <1>2, <1>3

LEMMA ReadLogStep ==
    ASSUME TranscriptIInv, NEW r \in Readers,
           ReadStart(r) \/ ReadBefore(r) \/ ReadRaw(r) \/ ReadAfter(r) \/ WaitMore(r) \/ ReadTimesOut(r)
    PROVE  TranscriptIInv'
<1>0. /\ data \in Seq(Lines) /\ Len(data) \in Nat /\ hist \in Seq(Lines) /\ Len(hist) \in Nat
      /\ base \in Nat /\ head \in Nat
  BY TrimFacts
<1>1. PICK p, c : p = rd[r] /\ c = cursor[r].at
  OBVIOUS
<1>2. StepFine(p, c) /\ p \in ReadStep /\ c \in Nat /\ c <= Len(hist)
  BY <1>1 DEF TranscriptIInv, ReadersOK, ReaderFine, StepFine
<1>3. p.full \in BOOLEAN /\ p.wait \in BOOLEAN /\ p.try \in Nat /\ p.base \in Nat /\ p.raw \in Seq(Lines) /\ Len(p.raw) \in Nat
  <2>1. p.full \in BOOLEAN /\ p.wait \in BOOLEAN
    BY <1>2, Zenon DEF ReadStep
  <2>2. p.try \in Nat /\ p.base \in Nat /\ p.raw \in Seq(Lines)
    BY <1>2 DEF ReadStep
  <2> QED BY <2>1, <2>2, LenProperties
<1>4. UNCHANGED <<recorderVars, cursor, gave, torn>>
  BY DEF ReadStart, ReadBefore, ReadRaw, ReadAfter, WaitMore, ReadTimesOut
<1>5. ASSUME NEW q \in ReadStep, q.at \in {"idle", "before"}, Goto(r, q) PROVE TranscriptIInv'
  BY <1>4, <1>5, FreshStep, ReaderMoves
<1>6. CASE ReadStart(r)
  <2>1. PICK full \in BOOLEAN, wait \in BOOLEAN : Goto(r, Open(full, wait, 1))
    BY <1>6 DEF ReadStart
  <2>2. Open(full, wait, 1) \in ReadStep /\ Open(full, wait, 1).at = "before"
    BY OpenIs
  <2> QED BY <1>5, <2>1, <2>2
<1>7. CASE ReadBefore(r)
  <2>1. PICK q : q = [p EXCEPT !.at = "raw", !.base = head]
    OBVIOUS
  <2>2. q \in ReadStep /\ q.at = "raw" /\ q.base = head
    <3>1. p \in ReadStep /\ head \in Nat
      BY <1>0, <1>2
    <3> QED BY <2>1, <3>1 DEF ReadStep
  <2>3. Goto(r, q)
    BY <1>1, <1>7, <2>1 DEF ReadBefore
  <2>4. StepFine(q, cursor[r].at)
    BY <1>0, <1>1, <1>2, <2>2 DEF StepFine
  <2> QED BY <1>4, <2>3, <2>4, ReaderMoves
<1>8. CASE ReadRaw(r)
  <2>1. PICK m \in BOOLEAN : m = (trim \in {"cut", "head"})
    <3>1. (trim \in {"cut", "head"}) \in BOOLEAN
      OBVIOUS
    <3> QED BY <3>1, Zenon
  <2>2. PICK q : q = [p EXCEPT !.at = "after", !.raw = data, !.moved = m]
    OBVIOUS
  <2>3. q \in ReadStep /\ q.at = "after" /\ q.base = p.base /\ q.raw = data /\ q.moved = m
    <3>1. p \in ReadStep /\ data \in Seq(Lines) /\ m \in BOOLEAN
      BY <1>0, <1>2
    <3>2. q \in ReadStep
      BY <2>2, <3>1 DEF ReadStep
    <3>3. q.at = "after" /\ q.base = p.base /\ q.raw = data
      BY <2>2, <3>1 DEF ReadStep
    <3>4. q.moved = m
      BY <2>2, <3>1, Zenon DEF ReadStep
    <3> QED BY <3>2, <3>3, <3>4
  <2>4. Goto(r, q)
    BY <1>1, <1>8, <2>1, <2>2 DEF ReadRaw
  <2>5. p.base <= head
    BY <1>1, <1>2, <1>8 DEF ReadRaw, StepFine
  <2>6. head + Len(data) <= Len(hist)
    BY DEF TranscriptIInv, LogOK
  <2>7. p.base + Len(data) <= Len(hist)
    BY <1>0, <1>3, <2>5, <2>6
  <2>8. ~m => Origin(q, head) /\ c <= head + Len(data)
    <3> SUFFICES ASSUME ~m PROVE Origin(q, head) /\ c <= head + Len(data)
      OBVIOUS
    <3>1. trim \in {"no", "move"}
      BY <2>1 DEF TranscriptIInv, RecorderTyped
    <3>2. head = base /\ base + Len(data) = Len(hist) /\ Mirrors(data, base, Len(data))
      BY <3>1 DEF TranscriptIInv, LogOK
    <3> QED BY <1>0, <1>2, <2>3, <2>5, <3>2 DEF Origin
  <2>9. StepFine(q, c)
    <3>1. \E h \in Nat : ~q.moved => Origin(q, h) /\ c <= h + Len(q.raw)
      BY <1>0, <2>3, <2>8
    <3> QED BY <1>0, <1>2, <2>3, <2>5, <2>7, <3>1 DEF StepFine
  <2> QED BY <1>1, <1>4, <2>4, <2>9, ReaderMoves
<1>9. CASE ReadAfter(r)
  <2>1. CASE Unmoved(r) /\ Goto(r, [rd[r] EXCEPT !.at = "view"])
    <3>1. PICK q : q = [p EXCEPT !.at = "view"]
      OBVIOUS
    <3>2. q \in ReadStep /\ q.at = "view" /\ q.base = p.base /\ q.raw = p.raw /\ q.moved = p.moved
      BY <1>2, <3>1, ToView
    <3>3. Goto(r, q) /\ p.at = "after" /\ head = p.base
      BY <1>1, <1>9, <2>1, <3>1 DEF ReadAfter, Unmoved
    <3>4. ASSUME ~p.moved PROVE \E h \in Nat : Origin(q, h) /\ c <= h + Len(q.raw)
      <4>1. PICK h \in Nat : Origin(p, h) /\ c <= h + Len(p.raw)
        BY <1>2, <3>3, <3>4 DEF StepFine
      <4>2. h = p.base
        BY <1>3, <3>3, <4>1 DEF Origin
      <4> QED BY <3>2, <4>1, <4>2 DEF Origin
    <3>5. StepFine(q, c)
      BY <1>2, <3>2, <3>3, <3>4 DEF StepFine
    <3> QED BY <1>1, <1>4, <3>3, <3>5, ReaderMoves
  <2>2. CASE Goto(r, Open(rd[r].full, rd[r].wait, rd[r].try + 1))
    <3>1. Open(p.full, p.wait, p.try + 1) \in ReadStep /\ Open(p.full, p.wait, p.try + 1).at = "before"
      BY <1>3, OpenIs
    <3> QED BY <1>1, <1>5, <2>2, <3>1
  <2>3. CASE Goto(r, Idle)
    BY <1>5, <2>3, IdleIs
  <2> QED BY <1>9, <2>1, <2>2, <2>3 DEF ReadAfter
<1>10. CASE WaitMore(r)
  <2>1. Open(p.full, TRUE, 1) \in ReadStep /\ Open(p.full, TRUE, 1).at = "before"
    BY <1>3, OpenIs
  <2>2. Goto(r, Open(p.full, TRUE, 1))
    BY <1>1, <1>10 DEF WaitMore
  <2> QED BY <1>5, <2>1, <2>2
<1>11. CASE ReadTimesOut(r)
  BY <1>5, <1>11, IdleIs DEF ReadTimesOut
<1> QED BY <1>6, <1>7, <1>8, <1>9, <1>10, <1>11

LEMMA GiveStep ==
    ASSUME TranscriptIInv, NEW r \in Readers, Give(r) PROVE TranscriptIInv'
<1>0. /\ data \in Seq(Lines) /\ Len(data) \in Nat /\ hist \in Seq(Lines) /\ Len(hist) \in Nat
      /\ base \in Nat /\ head \in Nat
  BY TrimFacts
<1>1. PICK p, c : p = rd[r] /\ c = cursor[r].at
  OBVIOUS
<1>2. StepFine(p, c) /\ p \in ReadStep /\ c \in Nat /\ c <= Len(hist) /\ p.at = "view"
  BY <1>1 DEF TranscriptIInv, ReadersOK, ReaderFine, StepFine, Give
<1>3. p.base \in Nat /\ p.raw \in Seq(Lines) /\ Len(p.raw) \in Nat
  <2>1. p.base \in Nat /\ p.raw \in Seq(Lines)
    BY <1>2 DEF ReadStep
  <2> QED BY <2>1, LenProperties
<1>4. PICK s, t, x, f : s = Start(r) /\ t = Total(r) /\ x = Text(r) /\ f = FrameMark(r)
  OBVIOUS
<1>5. PICK g, d : g = [from |-> s, text |-> x, to |-> t] /\ d = [at |-> t, frame |-> f]
  OBVIOUS
<1>6. /\ gave' = [gave EXCEPT ![r] = g] /\ cursor' = [cursor EXCEPT ![r] = d] /\ rd' = [rd EXCEPT ![r] = Idle]
      /\ torn' = (IF p.moved THEN torn \cup {r} ELSE torn \ {r})
      /\ UNCHANGED recorderVars
  BY <1>1, <1>4, <1>5 DEF Give, Goto
<1>7. t = p.base + Len(p.raw) /\ t \in Nat /\ t <= Len(hist)
  BY <1>1, <1>2, <1>3, <1>4 DEF Total, StepFine
<1>8. s = p.base \/ (s = c /\ p.base <= c)
  BY <1>1, <1>2, <1>3, <1>4 DEF Start
<1>9. x = SubSeq(p.raw, (s - p.base) + 1, Len(p.raw))
  BY <1>1, <1>4 DEF Text
<1>10. ~p.moved => GaveFine(g)
  <2> SUFFICES ASSUME ~p.moved PROVE GaveFine(g)
    OBVIOUS
  <2>1. PICK h \in Nat : Origin(p, h) /\ c <= h + Len(p.raw)
    BY <1>2 DEF StepFine
  <2>2. h = p.base /\ \A i \in 1..Len(p.raw) : p.raw[i] = hist[p.base + i]
    BY <1>2, <2>1 DEF Origin, Mirrors
  <2>3. PICK b \in Nat, n \in Nat : b = p.base /\ n = Len(p.raw)
    BY <1>3
  <2>4. s \in Nat /\ b <= s /\ s <= b + n /\ t = b + n
    BY <1>2, <1>7, <1>8, <2>1, <2>2, <2>3
  <2>5. PICK k : k = s - b
    OBVIOUS
  <2>6. k \in Nat /\ k <= n /\ k + 1 \in 1..(n + 1) /\ t - s = n - k /\ (n - (k + 1)) + 1 = n - k /\ s = b + k /\ s <= t
    BY <2>4, <2>5
  <2>7. x = SubSeq(p.raw, k + 1, n)
    BY <1>9, <2>3, <2>5
  <2>8. x \in Seq(Lines) /\ Len(x) = n - k /\ \A i \in 1..(n - k) : x[i] = p.raw[k + i]
    <3>1. x \in Seq(Lines) /\ Len(x) = (n - (k + 1)) + 1
      BY <1>3, <2>3, <2>6, <2>7, SubSeqProperties
    <3>2. \A i \in 1..(n - k) : x[i] = p.raw[k + i]
      BY <1>3, <2>3, <2>6, <2>7, SubSeqProperties
    <3> QED BY <2>6, <3>1, <3>2
  <2>9. \A i \in 1..(t - s) : x[i] = hist[s + i]
    <3> SUFFICES ASSUME NEW i \in 1..(n - k) PROVE x[i] = hist[s + i]
      BY <2>6
    <3>1. k + i \in 1..n /\ b + (k + i) = s + i
      BY <2>6
    <3> QED BY <2>2, <2>3, <2>8, <3>1
  <2>10. g.from = s /\ g.to = t /\ g.text = x
    BY <1>5
  <2> QED BY <1>7, <2>4, <2>6, <2>8, <2>9, <2>10 DEF GaveFine
<1>11. UNCHANGED <<screen, height, alt, next, erased, hist, data, head, base, trim, ended, frames>>
  BY <1>6 DEF recorderVars
<1>12. LogOK' /\ Extends
  BY <1>11, NoLogKeeps DEF NoLog
<1>13. LinesOK' /\ RecorderTyped'
  BY <1>11 DEF TranscriptIInv, LinesOK, RecorderTyped
<1>14. DOMAIN rd = Readers /\ DOMAIN cursor = Readers /\ DOMAIN gave = Readers
  BY DEF TranscriptIInv, ReadersOK
<1>15. ASSUME NEW q \in Readers PROVE ReaderFine(q)'
  <2>1. PICK o, e, w : /\ o = (IF q = r THEN Idle ELSE rd[q])
                       /\ e = (IF q = r THEN t ELSE cursor[q].at)
                       /\ w = (IF q = r THEN g ELSE gave[q])
    OBVIOUS
  <2>2. StepFine(o, e)
    <3>1. CASE q = r
      BY <1>7, <2>1, <3>1, IdleIs DEF StepFine
    <3>2. CASE q # r
      BY <2>1, <3>2 DEF TranscriptIInv, ReadersOK, ReaderFine
    <3> QED BY <3>1, <3>2
  <2>3. q \notin torn' => GaveFine(w)
    <3>1. CASE q = r
      BY <1>6, <1>10, <2>1, <3>1
    <3>2. CASE q # r
      BY <1>6, <2>1, <3>2 DEF TranscriptIInv, ReadersOK, ReaderFine
    <3> QED BY <3>1, <3>2
  <2>4. StepFine(o, e)' /\ (q \notin torn' => GaveFine(w)')
    BY <1>0, <1>12, <2>2, <2>3, StepKept, GaveKept
  <2>5. o = rd'[q] /\ w = gave'[q] /\ e = cursor'[q].at
    <3>1. o = rd'[q] /\ w = gave'[q] /\ cursor'[q] = (IF q = r THEN d ELSE cursor[q])
      BY <1>6, <1>14, <2>1
    <3>2. d.at = t
      BY <1>5
    <3> QED BY <2>1, <3>1, <3>2
  <2> QED BY <2>4, <2>5 DEF ReaderFine
<1>16. ReadersOK'
  <2>1. DOMAIN rd' = Readers /\ DOMAIN cursor' = Readers /\ DOMAIN gave' = Readers
    BY <1>6, <1>14
  <2> QED BY <1>15, <2>1 DEF ReadersOK
<1> QED BY <1>12, <1>13, <1>16 DEF TranscriptIInv

-----------------------------------------------------------------------------
LEMMA TranscriptStart ==
    ASSUME TranscriptInit PROVE TranscriptIInv
<1>1. Items(<<>>) = {} /\ Ordered(<<>>) /\ Len(<<>>) = 0 /\ <<>> \in Seq(Lines) /\ <<>> \in Seq(Frame)
  BY NoItem, EmptySeq
<1>2. MaxRows \in 1..MaxRows /\ 0 <= MaxRows /\ 1 \in 1..(MaxLines + 1) /\ 1..(1 - 1) = {} /\ 0 <= MaxLog /\ 0 <= MaxLog + MaxRows + 1
  BY TranscriptAssumption
<1>3. RecorderTyped
  BY <1>1, <1>2 DEF TranscriptInit, RecorderTyped
<1>4. LinesOK
  BY <1>1, <1>2 DEF TranscriptInit, LinesOK, Before
<1>5. LogOK
  BY <1>1, <1>2 DEF TranscriptInit, LogOK, Mirrors
<1>6. ASSUME NEW r \in Readers PROVE ReaderFine(r)
  <2>1. PICK g : g = [from |-> 0, text |-> <<>>, to |-> 0]
    OBVIOUS
  <2>2. gave[r] = g /\ rd[r] = Idle /\ cursor[r].at = 0
    BY <2>1 DEF TranscriptInit
  <2>3. GaveFine(g)
    BY <1>1, <2>1 DEF TranscriptInit, GaveFine
  <2>4. StepFine(Idle, 0)
    BY <1>1, IdleIs DEF TranscriptInit, StepFine
  <2> QED BY <2>2, <2>3, <2>4 DEF ReaderFine
<1>7. ReadersOK
  BY <1>6 DEF TranscriptInit, ReadersOK
<1> QED BY <1>3, <1>4, <1>5, <1>7 DEF TranscriptIInv

LEMMA TranscriptStep ==
    ASSUME TranscriptIInv, [TranscriptNext]_transcriptVars PROVE TranscriptIInv'
<1>1. CASE UNCHANGED transcriptVars
  <2>1. frames' \in Seq(Frame)
    BY <1>1 DEF transcriptVars, recorderVars, TranscriptIInv, RecorderTyped
  <2> QED BY <1>1, <2>1, QuietStep DEF transcriptVars, recorderVars
<1>2. CASE Record
  BY <1>2, PrintLineStep, RepaintStep, ClearStep, EnterAltStep, LeaveAltStep, SnapshotStep, ResizeStep, FinishStep DEF Record
<1>3. CASE Trim
  BY <1>3, TrimMoveStep, TrimCutStep, TrimHeaderStep DEF Trim
<1>4. ASSUME NEW r \in Readers, ReadTerminal(r) PROVE TranscriptIInv'
  BY <1>4, ReadLogStep, GiveStep DEF ReadTerminal
<1> QED BY <1>1, <1>2, <1>3, <1>4 DEF TranscriptNext

LEMMA TranscriptHolds ==
    ASSUME TranscriptIInv PROVE TranscriptInv
<1>0. /\ data \in Seq(Lines) /\ Len(data) \in Nat /\ hist \in Seq(Lines) /\ Len(hist) \in Nat
      /\ base \in Nat /\ head \in Nat
  BY TrimFacts
<1>1. TranscriptTypeOK
  <2>1. \A r \in Readers : cursor[r].at <= Len(hist)
    BY DEF TranscriptIInv, ReadersOK, ReaderFine, StepFine
  <2> QED BY <2>1 DEF TranscriptIInv, RecorderTyped, LogOK, TranscriptTypeOK, Lines
<1>2. EveryLineOnce
  <2>1. PICK seen, whole : seen = Visible /\ whole = hist \o seen
    OBVIOUS
  <2>2. screen \in Seq(Lines) /\ Lines \in SUBSET Nat
    BY NextIsNew DEF TranscriptIInv, RecorderTyped
  <2>3. /\ Ordered(hist) /\ Ordered(screen) /\ Before(Items(hist), Items(screen))
        /\ Items(hist) \cup Items(screen) \cup erased = 1..(next - 1)
        /\ (Items(hist) \cup Items(screen)) \cap erased = {}
    BY DEF TranscriptIInv, LinesOK
  <2>4. seen \in Seq(Lines) /\ Ordered(seen) /\ Before(Items(hist), Items(seen)) /\ Items(seen) \subseteq Items(screen)
    <3>1. CASE alt
      BY <2>1, <3>1, NoItem, EmptySeq DEF Visible, Before
    <3>2. CASE ~alt
      BY <2>1, <2>2, <2>3, <3>2 DEF Visible
    <3> QED BY <3>1, <3>2
  <2>5. whole \in Seq(Lines) /\ Items(whole) = Items(hist) \cup Items(seen)
    <3>1. hist \in Seq(Lines) /\ seen \in Seq(Lines)
      BY <1>0, <2>4
    <3> QED BY <2>1, <3>1, ItemsOfConcat
  <2>6. Ordered(whole)
    BY <1>0, <2>1, <2>2, <2>3, <2>4, OrderedConcat
  <2>7. DOMAIN whole = 1..Len(whole) /\ ToSet(whole) = Items(whole) /\ ToSet(screen) = Items(screen)
    BY <2>2, <2>5, LenProperties, ToSetIsItems
  <2>8. 1..(next - 1) = Items(whole) \cup Items(screen) \cup erased /\ Items(whole) \cap erased = {}
    BY <2>3, <2>4, <2>5
  <2>9. \A i, j \in DOMAIN whole : i < j => whole[i] < whole[j]
    BY <2>6, <2>7 DEF Ordered
  <2> QED BY <2>1, <2>7, <2>8, <2>9 DEF EveryLineOnce
<1>3. WindowIsTrue
  <2> SUFFICES ASSUME NEW r \in Readers \ torn PROVE gave[r].text = SubSeq(hist, gave[r].from + 1, gave[r].to)
    BY DEF WindowIsTrue
  <2>1. PICK g : g = gave[r]
    OBVIOUS
  <2>2. GaveFine(g)
    BY <2>1 DEF TranscriptIInv, ReadersOK, ReaderFine
  <2>3. PICK x, s, t : x = g.text /\ s = g.from /\ t = g.to
    OBVIOUS
  <2>4. /\ s \in Nat /\ t \in Nat /\ s <= t /\ t <= Len(hist) /\ x \in Seq(Lines) /\ Len(x) = t - s
        /\ \A i \in 1..(t - s) : x[i] = hist[s + i]
    BY <2>2, <2>3 DEF GaveFine
  <2>5. PICK y : y = SubSeq(hist, s + 1, t)
    OBVIOUS
  <2>6. s + 1 \in 1..(Len(hist) + 1) /\ t \in ((s + 1) - 1)..Len(hist) /\ (t - (s + 1)) + 1 = t - s
    BY <1>0, <2>4
  <2>7. y \in Seq(Lines) /\ Len(y) = t - s /\ \A i \in 1..(t - s) : y[i] = hist[s + i]
    <3>1. y \in Seq(Lines) /\ Len(y) = (t - (s + 1)) + 1
      BY <1>0, <2>4, <2>5, <2>6, SubSeqProperties
    <3>2. \A i \in 1..(t - s) : y[i] = hist[s + i]
      BY <1>0, <2>4, <2>5, <2>6, SubSeqProperties
    <3> QED BY <2>6, <3>1, <3>2
  <2>8. x = y
    BY <2>4, <2>7, SeqEqual
  <2> QED BY <2>1, <2>3, <2>5, <2>8
<1> QED BY <1>1, <1>2, <1>3 DEF TranscriptInv

\* The recorder of a terminal and hub_terminal_read, for any sizes of the pane and the log
\* and any number of readers, over every interleaving of a trim with their reads: each line
\* printed is logged once and in order, or is on the screen, or was erased; and a read that
\* the trim did not tear returns the lines its offsets stand for.
THEOREM TranscriptIsTrue == TranscriptSpec => []TranscriptInv
<1>1. TranscriptInit => TranscriptIInv
  BY TranscriptStart
<1>2. TranscriptIInv /\ [TranscriptNext]_transcriptVars => TranscriptIInv'
  BY TranscriptStep
<1>3. TranscriptIInv => TranscriptInv
  BY TranscriptHolds
<1> QED BY <1>1, <1>2, <1>3, PTL DEF TranscriptSpec

\* take_final_alt_frame and the exit: when a full-screen program's screen is given up, the
\* last frame shows it.
THEOREM LastScreenKept == TranscriptSpec => LastScreenIsKept
<1>1. TranscriptInit => TranscriptIInv
  BY TranscriptStart
<1>2. TranscriptIInv /\ [TranscriptNext]_transcriptVars => TranscriptIInv'
  BY TranscriptStep
<1> DEFINE A == alt /\ screen # <<>> /\ (~alt' \/ (ended' /\ ~ended)) => frames' # <<>> /\ Last(frames').text = screen
<1>3. TranscriptIInv /\ [TranscriptNext]_transcriptVars => [A]_transcriptVars
  <2> SUFFICES ASSUME TranscriptIInv, TranscriptNext, alt, screen # <<>>, ~alt' \/ (ended' /\ ~ended)
               PROVE  frames' # <<>> /\ Last(frames').text = screen
    OBVIOUS
  <2>1. screen \in Seq(Lines) /\ frames \in Seq(Frame)
    BY DEF TranscriptIInv, RecorderTyped
  <2>2. frames' = Framed(screen)
    <3>1. CASE Record
      BY <3>1 DEF Record, PrintLine, Repaint, Clear, EnterAlt, LeaveAlt, Snapshot, Resize, Publish, Finish
    <3>2. CASE Trim
      BY <3>2 DEF Trim, TrimMove, TrimCut, TrimHeader
    <3>3. ASSUME NEW r \in Readers, ReadTerminal(r) PROVE FALSE
      BY <3>3 DEF ReadTerminal, ReadStart, ReadBefore, ReadRaw, ReadAfter, WaitMore, Give, ReadTimesOut, recorderVars
    <3> QED BY <3>1, <3>2, <3>3 DEF TranscriptNext
  <2> QED BY <2>1, <2>2, FramedKeeps
<1> QED BY <1>1, <1>2, <1>3, PTL DEF TranscriptSpec, LastScreenIsKept

-----------------------------------------------------------------------------
(* The board.                                                               *)

BoardCard == [col : Nat, owner : BoardClaudes \cup {Nobody}, txt : Nat, arch : BOOLEAN, say : Says]
News == [on : BOOLEAN, base : BoardCard, said : BOOLEAN]
Queues == [BoardClaudes -> [CardIds -> News]]
Seen == [on : BOOLEAN, col : Nat, txt : Nat]

\* Distinct columns, none above the last number given out.
ColsFine(s, m) ==
    /\ s \in Seq(ColIds) /\ Len(s) > 0
    /\ \A i, j \in 1..Len(s) : s[i] = s[j] => i = j
    /\ \A i \in 1..Len(s) : s[i] <= m

Among(col, s) == \E i \in 1..Len(s) : col = s[i]

\* A board with its columns, the cards made, and each of them in a column.
BoardFine(b) ==
    /\ b \in [cols : Seq(ColIds), cards : [CardIds -> BoardCard], made : 0..MaxCards, madeCols : ColIds]
    /\ ColsFine(b.cols, b.madeCols)
    /\ \A n \in CardIds : n > b.made => b.cards[n] = NoCard
    /\ \A n \in CardIds : b.cards[n].col # 0 => Among(b.cards[n].col, b.cols)

OutboxTyped ==
    /\ proposals \subseteq Proposals /\ rows \subseteq BoardClaudes
    /\ waiting \in Queues /\ sending \in Queues
    /\ view \in [BoardClaudes -> [CardIds -> Seen]] /\ heard \in [CardIds -> Says]

\* Nothing is known of a card before it is made, and a comment is told with a change.
QueuesOK ==
    \A n \in CardIds :
        /\ n > board.made => heard[n] = Silent
        /\ \A c \in BoardClaudes :
              /\ n > board.made => ~waiting[c][n].on /\ ~sending[c][n].on
              /\ waiting[c][n].said => waiting[c][n].on
              /\ sending[c][n].said => sending[c][n].on

\* What v says of a card is what claude c has to know of it.
Knows(v, c, card) ==
    /\ v.on <=> Is(c, card) /\ ~card.arch
    /\ Is(c, card) => v.col = card.col /\ v.txt = card.txt

\* The baseline of a change is how its claude knows the card, or of one that was changed
\* behind it.
BaseOK(e, c) == e.on => (e.base.arch => Is(c, e.base))
Known(v, w, s, c, card) ==
    /\ BaseOK(w, c) /\ BaseOK(s, c)
    /\ \/ ~w.on /\ ~s.on /\ Knows(v, c, card)
       \/ w.on /\ Knows(v, c, w.base)
       \/ s.on /\ Knows(v, c, s.base)
KnownOK ==
    \A c \in rows, n \in CardIds :
        <<c, n>> \notin cutoff => Known(view[c][n], waiting[c][n], sending[c][n], c, board.cards[n])

\* A comment is told once, to one claude.
Owes(q, n) == {c \in BoardClaudes : q[c][n].said}
SaidOK ==
    \A n \in CardIds : board.cards[n].col # 0 =>
        /\ board.cards[n].say = Silent \/ heard[n] # Silent => Owes(waiting, n) = {} /\ Owes(sending, n) = {}
        /\ heard[n] # Silent => heard[n] = board.cards[n].say
        /\ Owes(waiting, n) = {} \/ Owes(sending, n) = {}
        /\ \A c, d \in Owes(waiting, n) \cup Owes(sending, n) : c = d

BoardIInv == BoardFine(board) /\ OutboxTyped /\ QueuesOK /\ KnownOK /\ SaidOK

-----------------------------------------------------------------------------
\* Without takes out the one column it is asked to.
LEMMA WithoutOne ==
    ASSUME NEW s \in Seq(ColIds), \A i, j \in 1..Len(s) : s[i] = s[j] => i = j,
           NEW k \in 1..Len(s)
    PROVE  LET r == Without(s, s[k])
           IN  /\ r \in Seq(ColIds) /\ Len(r) = Len(s) - 1
               /\ \A i, j \in 1..Len(r) : r[i] = r[j] => i = j
               /\ \A i \in 1..Len(r) : r[i] # s[k] /\ \E j \in 1..Len(s) : r[i] = s[j]
               /\ \A j \in 1..Len(s) : j # k => \E i \in 1..Len(r) : r[i] = s[j]
<1> DEFINE r == Without(s, s[k])
           a == SubSeq(s, 1, k - 1)
           z == SubSeq(s, k + 1, Len(s))
<1>1. DOMAIN s = 1..Len(s) /\ Len(s) \in Nat
  BY LenProperties
<1>2. (CHOOSE i \in DOMAIN s : s[i] = s[k]) = k
  BY <1>1
<1>3. r = a \o z
  BY <1>2 DEF Without, RemoveAt
<1>4. a \in Seq(ColIds) /\ Len(a) = k - 1 /\ \A i \in 1..(k - 1) : a[i] = s[i]
  BY <1>1, SubSeqProperties
<1>5. z \in Seq(ColIds) /\ Len(z) = Len(s) - k /\ \A i \in 1..(Len(s) - k) : z[i] = s[k + i]
  <2>1. \A i \in (k + 1)..Len(s) : s[i] \in ColIds
    BY <1>1
  <2>2. /\ z \in Seq(ColIds) /\ Len(z) = IF k + 1 <= Len(s) THEN Len(s) - (k + 1) + 1 ELSE 0
        /\ \A i \in 1..(Len(s) - (k + 1) + 1) : z[i] = s[k + 1 + i - 1]
    BY <1>1, <2>1, SubSeqProperties
  <2> HIDE DEF z
  <2>3. Len(z) = Len(s) - k
    <3>1. \A l \in Nat : \A i \in 1..l : (IF i + 1 <= l THEN l - (i + 1) + 1 ELSE 0) = l - i
      OBVIOUS
    <3> QED BY <1>1, <2>2, <3>1
  <2>4. Len(s) - (k + 1) + 1 = Len(s) - k /\ \A i \in Int : k + 1 + i - 1 = k + i
    BY <1>1
  <2>5. 1..(Len(s) - (k + 1) + 1) = 1..(Len(s) - k)
    BY <2>4
  <2>6. \A i \in 1..(Len(s) - k) : z[i] = s[k + i]
    <3> TAKE i \in 1..(Len(s) - k)
    <3>1. z[i] = s[k + 1 + i - 1] /\ i \in Int
      BY <2>2, <2>5
    <3> QED BY <2>4, <3>1
  <2> QED BY <2>2, <2>3, <2>6
<1> HIDE DEF r, a, z
<1>6. r \in Seq(ColIds) /\ Len(r) = Len(s) - 1
  <2>1. r \in Seq(ColIds) /\ Len(r) = Len(a) + Len(z)
    BY ZenonT(30), <1>3, <1>4, <1>5, ConcatProperties
  <2> QED BY <1>1, <1>4, <1>5, <2>1
<1>7. \A i \in 1..Len(r) : r[i] = IF i < k THEN s[i] ELSE s[i + 1]
  <2> TAKE i \in 1..Len(r)
  <2>1. i \in 1..(Len(s) - 1) /\ Len(s) - 1 = (k - 1) + (Len(s) - k)
    BY <1>1, <1>6
  <2>2. CASE i < k
    <3>1. i \in 1..(k - 1)
      BY <2>1, <2>2
    <3>2. r[i] = a[i]
      BY <1>3, <1>4, <1>5, <3>1, ConcatLies
    <3> QED BY <1>4, <2>2, <3>1, <3>2
  <2>3. CASE ~(i < k)
    <3>1. /\ i \in ((k - 1) + 1)..((k - 1) + (Len(s) - k)) /\ i - (k - 1) \in 1..(Len(s) - k)
          /\ k + (i - (k - 1)) = i + 1
      BY <1>1, <2>1, <2>3
    <3>2. r[i] = z[i - (k - 1)]
      BY <1>3, <1>4, <1>5, <3>1, ConcatLies
    <3>3. z[i - (k - 1)] = s[k + (i - (k - 1))]
      BY <1>5, <3>1
    <3> QED BY <2>3, <3>1, <3>2, <3>3
  <2> QED BY <2>2, <2>3
<1>8. \A i, j \in 1..Len(r) : r[i] = r[j] => i = j
  <2> DEFINE o(i) == IF i < k THEN i ELSE i + 1
  <2>1. \A i \in 1..Len(r) : o(i) \in 1..Len(s) /\ r[i] = s[o(i)]
    BY <1>1, <1>6, <1>7
  <2>2. \A i, j \in 1..Len(r) : o(i) = o(j) => i = j
    BY <1>1, <1>6
  <2> HIDE DEF o
  <2> TAKE i, j \in 1..Len(r)
  <2> HAVE r[i] = r[j]
  <2>3. o(i) = o(j)
    BY <2>1
  <2> QED BY <2>2, <2>3
<1>9. \A i \in 1..Len(r) : r[i] # s[k] /\ \E j \in 1..Len(s) : r[i] = s[j]
  BY <1>1, <1>6, <1>7
<1>10. ASSUME NEW j \in 1..Len(s), j # k PROVE \E i \in 1..Len(r) : r[i] = s[j]
  <2>1. CASE j < k
    BY <1>1, <1>6, <1>7, <2>1
  <2>2. CASE j > k
    <3>1. j - 1 \in 1..Len(r) /\ r[j - 1] = s[j]
      BY <1>1, <1>6, <1>7, <2>2
    <3> QED BY <3>1
  <2> QED BY <1>10, <2>1, <2>2
<1> QED BY <1>6, <1>8, <1>9, <1>10 DEF r

\* InsertAt adds one column and keeps the others.
LEMMA InsertOne ==
    ASSUME NEW s \in Seq(ColIds), \A i, j \in 1..Len(s) : s[i] = s[j] => i = j,
           NEW e \in ColIds, \A i \in 1..Len(s) : s[i] # e, NEW k \in 1..(Len(s) + 1)
    PROVE  LET r == InsertAt(s, k, e)
           IN  /\ r \in Seq(ColIds) /\ Len(r) = Len(s) + 1
               /\ \A i, j \in 1..Len(r) : r[i] = r[j] => i = j
               /\ \A i \in 1..Len(r) : r[i] = e \/ \E j \in 1..Len(s) : r[i] = s[j]
               /\ \E i \in 1..Len(r) : r[i] = e
               /\ \A j \in 1..Len(s) : \E i \in 1..Len(r) : r[i] = s[j]
<1> DEFINE r == InsertAt(s, k, e)
           a == SubSeq(s, 1, k - 1)
           z == SubSeq(s, k, Len(s))
           ae == a \o <<e>>
<1>1. Len(s) \in Nat
  BY LenProperties
<1>2. r = ae \o z
  BY DEF InsertAt
<1>3. a \in Seq(ColIds) /\ Len(a) = k - 1 /\ \A i \in 1..(k - 1) : a[i] = s[i]
  BY <1>1, SubSeqProperties
<1>4. z \in Seq(ColIds) /\ Len(z) = Len(s) - k + 1 /\ \A i \in 1..(Len(s) - k + 1) : z[i] = s[k + i - 1]
  BY <1>1, SubSeqProperties
<1>5. <<e>> \in Seq(ColIds) /\ Len(<<e>>) = 1 /\ <<e>>[1] = e
  OBVIOUS
<1> HIDE DEF a, z, r
<1>6. ae \in Seq(ColIds) /\ Len(ae) = k /\ \A i \in 1..k : ae[i] = IF i < k THEN s[i] ELSE e
  <2>1. ae \in Seq(ColIds) /\ Len(ae) = k
    BY <1>1, <1>3, <1>5, ConcatProperties
  <2>2. \A i \in 1..k : ae[i] = IF i <= Len(a) THEN a[i] ELSE <<e>>[i - Len(a)]
    BY <1>1, <1>3, <1>5, ConcatProperties
  <2> HIDE DEF ae
  <2> QED BY <1>1, <1>3, <1>5, <2>1, <2>2
<1> HIDE DEF ae
<1>7. r \in Seq(ColIds) /\ Len(r) = Len(s) + 1
  <2>1. r \in Seq(ColIds) /\ Len(r) = Len(ae) + Len(z)
    BY ZenonT(30), <1>2, <1>4, <1>6, ConcatProperties
  <2> QED BY <1>1, <1>4, <1>6, <2>1
<1>8. \A i \in 1..Len(r) : r[i] = IF i < k THEN s[i] ELSE IF i = k THEN e ELSE s[i - 1]
  <2> TAKE i \in 1..Len(r)
  <2>1. r[i] = IF i <= Len(ae) THEN ae[i] ELSE z[i - Len(ae)]
    BY <1>2, <1>4, <1>6, <1>7, ConcatProperties
  <2> QED BY <1>1, <1>4, <1>6, <1>7, <2>1
<1>9. \A i, j \in 1..Len(r) : r[i] = r[j] => i = j
  <2> SUFFICES ASSUME NEW i \in 1..Len(r), NEW j \in 1..Len(r), i < j PROVE r[i] # r[j]
    BY <1>1, <1>7
  <2>1. CASE i = k
    BY <1>1, <1>7, <1>8, <2>1
  <2>2. CASE j = k
    BY <1>1, <1>7, <1>8, <2>2
  <2>3. CASE i < k /\ j > k
    BY <1>1, <1>7, <1>8, <2>3
  <2>4. CASE i < k /\ j < k
    BY <1>1, <1>7, <1>8, <2>4
  <2>5. CASE i > k /\ j > k
    <3>1. i - 1 \in 1..Len(s) /\ j - 1 \in 1..Len(s) /\ i - 1 # j - 1
      BY <1>1, <1>7, <2>5
    <3>2. r[i] = s[i - 1] /\ r[j] = s[j - 1]
      BY <1>1, <1>7, <1>8, <2>5
    <3> QED BY <3>1, <3>2
  <2> QED BY <1>1, <1>7, <2>1, <2>2, <2>3, <2>4, <2>5
<1>10. \A i \in 1..Len(r) : r[i] = e \/ \E j \in 1..Len(s) : r[i] = s[j]
  BY <1>1, <1>7, <1>8
<1>11. k \in 1..Len(r) /\ r[k] = e
  BY <1>1, <1>7, <1>8
<1>12. ASSUME NEW j \in 1..Len(s) PROVE \E i \in 1..Len(r) : r[i] = s[j]
  <2>1. CASE j < k
    BY <1>1, <1>7, <1>8, <2>1
  <2>2. CASE ~(j < k)
    <3>1. j + 1 \in 1..Len(r) /\ r[j + 1] = s[j]
      BY <1>1, <1>7, <1>8, <2>2
    <3> QED BY <3>1
  <2> QED BY <2>1, <2>2
<1> QED BY <1>7, <1>9, <1>10, <1>11, <1>12 DEF r

-----------------------------------------------------------------------------
(* The columns.                                                             *)

\* What a change of columns may do to cards: it moves an archived one without a word, and
\* tells the assignee of the others it moves or archives.
ColsGood(b, r) ==
    /\ r.news \in [BoardClaudes -> SUBSET CardIds]
    /\ r.b.made = b.made
    /\ \A n \in CardIds :
          /\ r.b.cards[n].owner = b.cards[n].owner /\ r.b.cards[n].txt = b.cards[n].txt
          /\ r.b.cards[n].say = b.cards[n].say /\ (r.b.cards[n].col = 0 <=> b.cards[n].col = 0)
          /\ \A c \in BoardClaudes :
                /\ n \in r.news[c] => b.cards[n].owner = c /\ b.cards[n].col # 0
                /\ b.cards[n].owner = c /\ n \notin r.news[c]
                      => /\ r.b.cards[n].arch = b.cards[n].arch
                         /\ r.b.cards[n].col = b.cards[n].col \/ b.cards[n].arch

LEMMA SameCardsGood ==
    ASSUME NEW b, NEW r, r.news = Nothing, r.b.made = b.made, r.b.cards = b.cards
    PROVE  ColsGood(b, r)
BY DEF ColsGood, Nothing

LEMMA ColsOf ==
    ASSUME NEW s \in Seq(ColIds), NEW col
    PROVE  /\ DOMAIN s = 1..Len(s) /\ Len(s) \in Nat
           /\ col \in Range(s) <=> Among(col, s)
BY LenProperties DEF Range, Among

LEMMA AddColGood ==
    ASSUME NEW b, BoardFine(b)
    PROVE  BoardFine(AddCol(b).b) /\ ColsGood(b, AddCol(b))
<1>1. CASE b.madeCols = MaxCols
  <2>1. AddCol(b) = [ok |-> FALSE, b |-> b, news |-> Nothing]
    BY <1>1 DEF AddCol, Refused
  <2> QED BY <2>1, SameCardsGood
<1>2. CASE b.madeCols # MaxCols
  <2> DEFINE m == b.madeCols + 1
             t == Append(b.cols, m)
             b2 == [b EXCEPT !.cols = t, !.madeCols = m]
  <2>1. AddCol(b) = [ok |-> TRUE, b |-> b2, news |-> Nothing]
    BY <1>2 DEF AddCol, Done
  <2>2. /\ m \in ColIds /\ b.cols \in Seq(ColIds) /\ Len(b.cols) \in Nat /\ b.madeCols \in Nat
        /\ \A i \in 1..Len(b.cols) : b.cols[i] \in Nat /\ b.cols[i] <= b.madeCols
        /\ ColsFine(b.cols, b.madeCols)
    <3>1. b.cols \in Seq(ColIds) /\ b.madeCols \in ColIds /\ ColsFine(b.cols, b.madeCols)
      BY DEF BoardFine
    <3>2. \A i \in 1..Len(b.cols) : b.cols[i] \in ColIds
      BY <3>1, ElementOfSeq
    <3> QED BY <1>2, <3>1, <3>2, LenProperties, BoardAssumption DEF ColIds, ColsFine
  <2>3. t \in Seq(ColIds) /\ Len(t) = Len(b.cols) + 1 /\ t[Len(b.cols) + 1] = m
        /\ \A i \in 1..Len(b.cols) : t[i] = b.cols[i]
    BY <2>2, AppendProperties
  <2> HIDE DEF t
  <2>4. b2 = [cols |-> t, cards |-> b.cards, made |-> b.made, madeCols |-> m]
    <3>1. b = [cols |-> b.cols, cards |-> b.cards, made |-> b.made, madeCols |-> b.madeCols]
      BY DEF BoardFine
    <3> DEFINE x == [cols |-> t, cards |-> b.cards, made |-> b.made, madeCols |-> m]
    <3>2. DOMAIN b = {"cols", "cards", "made", "madeCols"}
      BY <3>1
    <3>3. DOMAIN b2 = DOMAIN x /\ DOMAIN b2 = {"cols", "cards", "made", "madeCols"}
      BY <3>2
    <3>4. b2["cols"] = t /\ b2["cards"] = b.cards /\ b2["made"] = b.made /\ b2["madeCols"] = m
      BY <3>2
    <3>5. b2 = [f \in DOMAIN b2 |-> b2[f]] /\ x = [f \in DOMAIN x |-> x[f]]
      OBVIOUS
    <3> HIDE DEF b2
    <3> QED BY <3>3, <3>4, <3>5
  <2>5. ColsFine(t, m)
    <3>1. \A i \in 1..Len(b.cols) : b.cols[i] < m
      BY <2>2
    <3>2. \A i \in 1..Len(t) : t[i] = IF i <= Len(b.cols) THEN b.cols[i] ELSE m
      BY <2>2, <2>3
    <3>3. \A i, j \in 1..Len(b.cols) : b.cols[i] = b.cols[j] => i = j
      BY <2>2 DEF ColsFine
    <3>4. \A i, j \in 1..Len(t) : t[i] = t[j] => i = j
      <4> TAKE i, j \in 1..Len(t)
      <4> HAVE t[i] = t[j]
      <4>1. CASE i <= Len(b.cols) /\ j <= Len(b.cols)
        BY <2>2, <2>3, <3>2, <3>3, <4>1
      <4>2. CASE i > Len(b.cols) /\ j > Len(b.cols)
        BY <2>2, <2>3, <4>2
      <4>3. CASE i <= Len(b.cols) /\ j > Len(b.cols)
        BY <2>2, <2>3, <3>1, <3>2, <4>3
      <4>4. CASE i > Len(b.cols) /\ j <= Len(b.cols)
        BY <2>2, <2>3, <3>1, <3>2, <4>4
      <4> QED BY <2>2, <2>3, <4>1, <4>2, <4>3, <4>4
    <3>5. \A i \in 1..Len(t) : t[i] <= m
      BY <2>2, <2>3, <3>1, <3>2
    <3> QED BY <2>2, <2>3, <3>4, <3>5 DEF ColsFine
  <2>6. \A col : Among(col, b.cols) => Among(col, t)
    BY <2>2, <2>3 DEF Among
  <2>7. BoardFine(b2)
    BY <2>2, <2>3, <2>4, <2>5, <2>6 DEF BoardFine
  <2> HIDE DEF b2
  <2> QED BY <2>1, <2>4, <2>7, SameCardsGood
<1> QED BY <1>1, <1>2

LEMMA MoveColGood ==
    ASSUME NEW b, BoardFine(b), NEW col, NEW before
    PROVE  BoardFine(MoveCol(b, col, before).b) /\ ColsGood(b, MoveCol(b, col, before))
<1>1. CASE col \notin Cols(b)
  <2>1. MoveCol(b, col, before) = [ok |-> FALSE, b |-> b, news |-> Nothing]
    BY <1>1 DEF MoveCol, Refused
  <2> QED BY <2>1, SameCardsGood
<1>2. CASE col \in Cols(b)
  <2> DEFINE rest == Without(b.cols, col)
             at == IF before \in Range(rest) THEN CHOOSE i \in DOMAIN rest : rest[i] = before
                   ELSE Len(rest) + 1
             t == InsertAt(rest, at, col)
             b2 == [b EXCEPT !.cols = t]
  <2>1. MoveCol(b, col, before) = [ok |-> TRUE, b |-> b2, news |-> Nothing]
    BY <1>2 DEF MoveCol, Done
  <2>2. b.cols \in Seq(ColIds) /\ Len(b.cols) \in Nat /\ ColsFine(b.cols, b.madeCols)
        /\ b.madeCols \in ColIds
    BY LenProperties DEF BoardFine
  <2>3. PICK k \in 1..Len(b.cols) : col = b.cols[k]
    BY <1>2, <2>2, ColsOf DEF Cols, Among
  <2>4. /\ rest \in Seq(ColIds) /\ Len(rest) = Len(b.cols) - 1
        /\ \A i, j \in 1..Len(rest) : rest[i] = rest[j] => i = j
        /\ \A i \in 1..Len(rest) : rest[i] # col /\ \E j \in 1..Len(b.cols) : rest[i] = b.cols[j]
        /\ \A j \in 1..Len(b.cols) : j # k => \E i \in 1..Len(rest) : rest[i] = b.cols[j]
    <3>1. rest = Without(b.cols, b.cols[k])
      BY <2>3
    <3>2. b.cols \in Seq(ColIds) /\ \A i, j \in 1..Len(b.cols) : b.cols[i] = b.cols[j] => i = j
      BY <2>2 DEF ColsFine
    <3> DEFINE r == Without(b.cols, b.cols[k])
    <3>3. /\ r \in Seq(ColIds) /\ Len(r) = Len(b.cols) - 1
          /\ \A i, j \in 1..Len(r) : r[i] = r[j] => i = j
          /\ \A i \in 1..Len(r) : r[i] # b.cols[k] /\ \E j \in 1..Len(b.cols) : r[i] = b.cols[j]
          /\ \A j \in 1..Len(b.cols) : j # k => \E i \in 1..Len(r) : r[i] = b.cols[j]
      BY <3>2, WithoutOne
    <3>4. rest = r
      BY <3>1
    <3> HIDE DEF rest, r
    <3> QED BY <2>3, <3>3, <3>4
  <2> HIDE DEF rest
  <2>5. at \in 1..(Len(rest) + 1)
    BY <2>4, ColsOf DEF Range
  <2>6. col \in ColIds
    BY <2>2, <2>3, ElementOfSeq
  <2> HIDE DEF at
  <2>12. \A i \in 1..Len(rest) : rest[i] # col
    BY <2>4
  <2>13. rest \in Seq(ColIds) /\ \A i, j \in 1..Len(rest) : rest[i] = rest[j] => i = j
    BY <2>4
  <2>7. /\ t \in Seq(ColIds) /\ Len(t) = Len(rest) + 1
        /\ \A i, j \in 1..Len(t) : t[i] = t[j] => i = j
        /\ \A i \in 1..Len(t) : t[i] = col \/ \E j \in 1..Len(rest) : t[i] = rest[j]
        /\ \E i \in 1..Len(t) : t[i] = col
        /\ \A j \in 1..Len(rest) : \E i \in 1..Len(t) : t[i] = rest[j]
    BY <2>5, <2>6, <2>12, <2>13, InsertOne
  <2>8. b2 = [cols |-> t, cards |-> b.cards, made |-> b.made, madeCols |-> b.madeCols]
    BY DEF BoardFine
  <2> HIDE DEF t
  <2>9. ColsFine(t, b.madeCols)
    <3>1. ASSUME NEW i \in 1..Len(t) PROVE \E j \in 1..Len(b.cols) : t[i] = b.cols[j]
      <4>1. CASE t[i] = col
        BY <2>3, <4>1
      <4>2. ASSUME NEW l \in 1..Len(rest), t[i] = rest[l] PROVE \E j \in 1..Len(b.cols) : t[i] = b.cols[j]
        <5>1. \E j \in 1..Len(b.cols) : rest[l] = b.cols[j]
          BY <2>4
        <5> QED BY <4>2, <5>1
      <4> QED BY <2>7, <4>1, <4>2
    <3>2. \A j \in 1..Len(b.cols) : b.cols[j] <= b.madeCols
      BY <2>2 DEF ColsFine
    <3>3. \A i \in 1..Len(t) : t[i] <= b.madeCols
      BY <3>1, <3>2
    <3>4. Len(t) > 0
      BY <2>4, <2>7
    <3> QED BY <2>7, <3>3, <3>4 DEF ColsFine
  <2>10. \A x : Among(x, b.cols) => Among(x, t)
    <3> SUFFICES ASSUME NEW j \in 1..Len(b.cols) PROVE \E i \in 1..Len(t) : t[i] = b.cols[j]
      BY DEF Among
    <3>1. CASE j = k
      BY <2>3, <2>7, <3>1
    <3>2. CASE j # k
      <4>1. PICK h \in 1..Len(rest) : rest[h] = b.cols[j]
        BY <2>4, <3>2
      <4> QED BY <2>7, <4>1
    <3> QED BY <3>1, <3>2
  <2>11. BoardFine(b2)
    BY <2>2, <2>7, <2>8, <2>9, <2>10 DEF BoardFine
  <2> HIDE DEF b2
  <2> QED BY <2>1, <2>8, <2>11, SameCardsGood
<1> QED BY <1>1, <1>2

\* What DeleteCol makes of a card.
DeletedTo(b, col, to) == IF to = 0 THEN Without(b.cols, col)[1] ELSE to
Deletes(b, r, col, to) ==
    /\ r.b = [cols |-> Without(b.cols, col), cards |-> r.b.cards, made |-> b.made, madeCols |-> b.madeCols]
    /\ r.b.cols = Without(b.cols, col) /\ r.b.made = b.made /\ r.b.madeCols = b.madeCols
    /\ r.b.cards = [n \in CardIds |-> r.b.cards[n]]
    /\ \A n \in CardIds :
          r.b.cards[n] = IF b.cards[n].col = col
                         THEN [col |-> DeletedTo(b, col, to), owner |-> b.cards[n].owner, txt |-> b.cards[n].txt,
                               arch |-> b.cards[n].arch \/ to = 0, say |-> b.cards[n].say]
                         ELSE b.cards[n]
    /\ r.news \in [BoardClaudes -> SUBSET CardIds]
    /\ \A n \in CardIds, c \in BoardClaudes :
          n \in r.news[c] <=> b.cards[n].col = col /\ ~b.cards[n].arch /\ b.cards[n].owner = c

LEMMA DeletedCards ==
    ASSUME NEW b, BoardFine(b), NEW col, NEW to, Deletable(b, col, to),
           NEW r, r = DeleteCol(b, col, to)
    PROVE  Deletes(b, r, col, to)
<1> DEFINE rest == Without(b.cols, col)
           at == IF to = 0 THEN rest[1] ELSE to
           cs == [n \in CardIds |->
                     IF b.cards[n].col = col
                     THEN [b.cards[n] EXCEPT !.col = at, !.arch = b.cards[n].arch \/ to = 0]
                     ELSE b.cards[n]]
           b2 == [b EXCEPT !.cols = rest, !.cards = cs]
           news == [c \in BoardClaudes |->
                     {n \in CardIds : b.cards[n].col = col /\ ~b.cards[n].arch /\ b.cards[n].owner = c /\ c # Nobody}]
<1>1. r.b = b2
  BY DEF DeleteCol, Done, HeldBy
<1>2. r.news = news
  BY DEF DeleteCol, Done, HeldBy, Tell
<1> HIDE DEF rest, cs, news
<1>3. b2 = [cols |-> rest, cards |-> cs, made |-> b.made, madeCols |-> b.madeCols]
  <2> DEFINE x == [cols |-> rest, cards |-> cs, made |-> b.made, madeCols |-> b.madeCols]
  <2>1. b = [cols |-> b.cols, cards |-> b.cards, made |-> b.made, madeCols |-> b.madeCols]
    BY DEF BoardFine
  <2>2. DOMAIN b = {"cols", "cards", "made", "madeCols"}
    BY <2>1
  <2>3. DOMAIN b2 = DOMAIN x /\ DOMAIN b2 = {"cols", "cards", "made", "madeCols"}
    BY <2>2
  <2>4. b2["cols"] = rest /\ b2["cards"] = cs /\ b2["made"] = b.made /\ b2["madeCols"] = b.madeCols
    BY <2>2
  <2>5. b2 = [f \in DOMAIN b2 |-> b2[f]] /\ x = [f \in DOMAIN x |-> x[f]]
    OBVIOUS
  <2> HIDE DEF b2
  <2> QED BY <2>3, <2>4, <2>5
<1> HIDE DEF b2
<1>4. /\ r.b = [cols |-> rest, cards |-> r.b.cards, made |-> b.made, madeCols |-> b.madeCols]
      /\ r.b.cols = rest /\ r.b.made = b.made /\ r.b.madeCols = b.madeCols /\ r.b.cards = cs
  BY <1>1, <1>3
<1>5. cs = [n \in CardIds |-> cs[n]]
  BY DEF cs
<1>6. \A n \in CardIds : cs[n] = IF b.cards[n].col = col
                                THEN [col |-> DeletedTo(b, col, to), owner |-> b.cards[n].owner, txt |-> b.cards[n].txt,
                                      arch |-> b.cards[n].arch \/ to = 0, say |-> b.cards[n].say]
                                ELSE b.cards[n]
  <2> SUFFICES ASSUME NEW n \in CardIds, b.cards[n].col = col
               PROVE  cs[n] = [col |-> DeletedTo(b, col, to), owner |-> b.cards[n].owner, txt |-> b.cards[n].txt,
                               arch |-> b.cards[n].arch \/ to = 0, say |-> b.cards[n].say]
    BY DEF cs
  <2>1. at = DeletedTo(b, col, to)
    BY DEF DeletedTo, rest
  <2>2. b.cards[n] \in BoardCard
    BY DEF BoardFine
  <2> HIDE DEF at
  <2>3. cs[n] = [b.cards[n] EXCEPT !.col = at, !.arch = b.cards[n].arch \/ to = 0]
    BY DEF cs
  <2> QED BY <2>1, <2>2, <2>3 DEF BoardCard
<1>7. r.news \in [BoardClaudes -> SUBSET CardIds]
  BY <1>2 DEF news
<1>8. \A n \in CardIds, c \in BoardClaudes :
         n \in r.news[c] <=> b.cards[n].col = col /\ ~b.cards[n].arch /\ b.cards[n].owner = c
  BY <1>2, BoardAssumption DEF news
<1> QED BY <1>4, <1>5, <1>6, <1>7, <1>8 DEF rest, Deletes

LEMMA DeleteColGood ==
    ASSUME NEW b, BoardFine(b), NEW col, NEW to
    PROVE  BoardFine(DeleteCol(b, col, to).b) /\ ColsGood(b, DeleteCol(b, col, to))
<1>1. CASE ~Deletable(b, col, to)
  <2>1. DeleteCol(b, col, to) = [ok |-> FALSE, b |-> b, news |-> Nothing]
    BY <1>1 DEF DeleteCol, Refused
  <2> QED BY <2>1, SameCardsGood
<1>2. CASE Deletable(b, col, to)
  <2> DEFINE r == DeleteCol(b, col, to)
             rest == Without(b.cols, col)
             at == DeletedTo(b, col, to)
  <2>1. /\ r.b = [cols |-> rest, cards |-> r.b.cards, made |-> b.made, madeCols |-> b.madeCols]
        /\ r.b.cols = rest /\ r.b.made = b.made /\ r.b.madeCols = b.madeCols
        /\ r.b.cards = [n \in CardIds |-> r.b.cards[n]]
        /\ \A n \in CardIds : r.b.cards[n] = IF b.cards[n].col = col
                              THEN [col |-> at, owner |-> b.cards[n].owner, txt |-> b.cards[n].txt,
                                    arch |-> b.cards[n].arch \/ to = 0, say |-> b.cards[n].say]
                              ELSE b.cards[n]
        /\ r.news \in [BoardClaudes -> SUBSET CardIds]
        /\ \A n \in CardIds, c \in BoardClaudes :
              n \in r.news[c] <=> b.cards[n].col = col /\ ~b.cards[n].arch /\ b.cards[n].owner = c
    <3>1. r = DeleteCol(b, col, to)
      OBVIOUS
    <3> HIDE DEF r
    <3>2. Deletes(b, r, col, to)
      BY <1>2, <3>1, DeletedCards
    <3> QED BY <3>2 DEF Deletes
  <2> HIDE DEF r
  <2>2. b.cols \in Seq(ColIds) /\ Len(b.cols) \in Nat /\ ColsFine(b.cols, b.madeCols)
        /\ b.madeCols \in ColIds
    BY LenProperties DEF BoardFine
  <2>3. Len(b.cols) > 1 /\ col \in Range(b.cols) /\ to # col /\ (to = 0 \/ to \in Range(b.cols))
    BY <1>2 DEF Deletable, Cols
  <2>4. PICK k \in 1..Len(b.cols) : col = b.cols[k]
    BY <2>2, <2>3, ColsOf DEF Among
  <2>5. /\ rest \in Seq(ColIds) /\ Len(rest) = Len(b.cols) - 1
        /\ \A i, j \in 1..Len(rest) : rest[i] = rest[j] => i = j
        /\ \A i \in 1..Len(rest) : \E j \in 1..Len(b.cols) : rest[i] = b.cols[j]
        /\ \A j \in 1..Len(b.cols) : j # k => \E i \in 1..Len(rest) : rest[i] = b.cols[j]
    <3> DEFINE w == Without(b.cols, b.cols[k])
    <3>1. b.cols \in Seq(ColIds) /\ \A i, j \in 1..Len(b.cols) : b.cols[i] = b.cols[j] => i = j
      BY <2>2 DEF ColsFine
    <3>2. /\ w \in Seq(ColIds) /\ Len(w) = Len(b.cols) - 1
          /\ \A i, j \in 1..Len(w) : w[i] = w[j] => i = j
          /\ \A i \in 1..Len(w) : w[i] # b.cols[k] /\ \E j \in 1..Len(b.cols) : w[i] = b.cols[j]
          /\ \A j \in 1..Len(b.cols) : j # k => \E i \in 1..Len(w) : w[i] = b.cols[j]
      BY <3>1, WithoutOne
    <3>3. rest = w
      BY <2>4
    <3> HIDE DEF rest, w
    <3> QED BY <3>2, <3>3
  <2> HIDE DEF rest
  <2>6. ColsFine(rest, b.madeCols)
    BY <2>2, <2>3, <2>5 DEF ColsFine
  <2>7. Among(at, rest) /\ at \in Nat /\ at # 0
    <3>1. CASE to = 0
      <4>1. at = rest[1] /\ 1 \in 1..Len(rest)
        BY <2>2, <2>3, <2>5, <3>1 DEF DeletedTo, rest
      <4>2. rest[1] \in ColIds
        BY <2>5, <4>1, ElementOfSeq
      <4> QED BY <4>1, <4>2 DEF Among, ColIds
    <3>2. CASE to # 0
      <4>1. PICK j \in 1..Len(b.cols) : to = b.cols[j]
        BY <2>2, <2>3, <3>2, ColsOf DEF Among
      <4>2. j # k
        BY <2>3, <2>4, <4>1
      <4>3. PICK i \in 1..Len(rest) : rest[i] = to
        BY <2>5, <4>1, <4>2
      <4>4. to \in ColIds
        BY <2>5, <4>3, ElementOfSeq
      <4> QED BY <3>2, <4>3, <4>4 DEF Among, ColIds, DeletedTo
    <3> QED BY <3>1, <3>2
  <2>8. \A x : Among(x, b.cols) /\ x # col => Among(x, rest)
    BY <2>4, <2>5 DEF Among
  <2> HIDE DEF at
  <2>9. col \in Nat /\ col # 0
    <3>1. col \in ColIds
      BY <2>2, <2>4, ElementOfSeq
    <3> QED BY <3>1 DEF ColIds
  <2>10. \A n \in CardIds : b.cards[n] \in BoardCard
    BY DEF BoardFine
  <2>11. ASSUME NEW n \in CardIds
         PROVE  /\ r.b.cards[n] \in BoardCard
                /\ r.b.cards[n].owner = b.cards[n].owner /\ r.b.cards[n].txt = b.cards[n].txt
                /\ r.b.cards[n].say = b.cards[n].say
                /\ b.cards[n].col = col => r.b.cards[n].col = at /\ r.b.cards[n].arch = (b.cards[n].arch \/ to = 0)
                /\ b.cards[n].col # col => r.b.cards[n] = b.cards[n]
    <3>1. CASE b.cards[n].col = col
      <4>1. r.b.cards[n] = [col |-> at, owner |-> b.cards[n].owner, txt |-> b.cards[n].txt,
                            arch |-> b.cards[n].arch \/ to = 0, say |-> b.cards[n].say]
        BY <2>1, <3>1
      <4> QED BY <2>7, <2>10, <3>1, <4>1 DEF BoardCard
    <3>2. CASE b.cards[n].col # col
      BY <2>1, <2>10, <3>2
    <3> QED BY <3>1, <3>2
  <2>12. BoardFine(r.b)
    <3>1. r.b.cards \in [CardIds -> BoardCard]
      BY <2>1, <2>11
    <3>2. \A n \in CardIds : n > b.made => r.b.cards[n] = NoCard
      <4>1. \A n \in CardIds : n > b.made => b.cards[n] = NoCard
        BY DEF BoardFine
      <4>2. NoCard.col = 0
        BY DEF NoCard
      <4> QED BY <2>9, <2>11, <4>1, <4>2
    <3>3. \A n \in CardIds : r.b.cards[n].col # 0 => Among(r.b.cards[n].col, rest)
      BY <2>7, <2>8, <2>11 DEF BoardFine
    <3>4. b.made \in 0..MaxCards
      BY DEF BoardFine
    <3>5. r.b \in [cols : Seq(ColIds), cards : [CardIds -> BoardCard], made : 0..MaxCards, madeCols : ColIds]
      <4> QED BY <2>1, <2>2, <2>5, <3>1, <3>4
    <3> QED BY <2>6, <2>1, <3>2, <3>3, <3>5 DEF BoardFine
  <2>13. ColsGood(b, r)
    <3>1. r.news \in [BoardClaudes -> SUBSET CardIds] /\ r.b.made = b.made
      BY <2>1
    <3> SUFFICES ASSUME NEW n \in CardIds, NEW c \in BoardClaudes
                 PROVE  /\ r.b.cards[n].col = 0 <=> b.cards[n].col = 0
                        /\ n \in r.news[c] => b.cards[n].owner = c /\ b.cards[n].col # 0
                        /\ b.cards[n].owner = c /\ n \notin r.news[c]
                              => /\ r.b.cards[n].arch = b.cards[n].arch
                                 /\ r.b.cards[n].col = b.cards[n].col \/ b.cards[n].arch
      BY <2>7, <2>9, <2>11, <3>1 DEF ColsGood
    <3>2. r.b.cards[n].col = 0 <=> b.cards[n].col = 0
      BY <2>7, <2>9, <2>11
    <3>3. n \in r.news[c] <=> b.cards[n].col = col /\ ~b.cards[n].arch /\ b.cards[n].owner = c
      BY <2>1
    <3>4. c # Nobody
      BY BoardAssumption
    <3> QED BY <2>9, <2>10, <2>11, <3>2, <3>3, <3>4 DEF BoardCard
  <2> QED BY <2>12, <2>13 DEF r
<1> QED BY <1>1, <1>2

-----------------------------------------------------------------------------
(* A proposal: its changes one after the other.                             *)

Outcome(b, r) ==
    /\ r = [ok |-> r.ok, b |-> r.b, news |-> r.news, added |-> r.added]
    /\ BoardFine(r.b) /\ ColsGood(b, r)

LEMMA ColsGoodAfter ==
    ASSUME NEW b, NEW r, NEW s, ColsGood(b, r), ColsGood(r.b, s),
           NEW t, t.b = s.b, t.news = And(r.news, s.news)
    PROVE  ColsGood(b, t)
<1>1. t.news \in [BoardClaudes -> SUBSET CardIds]
      /\ \A c \in BoardClaudes : t.news[c] = r.news[c] \cup s.news[c]
  BY DEF ColsGood, And
<1>2. t.b.made = b.made
  BY DEF ColsGood
<1>3. ASSUME NEW n \in CardIds
      PROVE  /\ t.b.cards[n].owner = b.cards[n].owner /\ t.b.cards[n].txt = b.cards[n].txt
             /\ t.b.cards[n].say = b.cards[n].say /\ (t.b.cards[n].col = 0 <=> b.cards[n].col = 0)
             /\ \A c \in BoardClaudes :
                   /\ n \in t.news[c] => b.cards[n].owner = c /\ b.cards[n].col # 0
                   /\ b.cards[n].owner = c /\ n \notin t.news[c]
                         => /\ t.b.cards[n].arch = b.cards[n].arch
                            /\ t.b.cards[n].col = b.cards[n].col \/ b.cards[n].arch
  BY <1>1, <1>3 DEF ColsGood
<1> QED BY <1>1, <1>2, <1>3 DEF ColsGood

LEMMA NothingMoreGood ==
    ASSUME NEW b, NEW r, NEW s, NEW q, ColsGood(b, r), r.b = q.b, r.news = q.news
    PROVE  ColsGood(b, q)
BY DEF ColsGood

ChangeRec == [op : {"add", "move", "delete"}, col : Nat, to : Nat]

\* Each change keeps the board fine and tells who it has to.
LEMMA ApplyChangeGood ==
    ASSUME NEW b, NEW r, Outcome(b, r), NEW ch \in ChangeRec
    PROVE  Outcome(b, ApplyChange(r, ch))
<1> DEFINE col == Resolve(ch.col, r.added)
           to == Resolve(ch.to, r.added)
           grown == AddCol(r.b)
           gone == {col, to} \ (Cols(r.b) \cup {0}) # {}
           s == CASE ch.op = "add" /\ (to = 0 \/ ~grown.ok) -> grown
                  [] ch.op = "add" /\ to # 0 /\ grown.ok -> MoveCol(grown.b, grown.b.madeCols, to)
                  [] ch.op = "move" -> MoveCol(r.b, col, to)
                  [] ch.op = "delete" -> DeleteCol(r.b, col, to)
           failed == [r EXCEPT !.ok = FALSE]
           changed == [ok |-> TRUE, b |-> s.b, news |-> And(r.news, s.news),
                       added |-> IF ch.op = "add" THEN s.b.madeCols ELSE r.added]
<1>1. ApplyChange(r, ch) = IF ~r.ok \/ gone \/ ~s.ok THEN failed ELSE changed
  BY DEF ApplyChange
<1>2. BoardFine(s.b) /\ ColsGood(r.b, s)
  <2>1. BoardFine(r.b)
    BY DEF Outcome
  <2>2. BoardFine(grown.b) /\ ColsGood(r.b, grown)
    BY <2>1, AddColGood
  <2> HIDE DEF grown
  <2>3. CASE ch.op = "add" /\ (to = 0 \/ ~grown.ok)
    <3>1. s = grown
      BY <2>3
    <3> HIDE DEF s
    <3> QED BY <2>2, <3>1
  <2>4. CASE ch.op = "add" /\ to # 0 /\ grown.ok
    <3> DEFINE m == MoveCol(grown.b, grown.b.madeCols, to)
    <3>1. s = m
      BY <2>4
    <3>2. BoardFine(m.b) /\ ColsGood(grown.b, m)
      BY <2>2, MoveColGood
    <3>3. grown.news = Nothing /\ m.news = Nothing
      BY DEF grown, AddCol, MoveCol, Refused, Done
    <3> HIDE DEF s, m
    <3>4. m.news = And(grown.news, m.news)
      BY <3>3 DEF And, Nothing
    <3>5. ColsGood(r.b, m)
      BY <2>2, <3>2, <3>4, ColsGoodAfter
    <3> QED BY <3>1, <3>2, <3>5
  <2>5. CASE ch.op = "move"
    <3>1. s = MoveCol(r.b, col, to)
      BY <2>5
    <3> HIDE DEF s
    <3> QED BY <2>1, <3>1, MoveColGood
  <2>6. CASE ch.op = "delete"
    <3>1. s = DeleteCol(r.b, col, to)
      BY <2>6
    <3> HIDE DEF s
    <3> QED BY <2>1, <3>1, DeleteColGood
  <2> QED BY <2>3, <2>4, <2>5, <2>6 DEF ChangeRec
<1> HIDE DEF s, gone
<1>3. CASE ~r.ok \/ gone \/ ~s.ok
  <2>1. ApplyChange(r, ch) = failed
    BY <1>1, <1>3
  <2>2. failed = [ok |-> FALSE, b |-> r.b, news |-> r.news, added |-> r.added]
    <3> DEFINE x == [ok |-> FALSE, b |-> r.b, news |-> r.news, added |-> r.added]
    <3>1. r = [ok |-> r.ok, b |-> r.b, news |-> r.news, added |-> r.added]
      BY DEF Outcome
    <3>2. DOMAIN r = {"ok", "b", "news", "added"}
      BY <3>1
    <3>3. DOMAIN failed = DOMAIN x
      BY <3>2
    <3>4. failed["ok"] = FALSE /\ failed["b"] = r.b /\ failed["news"] = r.news /\ failed["added"] = r.added
      BY <3>2
    <3>5. failed = [f \in DOMAIN failed |-> failed[f]] /\ x = [f \in DOMAIN x |-> x[f]]
      OBVIOUS
    <3> HIDE DEF failed
    <3> QED BY <3>2, <3>3, <3>4, <3>5
  <2> HIDE DEF failed
  <2>3. failed.b = r.b /\ failed.news = r.news
    BY <2>2
  <2>4. ColsGood(b, failed)
    BY <2>3, NothingMoreGood DEF Outcome
  <2> QED BY <2>1, <2>2, <2>3, <2>4 DEF Outcome
<1>4. CASE ~(~r.ok \/ gone \/ ~s.ok)
  <2>1. ApplyChange(r, ch) = changed
    BY <1>1, <1>4
  <2>2. changed.b = s.b /\ changed.news = And(r.news, s.news)
        /\ changed = [ok |-> changed.ok, b |-> changed.b, news |-> changed.news, added |-> changed.added]
    OBVIOUS
  <2> HIDE DEF changed
  <2>3. ColsGood(b, changed)
    BY <1>2, <2>2, ColsGoodAfter DEF Outcome
  <2> QED BY <1>2, <2>1, <2>2, <2>3 DEF Outcome
<1> QED BY <1>3, <1>4

Begun(b) == [ok |-> TRUE, b |-> b, news |-> Nothing, added |-> 0]
Steps(f, b, changes, k) ==
    f = [i \in 0..k |-> IF i = 0 THEN Begun(b) ELSE ApplyChange(f[i - 1], changes[i])]
After(b, changes) == CHOOSE f : Steps(f, b, changes, Len(changes))

\* The outcomes of the changes, one after the other, are a function.
LEMMA StepsExist ==
    ASSUME NEW b, NEW changes, NEW k \in Nat
    PROVE  \E f : Steps(f, b, changes, k)
<1> DEFINE S == {l \in Nat : ~\E f : Steps(f, b, changes, l)}
<1>1. SUFFICES ASSUME S # {} PROVE FALSE
  BY <1>1
<1>2. PICK l \in S : \A m \in S : l <= m
  BY <1>1, LeastNumber
<1>3. l # 0
  <2>1. Steps([i \in 0..0 |-> Begun(b)], b, changes, 0)
    BY DEF Steps
  <2> QED BY <2>1
<1>4. l \in Nat /\ l - 1 \in Nat /\ l - 1 \notin S
  BY <1>2, <1>3
<1>5. PICK g : Steps(g, b, changes, l - 1)
  BY <1>4
<1> DEFINE h == [i \in 0..l |-> IF i < l THEN g[i] ELSE ApplyChange(g[l - 1], changes[l])]
<1>6. DOMAIN h = 0..l /\ h = [i \in 0..l |-> h[i]]
  OBVIOUS
<1>7. \A i \in 0..l : h[i] = IF i = 0 THEN Begun(b) ELSE ApplyChange(h[i - 1], changes[i])
  <2> SUFFICES ASSUME NEW i \in 0..l
               PROVE  h[i] = IF i = 0 THEN Begun(b) ELSE ApplyChange(h[i - 1], changes[i])
    OBVIOUS
  <2>1. \A j \in 0..(l - 1) : h[j] = g[j]
    BY <1>4
  <2>2. h[l] = ApplyChange(g[l - 1], changes[l])
    BY <1>4
  <2>3. \A j \in 0..(l - 1) : g[j] = IF j = 0 THEN Begun(b) ELSE ApplyChange(g[j - 1], changes[j])
    BY <1>5 DEF Steps
  <2> HIDE DEF h
  <2>4. CASE i = l
    BY <1>3, <1>4, <2>1, <2>2, <2>4
  <2>5. CASE i = 0
    BY <1>3, <1>4, <2>1, <2>3, <2>5
  <2>6. CASE i # l /\ i # 0
    <3>1. i \in 0..(l - 1) /\ i - 1 \in 0..(l - 1)
      BY <1>4, <2>6
    <3>2. h[i] = g[i] /\ h[i - 1] = g[i - 1]
      BY <2>1, <3>1
    <3> QED BY <2>3, <2>6, <3>1, <3>2
  <2> QED BY <2>4, <2>5, <2>6
<1> HIDE DEF h
<1>8. Steps(h, b, changes, l)
  BY <1>6, <1>7 DEF Steps
<1> QED BY <1>2, <1>8

\* All the changes keep the board fine and tell who they have to.
LEMMA ApplyAllGood ==
    ASSUME NEW b, BoardFine(b), NEW changes \in Seq(ChangeRec)
    PROVE  Outcome(b, ApplyAll(b, changes))
<1> DEFINE f == After(b, changes)
<1>1. Len(changes) \in Nat /\ \A i \in 1..Len(changes) : changes[i] \in ChangeRec
  BY LenProperties, ElementOfSeq
<1>2. ApplyAll(b, changes) = f[Len(changes)]
  BY DEF ApplyAll, After, Steps, Begun
<1>3. Steps(f, b, changes, Len(changes))
  BY <1>1, StepsExist DEF After
<1> HIDE DEF f
<1>4. \A i \in 0..Len(changes) : f[i] = IF i = 0 THEN Begun(b) ELSE ApplyChange(f[i - 1], changes[i])
  BY <1>3 DEF Steps
<1> DEFINE S == {i \in 0..Len(changes) : ~Outcome(b, f[i])}
<1>5. SUFFICES ASSUME S # {} PROVE FALSE
  BY <1>1, <1>2, <1>5
<1>6. PICK l \in S : \A m \in S : l <= m
  <2>1. S \in SUBSET Nat
    BY <1>1
  <2> HIDE DEF S
  <2> QED BY <1>5, <2>1, LeastNumber
<1>7. CASE l = 0
  <2>1. f[0] = Begun(b)
    BY <1>1, <1>4
  <2>2. Begun(b).b = b /\ Begun(b).news = Nothing
        /\ Begun(b) = [ok |-> Begun(b).ok, b |-> Begun(b).b, news |-> Begun(b).news, added |-> Begun(b).added]
    BY DEF Begun
  <2>3. ColsGood(b, Begun(b))
    BY <2>2, SameCardsGood
  <2>4. Outcome(b, Begun(b))
    BY <2>2, <2>3 DEF Outcome
  <2> QED BY <1>6, <1>7, <2>1, <2>4
<1>8. CASE l # 0
  <2>1. l \in 1..Len(changes) /\ l - 1 \in 0..Len(changes) /\ ~(l <= l - 1)
    BY <1>1, <1>6, <1>8
  <2>2. Outcome(b, f[l - 1])
    BY <1>6, <2>1
  <2>3. f[l] = ApplyChange(f[l - 1], changes[l])
    BY <1>1, <1>4, <1>8, <2>1
  <2>4. Outcome(b, f[l])
    BY <1>1, <2>1, <2>2, <2>3, ApplyChangeGood
  <2> QED BY <1>6, <2>4
<1> QED BY <1>7, <1>8

LEMMA DecidedGood ==
    ASSUME NEW b, BoardFine(b), NEW changes \in Proposals, NEW r, r = Decided(b, changes)
    PROVE  BoardFine(r.b) /\ ColsGood(b, r)
<1>1. changes \in Seq(ChangeRec)
  <2>1. \A op \in {"add", "move", "delete"}, col \in Nat, to \in Nat : Change(op, col, to) \in ChangeRec
    BY DEF Change, ChangeRec
  <2>2. New \in Nat
    BY BoardAssumption DEF New
  <2>3. \A x \in ChangeRec : <<x>> \in Seq(ChangeRec)
    OBVIOUS
  <2>4. \A x, y \in ChangeRec : <<x, y>> \in Seq(ChangeRec)
    OBVIOUS
  <2>5. CASE \E to \in {0, 2} : changes = <<Change("delete", 1, to)>>
    BY <2>1, <2>3, <2>5
  <2>6. CASE changes = <<Change("add", 0, 1), Change("delete", 2, New)>>
    BY <2>1, <2>2, <2>4, <2>6
  <2> QED BY <2>5, <2>6 DEF Proposals
<1> DEFINE a == ApplyAll(b, changes)
<1>2. Outcome(b, a)
  BY <1>1, ApplyAllGood
<1> HIDE DEF a
<1>3. CASE a.ok
  <2>1. r = [ok |-> TRUE, b |-> a.b, news |-> a.news]
    BY <1>3 DEF Decided, Done, a
  <2>2. r.b = a.b /\ r.news = a.news
    BY <2>1
  <2> QED BY <1>2, <2>2, NothingMoreGood DEF Outcome
<1>4. CASE ~a.ok
  <2>1. r = [ok |-> FALSE, b |-> b, news |-> Nothing]
    BY <1>4 DEF Decided, Refused, a
  <2> QED BY <2>1, SameCardsGood
<1> QED BY <1>3, <1>4
-----------------------------------------------------------------------------
(* The cards.                                                               *)

\* An archived card that changes its column or its owner without a word to the owner.
Quiet(b, a, c, n) ==
    /\ a.cards[n].col # 0 /\ a.cards[n].owner = c /\ c # Nobody /\ a.cards[n].arch
    /\ a.cards[n].col # b.cards[n].col \/ a.cards[n].owner # b.cards[n].owner

\* What an edit `by' a claude, or the user, does: it tells the claudes for whom a card changed.
EditOK(b, r, by) ==
    /\ BoardFine(r.b)
    /\ r.news \in [BoardClaudes -> SUBSET CardIds]
    /\ b.made <= r.b.made
    /\ \A n \in CardIds :
          /\ b.cards[n].col = 0 => r.b.cards[n].col = 0 \/ n > b.made
          /\ \A c \in BoardClaudes :
                /\ n \in r.news[c] => /\ n <= r.b.made /\ c # by
                                      /\ b.cards[n].arch => Is(c, b.cards[n]) \/ Quiet(b, r.b, c, n)
                /\ n \notin r.news[c] /\ c # by /\ ~Quiet(b, r.b, c, n)
                      => /\ Is(c, r.b.cards[n]) /\ ~r.b.cards[n].arch <=> Is(c, b.cards[n]) /\ ~b.cards[n].arch
                         /\ Is(c, r.b.cards[n]) => /\ r.b.cards[n].col = b.cards[n].col
                                                   /\ r.b.cards[n].txt = b.cards[n].txt

\* No comment is made, changed or taken away.
SayKept(b, r) ==
    \A n \in CardIds : r.b.cards[n].col # 0 =>
        r.b.cards[n].say = IF b.cards[n].col = 0 THEN Silent ELSE b.cards[n].say

Touches(b, r, n) == \A m \in CardIds : m # n => r.b.cards[m] = b.cards[m]

LEMMA RefusedOK ==
    ASSUME NEW b, BoardFine(b), NEW by, NEW n
    PROVE  EditOK(b, Refused(b), by) /\ Touches(b, Refused(b), n)
<1>1. Refused(b).b = b /\ Refused(b).news = Nothing
  BY DEF Refused
<1>2. Nothing \in [BoardClaudes -> SUBSET CardIds] /\ \A c \in BoardClaudes : Nothing[c] = {}
  BY DEF Nothing
<1>3. b.made <= b.made
  BY DEF BoardFine
<1>4. EditOK(b, Refused(b), by)
  BY <1>1, <1>2, <1>3 DEF EditOK, Is, Gone
<1> QED BY <1>1, <1>4 DEF Touches

LEMMA ColsEditOK ==
    ASSUME NEW b, BoardFine(b), NEW r, BoardFine(r.b), ColsGood(b, r)
    PROVE  EditOK(b, r, Nobody) /\ SayKept(b, r)
<1>1. b.made <= r.b.made
  BY DEF ColsGood, BoardFine
<1>2. \A n \in CardIds : b.cards[n].col # 0 => n <= b.made
  <2>1. \A n \in CardIds : n > b.made => b.cards[n].col = 0
    BY DEF BoardFine, NoCard
  <2> QED BY <2>1 DEF BoardFine, CardIds
<1>3. ASSUME NEW n \in CardIds, NEW c \in BoardClaudes, n \in r.news[c]
      PROVE  n <= r.b.made /\ c # Nobody /\ Is(c, b.cards[n])
  BY <1>2, <1>3, BoardAssumption DEF ColsGood, Is, Gone
<1>4. ASSUME NEW n \in CardIds, NEW c \in BoardClaudes, n \notin r.news[c], ~Quiet(b, r.b, c, n)
      PROVE  /\ Is(c, r.b.cards[n]) /\ ~r.b.cards[n].arch <=> Is(c, b.cards[n]) /\ ~b.cards[n].arch
             /\ Is(c, r.b.cards[n]) => /\ r.b.cards[n].col = b.cards[n].col
                                       /\ r.b.cards[n].txt = b.cards[n].txt
  BY <1>4, BoardAssumption DEF ColsGood, Is, Gone, Quiet
<1>5. EditOK(b, r, Nobody)
  BY <1>1, <1>3, <1>4 DEF EditOK, ColsGood
<1> QED BY <1>5 DEF SayKept, ColsGood

LEMMA TellOf ==
    ASSUME NEW b, NEW ns \in SUBSET CardIds, NEW by
    PROVE  /\ Tell(b, ns, by) \in [BoardClaudes -> SUBSET CardIds]
           /\ \A c \in BoardClaudes, n \in CardIds :
                 n \in Tell(b, ns, by)[c] <=> n \in ns /\ b.cards[n].owner = c /\ c # by
BY DEF Tell

\* A board with one card put in place of another.
Puts(b, a, n, card) ==
    /\ a = [cols |-> b.cols, cards |-> [b.cards EXCEPT ![n] = card], made |-> a.made, madeCols |-> b.madeCols]

LEMMA PutFine ==
    ASSUME NEW b, BoardFine(b), NEW a, NEW n \in CardIds, NEW card \in BoardCard, Puts(b, a, n, card),
           a.made \in 0..MaxCards, b.made <= a.made, n <= a.made,
           card.col # 0 => Among(card.col, b.cols)
    PROVE  /\ BoardFine(a) /\ a.cards[n] = card
           /\ \A m \in CardIds : m # n => a.cards[m] = b.cards[m]
<1>1. /\ b.cards \in [CardIds -> BoardCard] /\ b.cols \in Seq(ColIds) /\ b.madeCols \in ColIds
      /\ b.made \in 0..MaxCards
  BY DEF BoardFine
<1>2. a.cards \in [CardIds -> BoardCard] /\ a.cards[n] = card /\ \A m \in CardIds : m # n => a.cards[m] = b.cards[m]
  BY <1>1 DEF Puts
<1>3. a.cols = b.cols /\ a.madeCols = b.madeCols
  BY DEF Puts
<1>4. a \in [cols : Seq(ColIds), cards : [CardIds -> BoardCard], made : 0..MaxCards, madeCols : ColIds]
  BY <1>1, <1>2 DEF Puts
<1>5. \A m \in CardIds : m > a.made => a.cards[m] = NoCard
  BY <1>1, <1>2 DEF BoardFine, CardIds
<1>6. \A m \in CardIds : a.cards[m].col # 0 => Among(a.cards[m].col, a.cols)
  BY <1>2, <1>3 DEF BoardFine
<1> QED BY <1>2, <1>3, <1>4, <1>5, <1>6 DEF BoardFine

LEMMA AddCardOK ==
    ASSUME NEW b, BoardFine(b), NEW owner \in Owners, NEW col, NEW by
    PROVE  LET r == AddCard(b, owner, col, 1, by)
           IN  EditOK(b, r, by) /\ SayKept(b, r) /\ Touches(b, r, b.made + 1)
<1> DEFINE r == AddCard(b, owner, col, 1, by)
           n == b.made + 1
           card == [col |-> col, owner |-> owner, txt |-> 1, arch |-> FALSE, say |-> Silent]
<1>1. CASE b.made = MaxCards \/ col \notin Cols(b)
  <2>1. r = Refused(b)
    BY <1>1 DEF AddCard
  <2>2. SayKept(b, r)
    BY <2>1 DEF SayKept, Refused
  <2> QED BY <2>1, <2>2, RefusedOK
<1>2. CASE ~(b.made = MaxCards \/ col \notin Cols(b))
  <2> DEFINE a == [[b EXCEPT !.cards[n] = card] EXCEPT !.made = n]
  <2>1. r.b = a /\ r.news = Tell(a, {n}, by)
    BY <1>2 DEF AddCard, Done, WithCard
  <2>2. b = [cols |-> b.cols, cards |-> b.cards, made |-> b.made, madeCols |-> b.madeCols]
    BY DEF BoardFine
  <2>3. a = [cols |-> b.cols, cards |-> [b.cards EXCEPT ![n] = card], made |-> n, madeCols |-> b.madeCols]
    <3> DEFINE x == [cols |-> b.cols, cards |-> [b.cards EXCEPT ![n] = card], made |-> n, madeCols |-> b.madeCols]
    <3> HIDE DEF n, card
    <3>1. DOMAIN b = {"cols", "cards", "made", "madeCols"}
      BY <2>2
    <3>2. DOMAIN a = DOMAIN x
      BY <3>1
    <3>3. a["cols"] = b.cols /\ a["made"] = n /\ a["madeCols"] = b.madeCols
      BY <3>1
    <3>4. a["cards"] = [b.cards EXCEPT ![n] = card]
      BY <3>1
    <3>5. a = [f \in DOMAIN a |-> a[f]] /\ x = [f \in DOMAIN x |-> x[f]]
      OBVIOUS
    <3> HIDE DEF a
    <3> QED BY <3>1, <3>2, <3>3, <3>4, <3>5
  <2> HIDE DEF a
  <2>4. /\ n \in CardIds /\ n \in 0..MaxCards /\ b.made <= n /\ n <= n /\ b.made < n
        /\ b.cols \in Seq(ColIds)
    BY <1>2, BoardAssumption DEF BoardFine, CardIds
  <2>5. Among(col, b.cols)
    BY <1>2, <2>4, ColsOf DEF Cols
  <2>6. col \in ColIds
    BY <2>4, <2>5, ElementOfSeq DEF Among
  <2>7. card \in BoardCard
    BY <2>6 DEF BoardCard, ColIds, Owners, Says, Silent
  <2>8. Puts(b, a, n, card) /\ a.made = n
    BY <2>3 DEF Puts
  <2>9. b.cards[n] = NoCard
    BY <2>4 DEF BoardFine
  <2>10. card.col = col /\ card.owner = owner /\ ~card.arch /\ card.say = Silent
    OBVIOUS
  <2> HIDE DEF n, card
  <2>11. /\ BoardFine(a) /\ a.cards[n] = card
         /\ \A m \in CardIds : m # n => a.cards[m] = b.cards[m]
    BY <2>4, <2>5, <2>7, <2>8, <2>10, PutFine
  <2>12. /\ r.news \in [BoardClaudes -> SUBSET CardIds]
         /\ \A c \in BoardClaudes, m \in CardIds : m \in r.news[c] <=> m = n /\ a.cards[m].owner = c /\ c # by
    <3> DEFINE t == Tell(a, {n}, by)
    <3>1. {n} \in SUBSET CardIds
      BY <2>4
    <3>2. /\ t \in [BoardClaudes -> SUBSET CardIds]
          /\ \A c \in BoardClaudes, m \in CardIds : m \in t[c] <=> m \in {n} /\ a.cards[m].owner = c /\ c # by
      BY <3>1, TellOf
    <3>3. r.news = t
      BY <2>1
    <3> HIDE DEF r, t
    <3> QED BY <3>2, <3>3
  <2>13. NoCard.col = 0 /\ NoCard.arch = FALSE
    BY DEF NoCard
  <2>14. EditOK(b, r, by)
    BY <2>1, <2>4, <2>8, <2>9, <2>10, <2>11, <2>12, <2>13 DEF EditOK, Is, Gone
  <2>15. SayKept(b, r)
    BY <2>1, <2>9, <2>10, <2>11, <2>13 DEF SayKept
  <2>16. Touches(b, r, n)
    BY <2>1, <2>11 DEF Touches
  <2> QED BY <2>14, <2>15, <2>16 DEF n
<1> QED BY <1>1, <1>2
CardSet(b, a, n, card) == a = [b EXCEPT !.cards = [b.cards EXCEPT ![n] = card]]

LEMMA OneCard ==
    ASSUME NEW b, BoardFine(b), NEW n \in CardIds, b.cards[n].col # 0, NEW card \in BoardCard,
           card.col # 0 => Among(card.col, b.cols),
           NEW a, CardSet(b, a, n, card)
    PROVE  /\ BoardFine(a) /\ a.cards[n] = card /\ a.made = b.made
           /\ \A m \in CardIds : m # n => a.cards[m] = b.cards[m]
<1> DEFINE x == [cols |-> b.cols, cards |-> [b.cards EXCEPT ![n] = card], made |-> b.made, madeCols |-> b.madeCols]
<1>1. b = [cols |-> b.cols, cards |-> b.cards, made |-> b.made, madeCols |-> b.madeCols]
  BY DEF BoardFine
<1>2. DOMAIN b = {"cols", "cards", "made", "madeCols"}
  BY <1>1
<1>3. DOMAIN a = DOMAIN x
  BY <1>2 DEF CardSet
<1>4. /\ a["cols"] = b.cols /\ a["made"] = b.made /\ a["madeCols"] = b.madeCols
      /\ a["cards"] = [b.cards EXCEPT ![n] = card]
  BY <1>2 DEF CardSet
<1>5. a = [f \in DOMAIN a |-> a[f]] /\ x = [f \in DOMAIN x |-> x[f]]
  BY <1>2 DEF CardSet
<1>6. a = x
  BY <1>2, <1>3, <1>4, <1>5
<1>7. Puts(b, a, n, card) /\ a.made = b.made
  BY <1>6 DEF Puts
<1>8. n <= b.made
  <2>1. n > b.made => b.cards[n].col = 0
    BY DEF BoardFine, NoCard
  <2> QED BY <2>1 DEF BoardFine, CardIds
<1>9. a.made \in 0..MaxCards /\ b.made <= a.made /\ n <= a.made
  BY <1>7, <1>8 DEF BoardFine
<1> QED BY <1>7, <1>9, PutFine

LEMMA OneCardEdit ==
    ASSUME NEW b, BoardFine(b), NEW n \in CardIds, b.cards[n].col # 0, NEW r, NEW by,
           BoardFine(r.b), r.b.made = b.made, r.news \in [BoardClaudes -> SUBSET CardIds],
           \A m \in CardIds : m # n => r.b.cards[m] = b.cards[m],
           ASSUME NEW c \in BoardClaudes
           PROVE  /\ \A m \in r.news[c] : m = n
                  /\ n \in r.news[c] => c # by /\ (b.cards[n].arch => Is(c, b.cards[n]) \/ Quiet(b, r.b, c, n))
                  /\ n \notin r.news[c] /\ c # by /\ ~Quiet(b, r.b, c, n)
                        => /\ Is(c, r.b.cards[n]) /\ ~r.b.cards[n].arch <=> Is(c, b.cards[n]) /\ ~b.cards[n].arch
                           /\ Is(c, r.b.cards[n]) => /\ r.b.cards[n].col = b.cards[n].col
                                                     /\ r.b.cards[n].txt = b.cards[n].txt
    PROVE  EditOK(b, r, by) /\ Touches(b, r, n)
<1>1. n <= b.made /\ b.made <= b.made
  <2>1. n > b.made => b.cards[n].col = 0
    BY DEF BoardFine, NoCard
  <2> QED BY <2>1 DEF BoardFine, CardIds
<1>2. ASSUME NEW m \in CardIds, NEW c \in BoardClaudes
      PROVE  /\ m \in r.news[c] => /\ m <= r.b.made /\ c # by
                                   /\ b.cards[m].arch => Is(c, b.cards[m]) \/ Quiet(b, r.b, c, m)
             /\ m \notin r.news[c] /\ c # by /\ ~Quiet(b, r.b, c, m)
                   => /\ Is(c, r.b.cards[m]) /\ ~r.b.cards[m].arch <=> Is(c, b.cards[m]) /\ ~b.cards[m].arch
                      /\ Is(c, r.b.cards[m]) => /\ r.b.cards[m].col = b.cards[m].col
                                                /\ r.b.cards[m].txt = b.cards[m].txt
  <2>1. CASE m = n
    BY <1>1, <2>1
  <2>2. CASE m # n
    BY <2>2
  <2> QED BY <2>1, <2>2
<1>3. \A m \in CardIds : b.cards[m].col = 0 => r.b.cards[m].col = 0
  OBVIOUS
<1> QED BY <1>1, <1>2, <1>3 DEF EditOK, Touches

LEMMA CardIs ==
    ASSUME NEW b, BoardFine(b), NEW n \in CardIds, b.cards[n].col # 0
    PROVE  /\ b.cards[n] \in BoardCard /\ Among(b.cards[n].col, b.cols)
           /\ b.cards[n] = [col |-> b.cards[n].col, owner |-> b.cards[n].owner, txt |-> b.cards[n].txt,
                            arch |-> b.cards[n].arch, say |-> b.cards[n].say]
<1>1. b.cards[n] \in BoardCard /\ Among(b.cards[n].col, b.cols)
  BY DEF BoardFine
<1> QED BY <1>1 DEF BoardCard

LEMMA EditCardOK ==
    ASSUME NEW b, BoardFine(b), NEW n \in CardIds, b.cards[n].col # 0, NEW txt \in Texts, NEW by
    PROVE  LET r == EditCard(b, n, txt, by)
           IN  EditOK(b, r, by) /\ SayKept(b, r) /\ Touches(b, r, n)
<1> DEFINE r == EditCard(b, n, txt, by)
           a == [b EXCEPT !.cards[n].txt = txt]
           old == b.cards[n]
           card == [col |-> old.col, owner |-> old.owner, txt |-> txt, arch |-> old.arch, say |-> old.say]
<1>1. r.b = a /\ r.news = Tell(a, {n}, by)
  BY DEF EditCard, Done
<1>2. old \in BoardCard /\ Among(old.col, b.cols)
      /\ old = [col |-> old.col, owner |-> old.owner, txt |-> old.txt, arch |-> old.arch, say |-> old.say]
  BY CardIs
<1>3. card \in BoardCard
  BY <1>2 DEF BoardCard, Texts
<1>4. card = [old EXCEPT !.txt = txt]
  BY <1>2
<1>5. CardSet(b, a, n, card)
  BY <1>4 DEF CardSet
<1>6. card.col = old.col /\ card.owner = old.owner /\ card.arch = old.arch /\ card.say = old.say
  OBVIOUS
<1> HIDE DEF a, card
<1>7. /\ BoardFine(a) /\ a.cards[n] = card /\ a.made = b.made
      /\ \A m \in CardIds : m # n => a.cards[m] = b.cards[m]
  BY <1>2, <1>3, <1>5, <1>6, OneCard
<1>8. /\ r.news \in [BoardClaudes -> SUBSET CardIds]
      /\ \A c \in BoardClaudes, m \in CardIds : m \in r.news[c] <=> m = n /\ a.cards[m].owner = c /\ c # by
  <2> DEFINE t == Tell(a, {n}, by)
  <2>1. {n} \in SUBSET CardIds
    OBVIOUS
  <2>2. /\ t \in [BoardClaudes -> SUBSET CardIds]
        /\ \A c \in BoardClaudes, m \in CardIds : m \in t[c] <=> m \in {n} /\ a.cards[m].owner = c /\ c # by
    BY <2>1, TellOf
  <2>3. r.news = t
    BY <1>1
  <2> HIDE DEF r, t
  <2> QED BY <2>2, <2>3
<1> HIDE DEF r
<1>10. EditOK(b, r, by)
  <2>1. ASSUME NEW c \in BoardClaudes
        PROVE  /\ \A m \in r.news[c] : m = n
               /\ n \in r.news[c] => c # by /\ (old.arch => Is(c, old) \/ Quiet(b, a, c, n))
               /\ n \notin r.news[c] /\ c # by => ~Is(c, card) /\ ~Is(c, old)
    BY <1>6, <1>7, <1>8 DEF Is, Gone
  <2> QED BY <1>1, <1>7, <1>8, <2>1, OneCardEdit
<1>11. SayKept(b, r) /\ Touches(b, r, n)
  BY <1>1, <1>6, <1>7 DEF SayKept, Touches
<1> QED BY <1>10, <1>11 DEF r

LEMMA AssignCardOK ==
    ASSUME NEW b, BoardFine(b), NEW n \in CardIds, b.cards[n].col # 0, NEW owner \in Owners,
           b.cards[n].owner # owner, NEW by
    PROVE  LET r == AssignCard(b, n, owner, by)
           IN  EditOK(b, r, by) /\ SayKept(b, r) /\ Touches(b, r, n)
<1> DEFINE r == AssignCard(b, n, owner, by)
           a == [b EXCEPT !.cards[n].owner = owner]
           old == b.cards[n]
           card == [col |-> old.col, owner |-> owner, txt |-> old.txt, arch |-> old.arch, say |-> old.say]
<1>1. r.b = a /\ r.news = And(Tell(a, {n}, by), Tell(b, {n}, by))
  BY DEF AssignCard, Done
<1>2. old \in BoardCard /\ Among(old.col, b.cols)
      /\ old = [col |-> old.col, owner |-> old.owner, txt |-> old.txt, arch |-> old.arch, say |-> old.say]
  BY CardIs
<1>3. card \in BoardCard
  BY <1>2 DEF BoardCard, Owners
<1>4. card = [old EXCEPT !.owner = owner]
  BY <1>2
<1>5. CardSet(b, a, n, card)
  BY <1>4 DEF CardSet
<1>6. card.col = old.col /\ card.owner = owner /\ card.arch = old.arch /\ card.say = old.say
  OBVIOUS
<1> HIDE DEF a, card
<1>7. /\ BoardFine(a) /\ a.cards[n] = card /\ a.made = b.made
      /\ \A m \in CardIds : m # n => a.cards[m] = b.cards[m]
  BY <1>2, <1>3, <1>5, <1>6, OneCard
<1>8. /\ r.news \in [BoardClaudes -> SUBSET CardIds]
      /\ \A c \in BoardClaudes, m \in CardIds :
            m \in r.news[c] <=> m = n /\ c # by /\ (a.cards[m].owner = c \/ b.cards[m].owner = c)
  <2> DEFINE t == Tell(a, {n}, by)
             u == Tell(b, {n}, by)
             ns == {n}
  <2>1. ns \in SUBSET CardIds
    OBVIOUS
  <2>9. \A m : m \in ns <=> m = n
    OBVIOUS
  <2> HIDE DEF ns, r
  <2>2. /\ Tell(a, ns, by) \in [BoardClaudes -> SUBSET CardIds]
        /\ \A c \in BoardClaudes, m \in CardIds : m \in Tell(a, ns, by)[c] <=> m \in ns /\ a.cards[m].owner = c /\ c # by
    BY <2>1, TellOf
  <2>3. /\ Tell(b, ns, by) \in [BoardClaudes -> SUBSET CardIds]
        /\ \A c \in BoardClaudes, m \in CardIds : m \in Tell(b, ns, by)[c] <=> m \in ns /\ b.cards[m].owner = c /\ c # by
    BY <2>1, TellOf
  <2>4. t = Tell(a, ns, by) /\ u = Tell(b, ns, by)
    BY DEF ns
  <2>5. r.news = [c \in BoardClaudes |-> t[c] \cup u[c]]
    BY <1>1 DEF And
  <2> HIDE DEF t, u
  <2> QED BY <2>2, <2>3, <2>4, <2>5, <2>9
<1> HIDE DEF r
<1>10. \A c \in BoardClaudes : c # Nobody
  BY BoardAssumption
<1>11. EditOK(b, r, by)
  <2>1. ASSUME NEW c \in BoardClaudes
        PROVE  /\ \A m \in r.news[c] : m = n
               /\ n \in r.news[c] => c # by /\ (old.arch => Is(c, old) \/ Quiet(b, a, c, n))
               /\ n \notin r.news[c] /\ c # by => ~Is(c, card) /\ ~Is(c, old)
    BY <1>6, <1>7, <1>8, <1>10 DEF Is, Gone, Quiet
  <2> QED BY <1>1, <1>7, <1>8, <2>1, OneCardEdit
<1>12. SayKept(b, r) /\ Touches(b, r, n)
  BY <1>1, <1>6, <1>7 DEF SayKept, Touches
<1> QED BY <1>11, <1>12 DEF r

LEMMA MoveCardOK ==
    ASSUME NEW b, BoardFine(b), NEW n \in CardIds, b.cards[n].col # 0, NEW col, NEW by
    PROVE  LET r == MoveCard(b, n, col, by)
           IN  EditOK(b, r, by) /\ SayKept(b, r) /\ Touches(b, r, n)
<1> DEFINE r == MoveCard(b, n, col, by)
           old == b.cards[n]
           arch == old.arch /\ by = Nobody
           a == [b EXCEPT !.cards[n] = [old EXCEPT !.col = col, !.arch = arch]]
           moved == old.col # col \/ old.arch # arch
           card == [col |-> col, owner |-> old.owner, txt |-> old.txt, arch |-> arch, say |-> old.say]
<1>1. CASE col \notin Cols(b)
  <2>1. r = Refused(b)
    BY <1>1 DEF MoveCard
  <2>2. SayKept(b, r)
    BY <2>1 DEF SayKept, Refused
  <2> QED BY <2>1, <2>2, RefusedOK
<1>2. CASE col \in Cols(b)
  <2>1. r.b = a /\ r.news = IF moved THEN Tell(a, {n}, by) ELSE Nothing
    BY <1>2 DEF MoveCard, Done, WithCard
  <2>2. old \in BoardCard /\ Among(old.col, b.cols)
        /\ old = [col |-> old.col, owner |-> old.owner, txt |-> old.txt, arch |-> old.arch, say |-> old.say]
    BY CardIs
  <2>3. Among(col, b.cols) /\ col \in ColIds
    <3>1. b.cols \in Seq(ColIds)
      BY DEF BoardFine
    <3>2. Among(col, b.cols)
      BY <1>2, <3>1, ColsOf DEF Cols
    <3> QED BY <3>1, <3>2, ElementOfSeq DEF Among
  <2>4. card \in BoardCard
    BY <2>2, <2>3 DEF BoardCard, ColIds
  <2> HIDE DEF arch
  <2>5. card = [old EXCEPT !.col = col, !.arch = arch]
    <3> DEFINE x == [old EXCEPT !.col = col, !.arch = arch]
    <3>1. DOMAIN old = {"col", "owner", "txt", "arch", "say"}
      BY <2>2
    <3>2. DOMAIN x = DOMAIN card
      BY <3>1
    <3>3. x["col"] = col /\ x["owner"] = old.owner /\ x["txt"] = old.txt /\ x["arch"] = arch /\ x["say"] = old.say
      BY <3>1
    <3>4. x = [f \in DOMAIN x |-> x[f]] /\ card = [f \in DOMAIN card |-> card[f]]
      OBVIOUS
    <3> HIDE DEF x
    <3>5. x = card
      BY <3>1, <3>2, <3>3, <3>4
    <3> QED BY <3>5 DEF x
  <2>6. CardSet(b, a, n, card)
    BY <2>5 DEF CardSet
  <2>7. card.col = col /\ card.owner = old.owner /\ card.arch = arch /\ card.say = old.say /\ card.txt = old.txt
    OBVIOUS
  <2> HIDE DEF a, card, moved
  <2>8. /\ BoardFine(a) /\ a.cards[n] = card /\ a.made = b.made
        /\ \A m \in CardIds : m # n => a.cards[m] = b.cards[m]
    BY <2>3, <2>4, <2>6, <2>7, OneCard
  <2>9. /\ r.news \in [BoardClaudes -> SUBSET CardIds]
        /\ \A c \in BoardClaudes, m \in CardIds :
              m \in r.news[c] <=> m = n /\ a.cards[m].owner = c /\ c # by /\ moved
    <3> DEFINE t == Tell(a, {n}, by)
    <3>1. {n} \in SUBSET CardIds
      OBVIOUS
    <3>2. /\ t \in [BoardClaudes -> SUBSET CardIds]
          /\ \A c \in BoardClaudes, m \in CardIds : m \in t[c] <=> m \in {n} /\ a.cards[m].owner = c /\ c # by
      BY <3>1, TellOf
    <3>3. r.news = IF moved THEN t ELSE [c \in BoardClaudes |-> {}]
      BY <2>1 DEF Nothing
    <3> HIDE DEF r, t
    <3>4. CASE moved
      <4>1. r.news = t
        BY <3>3, <3>4
      <4>2. \A m : m \in {n} <=> m = n
        OBVIOUS
      <4> QED BY <3>2, <3>4, <4>1, <4>2
    <3>5. CASE ~moved
      <4>1. r.news = [c \in BoardClaudes |-> {}]
        BY <3>3, <3>5
      <4> QED BY <3>5, <4>1
    <3> QED BY <3>4, <3>5
  <2> HIDE DEF r
  <2>11. EditOK(b, r, by)
    <3>1. ASSUME NEW c \in BoardClaudes
          PROVE  /\ \A m \in r.news[c] : m = n
                 /\ n \in r.news[c] => c # by /\ (old.arch => Is(c, old) \/ Quiet(b, a, c, n))
                 /\ n \notin r.news[c] /\ c # by
                       => \/ ~Is(c, card) /\ ~Is(c, old)
                          \/ card.owner = old.owner /\ card.col = old.col /\ card.txt = old.txt /\ card.arch = old.arch
      <4>1. \A m \in r.news[c] : m \in CardIds
        BY <2>9
      <4>2. \A m \in CardIds : m \in r.news[c] <=> m = n /\ a.cards[m].owner = c /\ c # by /\ moved
        BY <2>9
      <4>3. n \in r.news[c] => c # by /\ Is(c, old)
        BY <2>7, <2>8, <4>2 DEF Is, Gone
      <4>4. CASE n \notin r.news[c] /\ c # by /\ moved
        <5>1. a.cards[n].owner # c
          BY <4>2, <4>4
        <5>2. card.owner # c /\ old.owner # c
          BY <2>7, <2>8, <5>1
        <5>3. ~Is(c, card) /\ ~Is(c, old)
          BY <5>2 DEF Is
        <5> QED BY <4>1, <4>2, <4>3, <5>3
      <4>5. CASE ~moved
        <5>1. old.col = col /\ (old.arch <=> arch)
          BY <4>5 DEF moved
        <5>2. old.arch \in BOOLEAN /\ arch \in BOOLEAN
          BY <2>2 DEF arch, BoardCard
        <5> QED BY <2>7, <4>1, <4>2, <4>3, <5>1, <5>2
      <4> QED BY <4>1, <4>2, <4>3, <4>4, <4>5
    <3>2. ASSUME NEW c \in BoardClaudes
          PROVE  /\ \A m \in r.news[c] : m = n
                 /\ n \in r.news[c] => c # by /\ (old.arch => Is(c, old) \/ Quiet(b, a, c, n))
                 /\ n \notin r.news[c] /\ c # by
                       => /\ Is(c, card) /\ ~card.arch <=> Is(c, old) /\ ~old.arch
                          /\ Is(c, card) => card.col = old.col /\ card.txt = old.txt
      BY <3>1 DEF Is, Gone
    <3> QED BY <2>1, <2>8, <2>9, <3>2, OneCardEdit
  <2>12. SayKept(b, r) /\ Touches(b, r, n)
    BY <2>1, <2>7, <2>8 DEF SayKept, Touches
  <2> QED BY <2>11, <2>12 DEF r
<1> QED BY <1>1, <1>2
\* A comment on card n, and nothing else.
Comment(b, r, n) ==
    /\ \A m \in CardIds : m # n /\ r.b.cards[m].col # 0 =>
          r.b.cards[m].say = b.cards[m].say /\ (b.cards[m].col # 0)
    /\ \A c \in BoardClaudes : r.news[c] \subseteq {n} /\ (r.news[c] # {} => b.cards[n].owner = c)

LEMMA SayOnOK ==
    ASSUME NEW b, BoardFine(b), NEW n \in CardIds, b.cards[n].col # 0, NEW say \in Says, NEW by
    PROVE  LET r == SayOn(b, n, say, by)
           IN  /\ EditOK(b, r, by) /\ Touches(b, r, n) /\ (r.ok => b.cards[n].say = Silent)
               /\ r.ok => Comment(b, r, n) /\ r.b.cards[n].say = say
<1> DEFINE r == SayOn(b, n, say, by)
           a == [b EXCEPT !.cards[n].say = say]
           old == b.cards[n]
           card == [col |-> old.col, owner |-> old.owner, txt |-> old.txt, arch |-> old.arch, say |-> say]
<1>1. CASE old.say # Silent
  <2>1. r = Refused(b) /\ ~r.ok
    BY <1>1 DEF SayOn, Refused
  <2> QED BY <2>1, RefusedOK
<1>2. CASE old.say = Silent
  <2>1. r.b = a /\ r.news = Tell(a, {n}, by)
    BY <1>2 DEF SayOn, Done
  <2>2. old \in BoardCard /\ Among(old.col, b.cols)
        /\ old = [col |-> old.col, owner |-> old.owner, txt |-> old.txt, arch |-> old.arch, say |-> old.say]
    BY CardIs
  <2>3. card \in BoardCard
    BY <2>2 DEF BoardCard
  <2>4. card = [old EXCEPT !.say = say]
    BY <2>2
  <2>5. CardSet(b, a, n, card)
    BY <2>4 DEF CardSet
  <2>6. card.col = old.col /\ card.owner = old.owner /\ card.arch = old.arch /\ card.txt = old.txt /\ card.say = say
    OBVIOUS
  <2> HIDE DEF a, card
  <2>7. /\ BoardFine(a) /\ a.cards[n] = card /\ a.made = b.made
        /\ \A m \in CardIds : m # n => a.cards[m] = b.cards[m]
    BY <2>2, <2>3, <2>5, <2>6, OneCard
  <2>8. /\ r.news \in [BoardClaudes -> SUBSET CardIds]
        /\ \A c \in BoardClaudes, m \in CardIds : m \in r.news[c] <=> m = n /\ a.cards[m].owner = c /\ c # by
    <3> DEFINE t == Tell(a, {n}, by)
    <3>1. {n} \in SUBSET CardIds
      OBVIOUS
    <3>2. /\ t \in [BoardClaudes -> SUBSET CardIds]
          /\ \A c \in BoardClaudes, m \in CardIds : m \in t[c] <=> m \in {n} /\ a.cards[m].owner = c /\ c # by
      BY <3>1, TellOf
    <3>3. r.news = t
      BY <2>1
    <3> HIDE DEF r, t
    <3> QED BY <3>2, <3>3
  <2> HIDE DEF r
  <2>9. EditOK(b, r, by) /\ Touches(b, r, n)
    <3>1. ASSUME NEW c \in BoardClaudes
          PROVE  /\ \A m \in r.news[c] : m = n
                 /\ n \in r.news[c] => c # by /\ (old.arch => Is(c, old) \/ Quiet(b, a, c, n))
                 /\ n \notin r.news[c] /\ c # by => ~Is(c, card) /\ ~Is(c, old)
      BY <2>6, <2>7, <2>8 DEF Is, Gone
    <3> QED BY <2>1, <2>7, <2>8, <3>1, OneCardEdit
  <2>10. Comment(b, r, n)
    <3>1. \A m \in CardIds : m # n /\ r.b.cards[m].col # 0 => r.b.cards[m].say = b.cards[m].say /\ b.cards[m].col # 0
      BY <2>1, <2>7
    <3>2. \A c \in BoardClaudes : r.news[c] \subseteq {n} /\ (r.news[c] # {} => b.cards[n].owner = c)
      BY <2>6, <2>7, <2>8
    <3> QED BY <3>1, <3>2 DEF Comment
  <2> QED BY <1>2, <2>1, <2>6, <2>7, <2>9, <2>10 DEF r
<1> QED BY <1>1, <1>2

\* The panel's Edit and Delete of a comment.
LEMMA CommentEditOK ==
    ASSUME NEW b, BoardFine(b), NEW n \in CardIds, b.cards[n].col # 0, NEW say \in Says,
           NEW r, r = Done([b EXCEPT !.cards[n].say = say], Nothing)
    PROVE  /\ EditOK(b, r, Nobody) /\ Comment(b, r, n) /\ r.b.cards[n].say = say
           /\ r.news = Nothing
<1> DEFINE a == [b EXCEPT !.cards[n].say = say]
           old == b.cards[n]
           card == [col |-> old.col, owner |-> old.owner, txt |-> old.txt, arch |-> old.arch, say |-> say]
<1>1. r.b = a /\ r.news = Nothing
  BY DEF Done
<1>2. old \in BoardCard /\ Among(old.col, b.cols)
      /\ old = [col |-> old.col, owner |-> old.owner, txt |-> old.txt, arch |-> old.arch, say |-> old.say]
  BY CardIs
<1>3. card \in BoardCard
  BY <1>2 DEF BoardCard
<1>4. card = [old EXCEPT !.say = say]
  BY <1>2
<1>5. CardSet(b, a, n, card)
  BY <1>4 DEF CardSet
<1>6. card.col = old.col /\ card.owner = old.owner /\ card.arch = old.arch /\ card.txt = old.txt /\ card.say = say
  OBVIOUS
<1> HIDE DEF a, card
<1>7. /\ BoardFine(a) /\ a.cards[n] = card /\ a.made = b.made
      /\ \A m \in CardIds : m # n => a.cards[m] = b.cards[m]
  BY <1>2, <1>3, <1>5, <1>6, OneCard
<1>8. r.news \in [BoardClaudes -> SUBSET CardIds] /\ \A c \in BoardClaudes : r.news[c] = {}
  BY <1>1 DEF Nothing
<1>9. EditOK(b, r, Nobody)
  <2>1. ASSUME NEW c \in BoardClaudes
        PROVE  /\ \A m \in r.news[c] : m = n
               /\ n \notin r.news[c]
               /\ Is(c, card) /\ ~card.arch <=> Is(c, old) /\ ~old.arch
               /\ card.col = old.col /\ card.txt = old.txt
    BY <1>6, <1>8 DEF Is, Gone
  <2> QED BY ZenonT(30), <1>1, <1>7, <1>8, <2>1, OneCardEdit
<1>10. Comment(b, r, n)
  BY <1>1, <1>7, <1>8 DEF Comment
<1> QED BY <1>1, <1>6, <1>7, <1>9, <1>10

LEMMA DeleteCardOK ==
    ASSUME NEW b, BoardFine(b), NEW n \in CardIds, b.cards[n].col # 0
    PROVE  EditOK(b, DeleteCard(b, n), Nobody) /\ SayKept(b, DeleteCard(b, n))
<1> DEFINE r == DeleteCard(b, n)
           a == [b EXCEPT !.cards[n] = NoCard]
           old == b.cards[n]
<1>1. r.b = a /\ r.news = IF old.arch THEN Nothing ELSE Tell(b, {n}, Nobody)
  BY DEF DeleteCard, Done, WithCard
<1>2. NoCard \in BoardCard /\ NoCard.col = 0 /\ NoCard.arch = FALSE
  BY DEF BoardCard, NoCard, Says
<1>3. CardSet(b, a, n, NoCard)
  BY DEF CardSet
<1> HIDE DEF a
<1>4. /\ BoardFine(a) /\ a.cards[n] = NoCard /\ a.made = b.made
      /\ \A m \in CardIds : m # n => a.cards[m] = b.cards[m]
  BY <1>2, <1>3, OneCard
<1>5. /\ r.news \in [BoardClaudes -> SUBSET CardIds]
      /\ \A c \in BoardClaudes, m \in CardIds : m \in r.news[c] <=> m = n /\ old.owner = c /\ c # Nobody /\ ~old.arch
  <2> DEFINE t == Tell(b, {n}, Nobody)
  <2>1. {n} \in SUBSET CardIds /\ \A m : m \in {n} <=> m = n
    OBVIOUS
  <2>2. /\ t \in [BoardClaudes -> SUBSET CardIds]
        /\ \A c \in BoardClaudes, m \in CardIds : m \in t[c] <=> m \in {n} /\ b.cards[m].owner = c /\ c # Nobody
    BY <2>1, TellOf
  <2>3. r.news = IF old.arch THEN [c \in BoardClaudes |-> {}] ELSE t
    BY <1>1 DEF Nothing
  <2> HIDE DEF r, t
  <2>4. CASE old.arch
    <3>1. r.news = [c \in BoardClaudes |-> {}]
      BY <2>3, <2>4
    <3> QED BY <2>4, <3>1
  <2>5. CASE ~old.arch
    <3>1. r.news = t
      BY <2>3, <2>5
    <3> QED BY <2>1, <2>2, <2>5, <3>1
  <2> QED BY <2>4, <2>5
<1> HIDE DEF r
<1>6. EditOK(b, r, Nobody)
  <2>1. ASSUME NEW c \in BoardClaudes
        PROVE  /\ \A m \in r.news[c] : m = n
               /\ n \in r.news[c] => c # Nobody /\ ~old.arch
               /\ n \notin r.news[c] => ~(Is(c, old) /\ ~old.arch)
               /\ ~Is(c, NoCard)
    BY <1>2, <1>5, BoardAssumption DEF Is, Gone
  <2> QED BY <1>1, <1>4, <1>5, <2>1, OneCardEdit
<1>7. SayKept(b, r)
  BY <1>1, <1>2, <1>4 DEF SayKept
<1> QED BY <1>6, <1>7 DEF r

LEMMA ArchiveOK ==
    ASSUME NEW b, BoardFine(b), NEW ns \in SUBSET CardIds, \A n \in ns : b.cards[n].col # 0,
           NEW flag \in BOOLEAN, NEW by
    PROVE  LET r == ArchiveCards(b, ns, flag, by)
           IN  /\ EditOK(b, r, by) /\ SayKept(b, r)
               /\ \A n : ns = {n} => Touches(b, r, n)
<1> DEFINE r == ArchiveCards(b, ns, flag, by)
           turned == {n \in ns : b.cards[n].arch # flag}
           cs == [n \in CardIds |-> IF n \in turned THEN [b.cards[n] EXCEPT !.arch = flag] ELSE b.cards[n]]
           a == [b EXCEPT !.cards = cs]
           x == [cols |-> b.cols, cards |-> cs, made |-> b.made, madeCols |-> b.madeCols]
<1>1. r.b = a /\ r.news = Tell(a, turned, by)
  BY DEF ArchiveCards, Done
<1>2. turned \in SUBSET CardIds /\ \A n \in turned : n \in ns /\ b.cards[n].arch # flag
  OBVIOUS
<1>3. \A n \in ns : n \notin turned => b.cards[n].arch = flag
  OBVIOUS
<1>4. \A n \in CardIds : cs[n] = IF n \in turned THEN [col |-> b.cards[n].col, owner |-> b.cards[n].owner,
                                txt |-> b.cards[n].txt, arch |-> flag, say |-> b.cards[n].say] ELSE b.cards[n]
  <2> SUFFICES ASSUME NEW n \in CardIds, n \in turned
               PROVE  cs[n] = [col |-> b.cards[n].col, owner |-> b.cards[n].owner,
                               txt |-> b.cards[n].txt, arch |-> flag, say |-> b.cards[n].say]
    OBVIOUS
  <2>1. b.cards[n] = [col |-> b.cards[n].col, owner |-> b.cards[n].owner, txt |-> b.cards[n].txt,
                      arch |-> b.cards[n].arch, say |-> b.cards[n].say]
    BY <1>2, CardIs
  <2>2. cs[n] = [b.cards[n] EXCEPT !.arch = flag]
    OBVIOUS
  <2> HIDE DEF cs
  <2> QED BY <2>1, <2>2
<1>5. cs = [n \in CardIds |-> cs[n]]
  OBVIOUS
<1> HIDE DEF cs, turned
<1>6. a = x
  <2>1. b = [cols |-> b.cols, cards |-> b.cards, made |-> b.made, madeCols |-> b.madeCols]
    BY DEF BoardFine
  <2>2. DOMAIN b = {"cols", "cards", "made", "madeCols"}
    BY <2>1
  <2>3. DOMAIN a = DOMAIN x
    BY <2>2
  <2>4. a["cols"] = b.cols /\ a["made"] = b.made /\ a["madeCols"] = b.madeCols /\ a["cards"] = cs
    BY <2>2
  <2>5. a = [f \in DOMAIN a |-> a[f]] /\ x = [f \in DOMAIN x |-> x[f]]
    OBVIOUS
  <2> HIDE DEF a
  <2> QED BY <2>2, <2>3, <2>4, <2>5
<1>7. a.cards = cs /\ a.made = b.made /\ a.cols = b.cols /\ a.madeCols = b.madeCols
  BY <1>6
<1>17. a = [cols |-> b.cols, cards |-> cs, made |-> b.made, madeCols |-> b.madeCols]
  BY <1>6
<1> HIDE DEF a, x
<1>8. \A n \in CardIds :
         /\ cs[n] \in BoardCard
         /\ cs[n].col = b.cards[n].col /\ cs[n].owner = b.cards[n].owner
         /\ cs[n].txt = b.cards[n].txt /\ cs[n].say = b.cards[n].say
         /\ n \notin turned => cs[n] = b.cards[n]
         /\ n \in turned => b.cards[n].col # 0 /\ cs[n].arch = flag
  <2> TAKE n \in CardIds
  <2>1. b.cards[n] \in BoardCard
    BY DEF BoardFine
  <2>2. CASE n \in turned
    <3>1. cs[n] = [col |-> b.cards[n].col, owner |-> b.cards[n].owner,
                   txt |-> b.cards[n].txt, arch |-> flag, say |-> b.cards[n].say]
      BY <1>4, <2>2
    <3> QED BY <1>2, <2>1, <2>2, <3>1 DEF BoardCard
  <2>3. CASE n \notin turned
    BY <1>4, <2>1, <2>3
  <2> QED BY <2>2, <2>3
<1>9. /\ r.news \in [BoardClaudes -> SUBSET CardIds]
      /\ \A c \in BoardClaudes, m \in CardIds : m \in r.news[c] <=> m \in turned /\ cs[m].owner = c /\ c # by
  <2> HIDE DEF r
  <2> QED BY <1>1, <1>2, <1>7, TellOf
<1> HIDE DEF r
<1>10. \A n \in CardIds : b.cards[n].col # 0 => n <= b.made
  <2>1. \A n \in CardIds : n > b.made => b.cards[n].col = 0
    BY DEF BoardFine, NoCard
  <2> QED BY <2>1 DEF BoardFine, CardIds
<1>11. BoardFine(a)
  <2>1. cs \in [CardIds -> BoardCard]
    BY <1>5, <1>8
  <2>2. /\ b.cols \in Seq(ColIds) /\ b.madeCols \in ColIds /\ b.made \in 0..MaxCards
        /\ ColsFine(b.cols, b.madeCols)
    BY DEF BoardFine
  <2>3. a \in [cols : Seq(ColIds), cards : [CardIds -> BoardCard], made : 0..MaxCards, madeCols : ColIds]
    BY <1>17, <2>1, <2>2
  <2>4. \A n \in CardIds : n > b.made => cs[n] = NoCard
    <3> TAKE n \in CardIds
    <3> HAVE n > b.made
    <3>1. b.cards[n] = NoCard
      BY DEF BoardFine
    <3>2. b.cards[n].col = 0
      BY <3>1 DEF NoCard
    <3> QED BY <1>8, <3>1, <3>2
  <2>5. \A n \in CardIds : cs[n].col # 0 => Among(cs[n].col, b.cols)
    BY <1>8 DEF BoardFine
  <2> QED BY <1>7, <2>2, <2>3, <2>4, <2>5 DEF BoardFine
<1>12. ASSUME NEW n \in CardIds, NEW c \in BoardClaudes
       PROVE  /\ n \in r.news[c] => n <= b.made /\ c # by /\ Is(c, b.cards[n])
              /\ n \notin r.news[c] /\ c # by
                    => /\ Is(c, cs[n]) /\ ~cs[n].arch <=> Is(c, b.cards[n]) /\ ~b.cards[n].arch
                       /\ cs[n].col = b.cards[n].col /\ cs[n].txt = b.cards[n].txt
  BY <1>8, <1>9, <1>10 DEF Is, Gone
<1>13. b.made <= b.made
  BY DEF BoardFine
<1>14. EditOK(b, r, by)
  BY <1>1, <1>7, <1>8, <1>9, <1>11, <1>12, <1>13 DEF EditOK
<1>15. SayKept(b, r)
  <2>1. \A n \in CardIds : n > b.made => b.cards[n].say = Silent
    BY DEF BoardFine, NoCard
  <2> QED BY <1>1, <1>7, <1>8 DEF SayKept
<1>16. \A n : ns = {n} => Touches(b, r, n)
  BY <1>1, <1>2, <1>7, <1>8 DEF Touches
<1> QED BY <1>14, <1>15, <1>16 DEF r
-----------------------------------------------------------------------------
(* An edit is saved and told.                                               *)

Told(q, old, said) ==
    [on |-> TRUE, base |-> IF q.on THEN q.base ELSE old, said |-> q.said \/ said]

PushedIs(q, p, news, said, b) ==
    /\ p \in Queues
    /\ \A c \in BoardClaudes, n \in CardIds :
          p[c][n] = IF n \in news[c] THEN Told(q[c][n], b.cards[n], said) ELSE q[c][n]

LEMMA PushedOf ==
    ASSUME NEW q, q \in Queues, NEW news, NEW said, said \in BOOLEAN, NEW b, BoardFine(b)
    PROVE  PushedIs(q, Pushed(q, news, said, b), news, said, b)
<1> DEFINE p == Pushed(q, news, said, b)
<1>1. \A c \in BoardClaudes, n \in CardIds :
         p[c][n] = IF n \in news[c] THEN Told(q[c][n], b.cards[n], said) ELSE q[c][n]
  BY DEF Pushed, Told
<1>2. p = [c \in BoardClaudes |-> [n \in CardIds |-> p[c][n]]]
  BY DEF Pushed
<1>3. ASSUME NEW c \in BoardClaudes, NEW n \in CardIds PROVE p[c][n] \in News
  <2>1. q[c][n] \in News
    BY DEF Queues
  <2>2. b.cards[n] \in BoardCard
    BY DEF BoardFine
  <2>3. Told(q[c][n], b.cards[n], said) \in News
    BY <2>1, <2>2 DEF Told, News
  <2> QED BY <1>1, <2>1, <2>3
<1> HIDE DEF p
<1>4. p \in Queues
  BY <1>2, <1>3 DEF Queues
<1> QED BY <1>1, <1>4 DEF p, PushedIs

LEMMA QuietIsSilent ==
    ASSUME NEW a, NEW c, NEW n \in CardIds, Quiet(board, a, c, n)
    PROVE  <<c, n>> \in Silently(a)
BY DEF Quiet, Silently, Present

\* How an edit changes the queues of claude c for card n.
ToldOf(r, said, user, c, n) ==
    \/ n \notin r.news[c] /\ waiting'[c][n] = waiting[c][n] /\ sending'[c][n] = sending[c][n]
    \/ /\ user /\ n \in r.news[c] /\ sending'[c][n] = sending[c][n]
       /\ waiting'[c][n] = Told(waiting[c][n], board.cards[n], said)
    \/ /\ ~user /\ n \in r.news[c] /\ waiting'[c][n] = waiting[c][n]
       /\ sending'[c][n] = Told(sending[c][n], board.cards[n], said)
    \/ /\ n \in r.news[c] /\ waiting'[c][n] = waiting[c][n] /\ sending'[c][n] = sending[c][n]
       /\ <<c, n>> \in cutoff'

\* The queues and the history after an edit, one claude and one card at a time.
LEMMA SavedPoint ==
    ASSUME BoardIInv, NEW r, NEW said, said \in BOOLEAN, NEW user, user \in BOOLEAN, NEW looked,
           Saved(r, said, user, looked), r.news \in [BoardClaudes -> SUBSET CardIds]
    PROVE  /\ waiting' \in Queues /\ sending' \in Queues
           /\ board' = r.b /\ rows' = rows /\ heard' = heard /\ r.ok
           /\ \A p \in cutoff \cup looked \cup Silently(r.b) : p \in cutoff'
           /\ \A c \in BoardClaudes, n \in CardIds : ToldOf(r, said, user, c, n)
<1>1. waiting \in Queues /\ sending \in Queues /\ BoardFine(board)
  BY DEF BoardIInv, OutboxTyped
<1>2. board' = r.b /\ rows' = rows /\ heard' = heard /\ r.ok
  BY DEF Saved
<1>3. cutoff \cup looked \cup Silently(r.b) \subseteq cutoff'
  BY DEF Saved
<1>4. PushedIs(waiting, Pushed(waiting, r.news, said, board), r.news, said, board)
  BY <1>1, PushedOf
<1>5. PushedIs(sending, Pushed(sending, r.news, said, board), r.news, said, board)
  BY <1>1, PushedOf
<1>6. \/ user /\ waiting' = Pushed(waiting, r.news, said, board) /\ sending' = sending
      \/ ~user /\ sending' = Pushed(sending, r.news, said, board) /\ waiting' = waiting
      \/ waiting' = waiting /\ sending' = sending /\ Pairs(r.news) \subseteq cutoff'
  BY DEF Saved
<1>7. CASE user /\ waiting' = Pushed(waiting, r.news, said, board) /\ sending' = sending
  BY <1>1, <1>2, <1>3, <1>4, <1>7 DEF ToldOf, PushedIs
<1>8. CASE ~user /\ sending' = Pushed(sending, r.news, said, board) /\ waiting' = waiting
  BY <1>1, <1>2, <1>3, <1>5, <1>8 DEF ToldOf, PushedIs
<1>9. CASE waiting' = waiting /\ sending' = sending /\ Pairs(r.news) \subseteq cutoff'
  <2>1. \A c \in BoardClaudes, n \in CardIds : n \in r.news[c] => <<c, n>> \in cutoff'
    BY <1>9 DEF Pairs
  <2> QED BY <1>1, <1>2, <1>3, <1>9, <2>1 DEF ToldOf
<1> QED BY <1>6, <1>7, <1>8, <1>9

LEMMA SavedQueues ==
    ASSUME BoardIInv, NEW r, NEW said, said \in BOOLEAN, NEW user, user \in BOOLEAN, NEW looked, NEW by,
           Saved(r, said, user, looked), EditOK(board, r, by)
    PROVE  QueuesOK'
<1>1. r.news \in [BoardClaudes -> SUBSET CardIds] /\ BoardFine(board) /\ BoardFine(r.b)
      /\ board.made <= r.b.made /\ \A c \in BoardClaudes, n \in CardIds : n \in r.news[c] => n <= r.b.made
  BY DEF EditOK, BoardIInv
<1>2. SUFFICES ASSUME NEW n \in CardIds, NEW c \in BoardClaudes
               PROVE  /\ n > r.b.made => heard[n] = Silent
                      /\ n > r.b.made => ~waiting'[c][n].on /\ ~sending'[c][n].on
                      /\ waiting'[c][n].said => waiting'[c][n].on
                      /\ sending'[c][n].said => sending'[c][n].on
  <2>1. board' = r.b /\ heard' = heard
    BY <1>1, SavedPoint
  <2>2. \A n \in CardIds : n > r.b.made => heard[n] = Silent
    BY <1>1 DEF QueuesOK, BoardIInv, BoardFine, CardIds
  <2> QED BY <1>2, <2>1, <2>2 DEF QueuesOK
<1>3. n > r.b.made => n > board.made /\ n \notin r.news[c]
  BY <1>1 DEF BoardFine, CardIds
<1>4. /\ n > board.made => heard[n] = Silent /\ ~waiting[c][n].on /\ ~sending[c][n].on
      /\ waiting[c][n].said => waiting[c][n].on
      /\ sending[c][n].said => sending[c][n].on
  BY DEF QueuesOK, BoardIInv
<1>5. Told(waiting[c][n], board.cards[n], said).on /\ Told(sending[c][n], board.cards[n], said).on
  BY DEF Told
<1>6. \/ n \notin r.news[c] /\ waiting'[c][n] = waiting[c][n] /\ sending'[c][n] = sending[c][n]
      \/ /\ user /\ n \in r.news[c] /\ sending'[c][n] = sending[c][n]
         /\ waiting'[c][n] = Told(waiting[c][n], board.cards[n], said)
      \/ /\ ~user /\ n \in r.news[c] /\ waiting'[c][n] = waiting[c][n]
         /\ sending'[c][n] = Told(sending[c][n], board.cards[n], said)
      \/ n \in r.news[c] /\ waiting'[c][n] = waiting[c][n] /\ sending'[c][n] = sending[c][n]
  <2>1. ToldOf(r, said, user, c, n)
    BY <1>1, SavedPoint
  <2> QED BY <2>1 DEF ToldOf
<1> QED BY <1>3, <1>4, <1>5, <1>6

\* What a claude knows of its cards, or is to be told, still fits the board.
LEMMA SavedKnown ==
    ASSUME BoardIInv, NEW r, NEW said, said \in BOOLEAN, NEW user, user \in BOOLEAN, NEW looked, NEW by,
           Saved(r, said, user, looked), EditOK(board, r, by),
           NEW c \in rows, c # by, NEW n \in CardIds, <<c, n>> \notin cutoff'
    PROVE  Known(view[c][n], waiting'[c][n], sending'[c][n], c, r.b.cards[n])
<1> DEFINE w == waiting[c][n]
           s == sending[c][n]
           v == view[c][n]
           old == board.cards[n]
<1>1. c \in BoardClaudes /\ r.news \in [BoardClaudes -> SUBSET CardIds]
  BY DEF BoardIInv, OutboxTyped, EditOK
<1>2. <<c, n>> \notin cutoff /\ <<c, n>> \notin Silently(r.b)
  BY <1>1, SavedPoint
<1>3. ~Quiet(board, r.b, c, n)
  BY <1>2, QuietIsSilent
<1>4. Known(v, w, s, c, old)
  BY <1>2 DEF BoardIInv, KnownOK
<1>5. n \in r.news[c] => (old.arch => Is(c, old))
  BY <1>1, <1>3 DEF EditOK
<1>6. n \notin r.news[c] => /\ Is(c, r.b.cards[n]) /\ ~r.b.cards[n].arch <=> Is(c, old) /\ ~old.arch
                            /\ Is(c, r.b.cards[n]) => /\ r.b.cards[n].col = old.col
                                                      /\ r.b.cards[n].txt = old.txt
  BY <1>1, <1>3 DEF EditOK
<1>7. \/ n \notin r.news[c] /\ waiting'[c][n] = w /\ sending'[c][n] = s
      \/ /\ user /\ n \in r.news[c] /\ sending'[c][n] = s
         /\ waiting'[c][n] = Told(w, old, said)
      \/ /\ ~user /\ n \in r.news[c] /\ waiting'[c][n] = w
         /\ sending'[c][n] = Told(s, old, said)
  <2>1. ToldOf(r, said, user, c, n)
    BY <1>1, SavedPoint
  <2> QED BY <2>1 DEF ToldOf
<1>8. w \in News /\ s \in News
  BY <1>1 DEF BoardIInv, OutboxTyped, Queues
<1> HIDE DEF w, s, v, old
<1>9. ASSUME NEW q, q = Told(w, old, said) \/ q = Told(s, old, said)
      PROVE  q.on /\ (q = Told(w, old, said) => q.base = IF w.on THEN w.base ELSE old)
             /\ (q = Told(s, old, said) => q.base = IF s.on THEN s.base ELSE old)
  BY <1>9 DEF Told
<1>10. CASE n \notin r.news[c] /\ waiting'[c][n] = w /\ sending'[c][n] = s
  <2>1. ASSUME Knows(v, c, old) PROVE Knows(v, c, r.b.cards[n])
    <3>1. Is(c, r.b.cards[n]) => Is(c, old)
      BY <1>1, <1>3, <1>6, <1>10, BoardAssumption DEF Is, Gone, Quiet, old
    <3> QED BY <1>6, <1>10, <2>1, <3>1 DEF Knows
  <2> QED BY <1>4, <1>10, <2>1 DEF Known, v
<1>11. CASE n \in r.news[c] /\ sending'[c][n] = s /\ waiting'[c][n] = Told(w, old, said)
  <2> DEFINE q == waiting'[c][n]
  <2>1. q.on /\ q.base = IF w.on THEN w.base ELSE old
    BY <1>9, <1>11
  <2> HIDE DEF q
  <2>2. BaseOK(q, c)
    BY <1>4, <1>5, <1>11, <2>1 DEF Known, BaseOK
  <2>3. \/ q.on /\ Knows(v, c, q.base)
        \/ s.on /\ Knows(v, c, s.base)
    BY <1>4, <2>1 DEF Known
  <2> QED BY <1>4, <1>11, <2>2, <2>3 DEF Known, q, v
<1>12. CASE n \in r.news[c] /\ waiting'[c][n] = w /\ sending'[c][n] = Told(s, old, said)
  <2> DEFINE q == sending'[c][n]
  <2>1. q.on /\ q.base = IF s.on THEN s.base ELSE old
    BY <1>9, <1>12
  <2> HIDE DEF q
  <2>2. BaseOK(q, c)
    BY <1>4, <1>5, <1>12, <2>1 DEF Known, BaseOK
  <2>3. \/ q.on /\ Knows(v, c, q.base)
        \/ w.on /\ Knows(v, c, w.base)
    BY <1>4, <2>1 DEF Known
  <2> QED BY <1>4, <1>12, <2>2, <2>3 DEF Known, q, v
<1> QED BY <1>7, <1>10, <1>11, <1>12
LEMMA SavedSaid ==
    ASSUME BoardIInv, NEW r, NEW user, user \in BOOLEAN, NEW looked, NEW by,
           Saved(r, FALSE, user, looked), EditOK(board, r, by)
    PROVE  \A n \in CardIds : Owes(waiting, n)' = Owes(waiting, n) /\ Owes(sending, n)' = Owes(sending, n)
<1>1. r.news \in [BoardClaudes -> SUBSET CardIds]
  BY DEF EditOK
<1> SUFFICES ASSUME NEW n \in CardIds, NEW c \in BoardClaudes
             PROVE  /\ waiting'[c][n].said <=> waiting[c][n].said
                    /\ sending'[c][n].said <=> sending[c][n].said
  BY DEF Owes
<1>2. ToldOf(r, FALSE, user, c, n)
  BY <1>1, SavedPoint
<1>3. Told(waiting[c][n], board.cards[n], FALSE).said <=> waiting[c][n].said
  BY DEF Told
<1>4. Told(sending[c][n], board.cards[n], FALSE).said <=> sending[c][n].said
  BY DEF Told
<1> QED BY <1>2, <1>3, <1>4 DEF ToldOf

LEMMA SavedKeepsSaid ==
    ASSUME BoardIInv, NEW r, NEW user, user \in BOOLEAN, NEW looked, NEW by,
           Saved(r, FALSE, user, looked), EditOK(board, r, by), SayKept(board, r)
    PROVE  SaidOK'
<1>1. board' = r.b /\ heard' = heard
  BY SavedPoint DEF EditOK
<1>2. \A n \in CardIds : Owes(waiting, n)' = Owes(waiting, n) /\ Owes(sending, n)' = Owes(sending, n)
  BY SavedSaid
<1>3. SUFFICES ASSUME NEW n \in CardIds, r.b.cards[n].col # 0
               PROVE  /\ r.b.cards[n].say = Silent \/ heard[n] # Silent
                            => Owes(waiting, n) = {} /\ Owes(sending, n) = {}
                      /\ heard[n] # Silent => heard[n] = r.b.cards[n].say
                      /\ Owes(waiting, n) = {} \/ Owes(sending, n) = {}
                      /\ \A c, d \in Owes(waiting, n) \cup Owes(sending, n) : c = d
  BY <1>1, <1>2, <1>3 DEF SaidOK
<1>4. CASE board.cards[n].col # 0
  <2>1. r.b.cards[n].say = board.cards[n].say
    BY <1>3, <1>4 DEF SayKept
  <2> QED BY <1>4, <2>1 DEF BoardIInv, SaidOK
<1>5. CASE board.cards[n].col = 0
  <2>1. n > board.made
    BY <1>3, <1>5 DEF EditOK
  <2>2. heard[n] = Silent /\ \A c \in BoardClaudes : ~waiting[c][n].said /\ ~sending[c][n].said
    BY <2>1 DEF BoardIInv, QueuesOK
  <2>3. Owes(waiting, n) = {} /\ Owes(sending, n) = {}
    BY <2>2 DEF Owes
  <2> QED BY <2>2, <2>3
<1> QED BY <1>4, <1>5

\* A comment is put on a card that had none: it is told to at most one claude.
LEMMA SavedComments ==
    ASSUME BoardIInv, NEW r, NEW user, user \in BOOLEAN, NEW looked, NEW by, NEW n \in CardIds,
           Saved(r, TRUE, user, looked), EditOK(board, r, by), Comment(board, r, n),
           board.cards[n].col # 0, board.cards[n].say = Silent, r.b.cards[n].say # Silent
    PROVE  SaidOK'
<1>1. board' = r.b /\ heard' = heard /\ r.news \in [BoardClaudes -> SUBSET CardIds]
  BY SavedPoint DEF EditOK
<1>2. \A c \in BoardClaudes, m \in CardIds : ToldOf(r, TRUE, user, c, m)
  BY <1>1, SavedPoint
<1>3. ASSUME NEW m \in CardIds, m # n, r.b.cards[m].col # 0
      PROVE  /\ r.b.cards[m].say = board.cards[m].say /\ board.cards[m].col # 0
             /\ Owes(waiting, m)' = Owes(waiting, m) /\ Owes(sending, m)' = Owes(sending, m)
  <2>1. \A c \in BoardClaudes : m \notin r.news[c]
    BY <1>1, <1>3 DEF Comment
  <2>2. \A c \in BoardClaudes : waiting'[c][m] = waiting[c][m] /\ sending'[c][m] = sending[c][m]
    BY <1>2, <2>1 DEF ToldOf
  <2> QED BY <1>3, <2>2 DEF Comment, Owes
<1>4. heard[n] = Silent /\ Owes(waiting, n) = {} /\ Owes(sending, n) = {}
  BY DEF BoardIInv, SaidOK
<1>5. \A c \in BoardClaudes : ~waiting[c][n].said /\ ~sending[c][n].said
  BY <1>4 DEF Owes
<1>6. ASSUME NEW c \in BoardClaudes
      PROVE  /\ waiting'[c][n].said => user /\ board.cards[n].owner = c
             /\ sending'[c][n].said => ~user /\ board.cards[n].owner = c
  <2>1. n \in r.news[c] => board.cards[n].owner = c
    BY DEF Comment
  <2> QED BY <1>2, <1>5, <2>1 DEF ToldOf
<1>7. /\ Owes(waiting, n)' = {} \/ Owes(sending, n)' = {}
      /\ \A c, d \in Owes(waiting, n)' \cup Owes(sending, n)' : c = d
  BY <1>6 DEF Owes
<1>8. ASSUME NEW m \in CardIds, r.b.cards[m].col # 0
      PROVE  /\ r.b.cards[m].say = Silent \/ heard[m] # Silent
                   => Owes(waiting, m)' = {} /\ Owes(sending, m)' = {}
             /\ heard[m] # Silent => heard[m] = r.b.cards[m].say
             /\ Owes(waiting, m)' = {} \/ Owes(sending, m)' = {}
             /\ \A c, d \in Owes(waiting, m)' \cup Owes(sending, m)' : c = d
  <2>1. CASE m = n
    BY <1>4, <1>7, <2>1
  <2>2. CASE m # n
    BY <1>3, <1>8, <2>2 DEF BoardIInv, SaidOK
  <2> QED BY <2>1, <2>2
<1> QED BY <1>1, <1>8 DEF SaidOK

\* A comment that is edited or deleted was not told yet.
LEMMA SavedCommentEdit ==
    ASSUME BoardIInv, NEW r, NEW user, user \in BOOLEAN, NEW looked, NEW by, NEW n \in CardIds,
           Saved(r, FALSE, user, looked), EditOK(board, r, by), Comment(board, r, n),
           board.cards[n].col # 0, Owes(waiting, n) # {}, r.b.cards[n].say # Silent
    PROVE  SaidOK'
<1>1. board' = r.b /\ heard' = heard
  BY SavedPoint DEF EditOK
<1>2. \A m \in CardIds : Owes(waiting, m)' = Owes(waiting, m) /\ Owes(sending, m)' = Owes(sending, m)
  BY SavedSaid
<1>3. heard[n] = Silent
  BY DEF BoardIInv, SaidOK
<1>4. \A m \in CardIds : m # n /\ r.b.cards[m].col # 0 => r.b.cards[m].say = board.cards[m].say /\ board.cards[m].col # 0
  BY DEF Comment
<1>5. ASSUME NEW m \in CardIds, r.b.cards[m].col # 0
      PROVE  /\ r.b.cards[m].say = Silent \/ heard[m] # Silent
                   => Owes(waiting, m) = {} /\ Owes(sending, m) = {}
             /\ heard[m] # Silent => heard[m] = r.b.cards[m].say
             /\ Owes(waiting, m) = {} \/ Owes(sending, m) = {}
             /\ \A c, d \in Owes(waiting, m) \cup Owes(sending, m) : c = d
  <2>1. CASE m = n
    BY <1>3, <2>1 DEF BoardIInv, SaidOK
  <2>2. CASE m # n
    BY <1>4, <1>5, <2>2 DEF BoardIInv, SaidOK
  <2> QED BY <2>1, <2>2
<1> QED BY <1>1, <1>2, <1>5 DEF SaidOK

-----------------------------------------------------------------------------
(* The steps.                                                               *)

LEMMA UserDoesOK ==
    ASSUME BoardIInv, NEW r, NEW said, said \in BOOLEAN,
           Saved(r, said, TRUE, {}), EditOK(board, r, Nobody), view' = view,
           proposals' \subseteq Proposals, SaidOK'
    PROVE  BoardIInv'
<1>1. r.news \in [BoardClaudes -> SUBSET CardIds] /\ BoardFine(r.b)
  BY DEF EditOK
<1>2. /\ waiting' \in Queues /\ sending' \in Queues
      /\ board' = r.b /\ rows' = rows /\ heard' = heard
  BY <1>1, SavedPoint
<1>3. OutboxTyped'
  BY <1>2 DEF BoardIInv, OutboxTyped
<1>4. BoardFine(board)'
  BY <1>1, <1>2 DEF BoardFine
<1>5. QueuesOK'
  BY SavedQueues
<1>6. ASSUME NEW c \in rows, NEW n \in CardIds, <<c, n>> \notin cutoff'
      PROVE  Known(view[c][n], waiting'[c][n], sending'[c][n], c, r.b.cards[n])
  <2>1. c # Nobody
    BY BoardAssumption DEF BoardIInv, OutboxTyped
  <2> QED BY ZenonT(30), <1>6, <2>1, SavedKnown
<1>7. KnownOK'
  BY <1>2, <1>6 DEF KnownOK
<1> QED BY <1>3, <1>4, <1>5, <1>7 DEF BoardIInv

\* After a hub_board call its claude knows how its cards stand.
LEMMA ShownKnown ==
    ASSUME NEW c, NEW b, NEW knew, NEW n \in CardIds, b.cards[n] \in BoardCard, knew[n] \in Seen
    PROVE  /\ Shown(c, b, knew)[n] \in Seen
           /\ \/ knew[n].col = b.cards[n].col /\ knew[n].txt = b.cards[n].txt
              \/ Knows(knew[n], c, b.cards[n])
              => Knows(Shown(c, b, knew)[n], c, b.cards[n])
<1> DEFINE card == b.cards[n]
           v == Shown(c, b, knew)[n]
<1>1. v = IF Is(c, card) /\ ~card.arch
          THEN [on |-> TRUE, col |-> card.col, txt |-> card.txt]
          ELSE [knew[n] EXCEPT !.on = FALSE]
  BY DEF Shown
<1>2. knew[n] = [on |-> knew[n].on, col |-> knew[n].col, txt |-> knew[n].txt]
  BY DEF Seen
<1>3. card.col \in Nat /\ card.txt \in Nat /\ card.arch \in BOOLEAN
  BY DEF BoardCard
<1> HIDE DEF v, card
<1>4. CASE Is(c, card) /\ ~card.arch
  <2>1. v = [on |-> TRUE, col |-> card.col, txt |-> card.txt]
    BY <1>1, <1>4
  <2>2. v \in Seen
    BY <1>3, <2>1 DEF Seen
  <2>3. v.on /\ v.col = card.col /\ v.txt = card.txt
    BY <2>1
  <2>4. Knows(v, c, card)
    BY <1>4, <2>3 DEF Knows
  <2> QED BY <2>2, <2>4 DEF v, card
<1>5. CASE ~(Is(c, card) /\ ~card.arch)
  <2>1. v = [knew[n] EXCEPT !.on = FALSE]
    BY <1>1, <1>5
  <2>2. v = [on |-> FALSE, col |-> knew[n].col, txt |-> knew[n].txt]
    BY <1>2, <2>1
  <2>3. v \in Seen
    BY <2>2 DEF Seen
  <2>4. ~v.on /\ v.col = knew[n].col /\ v.txt = knew[n].txt
    BY <2>2
  <2>5. ASSUME \/ knew[n].col = card.col /\ knew[n].txt = card.txt
               \/ Knows(knew[n], c, card)
        PROVE  Knows(v, c, card)
    <3>1. Is(c, card) => v.col = card.col /\ v.txt = card.txt
      BY <2>4, <2>5 DEF Knows
    <3> QED BY <1>5, <2>4, <3>1 DEF Knows
  <2> QED BY <2>3, <2>5 DEF v, card
<1> QED BY <1>4, <1>5
LEMMA ClaudeDoesOK ==
    ASSUME BoardIInv, NEW c \in BoardClaudes, NEW r, NEW said, said \in BOOLEAN, NEW n,
           ClaudeDoes(c, r, said, n), EditOK(board, r, c), Touches(board, r, n),
           proposals' \subseteq Proposals, SaidOK'
    PROVE  BoardIInv'
<1> DEFINE looked == {<<c, m>> : m \in Queued(c)}
           knew == [m \in CardIds |->
                       IF m = n THEN [on |-> FALSE, col |-> r.b.cards[m].col, txt |-> r.b.cards[m].txt]
                       ELSE view[c][m]]
<1>1. /\ Saved(r, said, FALSE, looked) /\ c \in rows
      /\ view' = [view EXCEPT ![c] = Shown(c, r.b, [m \in CardIds |->
             IF m = n THEN [on |-> FALSE, col |-> r.b.cards[m].col, txt |-> r.b.cards[m].txt]
             ELSE view[c][m]])]
  <2>1. view \in [BoardClaudes -> [CardIds -> Seen]]
    BY DEF BoardIInv, OutboxTyped
  <2> QED BY <2>1 DEF ClaudeDoes
<1>2. view' = [view EXCEPT ![c] = Shown(c, r.b, knew)]
  BY <1>1
<1> HIDE DEF knew, looked
<1>3. r.news \in [BoardClaudes -> SUBSET CardIds] /\ BoardFine(r.b)
  BY DEF EditOK
<1>4. /\ waiting' \in Queues /\ sending' \in Queues
      /\ board' = r.b /\ rows' = rows /\ heard' = heard
      /\ \A p \in cutoff \cup looked \cup Silently(r.b) : p \in cutoff'
      /\ \A d \in BoardClaudes, m \in CardIds : ToldOf(r, said, FALSE, d, m)
  BY <1>1, <1>3, SavedPoint
<1>5. view \in [BoardClaudes -> [CardIds -> Seen]] /\ rows \subseteq BoardClaudes
  BY DEF BoardIInv, OutboxTyped
<1>6. ASSUME NEW m \in CardIds
      PROVE  /\ r.b.cards[m] \in BoardCard /\ knew[m] \in Seen
             /\ m = n => knew[m].col = r.b.cards[m].col /\ knew[m].txt = r.b.cards[m].txt
             /\ m # n => knew[m] = view[c][m]
  <2>1. r.b.cards[m] \in BoardCard
    BY <1>3 DEF BoardFine
  <2> QED BY <1>5, <2>1 DEF knew, Seen, BoardCard
<1>7. ASSUME NEW m \in CardIds
      PROVE  /\ Shown(c, r.b, knew)[m] \in Seen
             /\ \/ knew[m].col = r.b.cards[m].col /\ knew[m].txt = r.b.cards[m].txt
                \/ Knows(knew[m], c, r.b.cards[m])
                => Knows(Shown(c, r.b, knew)[m], c, r.b.cards[m])
  BY <1>6, ShownKnown
<1>8. Shown(c, r.b, knew) \in [CardIds -> Seen]
  <2>1. Shown(c, r.b, knew) = [m \in CardIds |-> Shown(c, r.b, knew)[m]]
    BY DEF Shown
  <2> QED BY <1>7, <2>1
<1>9. OutboxTyped'
  BY <1>2, <1>4, <1>5, <1>8 DEF BoardIInv, OutboxTyped
<1>10. BoardFine(board)'
  BY <1>3, <1>4 DEF BoardFine
<1>11. QueuesOK'
  BY <1>1, SavedQueues
<1>12. ASSUME NEW d \in rows, NEW m \in CardIds, <<d, m>> \notin cutoff'
       PROVE  Known(view'[d][m], waiting'[d][m], sending'[d][m], d, r.b.cards[m])
  <2>1. CASE d # c
    <3>1. view'[d] = view[d]
      BY <1>2, <1>5, <2>1
    <3>2. Known(view[d][m], waiting'[d][m], sending'[d][m], d, r.b.cards[m])
      BY <1>1, <1>12, <2>1, SavedKnown
    <3> QED BY <3>1, <3>2
  <2>2. CASE d = c
    <3>1. <<c, m>> \notin cutoff /\ <<c, m>> \notin looked
      BY <1>4, <1>12, <2>2
    <3>2. ~waiting[c][m].on /\ ~sending[c][m].on
      BY <3>1 DEF looked, Queued
    <3>3. m \notin r.news[c]
      BY DEF EditOK
    <3>4. waiting'[c][m] = waiting[c][m] /\ sending'[c][m] = sending[c][m]
      BY <1>4, <3>3 DEF ToldOf
    <3>5. Known(view[c][m], waiting[c][m], sending[c][m], c, board.cards[m])
      BY <1>1, <3>1 DEF BoardIInv, KnownOK
    <3>6. Knows(view[c][m], c, board.cards[m])
      BY <3>2, <3>5 DEF Known
    <3>7. m # n => Knows(knew[m], c, r.b.cards[m])
      BY <1>6, <3>6 DEF Touches
    <3>8. Knows(Shown(c, r.b, knew)[m], c, r.b.cards[m])
      BY <1>6, <1>7, <3>7
    <3>9. view'[c] = Shown(c, r.b, knew)
      BY <1>2, <1>5
    <3> QED BY <2>2, <3>2, <3>4, <3>5, <3>8, <3>9 DEF Known
  <2> QED BY <2>1, <2>2
<1>13. KnownOK'
  BY <1>4, <1>12 DEF KnownOK
<1> QED BY <1>9, <1>10, <1>11, <1>13 DEF BoardIInv

\* hub_board list, and the answer to a proposal.
Looks(c) ==
    /\ c \in rows
    /\ view' = [view EXCEPT ![c] = Shown(c, board, view[c])]
    /\ cutoff' = cutoff \cup {<<c, n>> : n \in Queued(c)}
    /\ UNCHANGED <<board, waiting, sending, rows, heard>>

LEMMA LooksOK ==
    ASSUME BoardIInv, NEW c \in BoardClaudes, Looks(c), proposals' \subseteq Proposals
    PROVE  BoardIInv'
<1>1. /\ view' = [view EXCEPT ![c] = Shown(c, board, view[c])] /\ c \in rows
      /\ cutoff' = cutoff \cup {<<c, n>> : n \in Queued(c)}
      /\ board' = board /\ waiting' = waiting /\ sending' = sending /\ rows' = rows /\ heard' = heard
  BY DEF Looks
<1>2. view \in [BoardClaudes -> [CardIds -> Seen]] /\ BoardFine(board)
  BY DEF BoardIInv, OutboxTyped
<1>3. ASSUME NEW m \in CardIds
      PROVE  /\ Shown(c, board, view[c])[m] \in Seen
             /\ Knows(view[c][m], c, board.cards[m])
                => Knows(Shown(c, board, view[c])[m], c, board.cards[m])
  <2>1. board.cards[m] \in BoardCard /\ view[c][m] \in Seen
    BY <1>2 DEF BoardFine
  <2> QED BY <2>1, ShownKnown
<1>4. Shown(c, board, view[c]) \in [CardIds -> Seen]
  <2>1. Shown(c, board, view[c]) = [m \in CardIds |-> Shown(c, board, view[c])[m]]
    BY DEF Shown
  <2> QED BY <1>3, <2>1
<1>5. OutboxTyped'
  BY <1>1, <1>2, <1>4 DEF BoardIInv, OutboxTyped
<1>6. BoardFine(board)' /\ QueuesOK' /\ SaidOK'
  BY <1>1 DEF BoardIInv, BoardFine, QueuesOK, SaidOK, Owes
<1>7. ASSUME NEW d \in rows, NEW m \in CardIds, <<d, m>> \notin cutoff'
      PROVE  Known(view'[d][m], waiting[d][m], sending[d][m], d, board.cards[m])
  <2>1. Known(view[d][m], waiting[d][m], sending[d][m], d, board.cards[m])
    BY <1>1, <1>7 DEF BoardIInv, KnownOK
  <2>2. CASE d # c
    <3>1. view'[d] = view[d]
      BY <1>1, <1>2, <2>2
    <3> QED BY <2>1, <3>1
  <2>3. CASE d = c
    <3>1. ~waiting[c][m].on /\ ~sending[c][m].on
      BY <1>1, <1>7, <2>3 DEF Queued
    <3>2. Knows(Shown(c, board, view[c])[m], c, board.cards[m])
      BY <1>3, <2>1, <2>3, <3>1 DEF Known
    <3>3. view'[c] = Shown(c, board, view[c])
      BY <1>1, <1>2
    <3> QED BY <2>1, <2>3, <3>1, <3>2, <3>3 DEF Known
  <2> QED BY <2>2, <2>3
<1>8. KnownOK'
  BY <1>1, <1>7 DEF KnownOK
<1> QED BY <1>5, <1>6, <1>8 DEF BoardIInv
LEMMA NoNewsIs ==
    NoNews \in News /\ ~NoNews.on /\ ~NoNews.said
<1>1. NoCard \in BoardCard
  BY DEF BoardCard, NoCard, Says
<1> QED BY <1>1 DEF NoNews, News

LEMMA UpdateOK ==
    ASSUME BoardIInv, NEW c \in BoardClaudes, Update(c)
    PROVE  BoardIInv'
<1> DEFINE w(n) == waiting[c][n]
           s(n) == sending[c][n]
           sc == [n \in CardIds |-> Released(s(n), w(n))]
           none == [n \in CardIds |-> NoNews]
<1>1. waiting \in Queues /\ sending \in Queues
  BY DEF BoardIInv, OutboxTyped
<1>2. /\ sending' = [sending EXCEPT ![c] = sc] /\ waiting' = [waiting EXCEPT ![c] = none]
      /\ c \in rows
      /\ cutoff' = cutoff \cup {<<c, n>> : n \in {m \in CardIds : w(m).on /\ s(m).on}}
      /\ board' = board /\ proposals' = proposals /\ rows' = rows /\ view' = view /\ heard' = heard
  <2>1. sending' = [sending EXCEPT ![c] = sc]
    BY DEF Update
  <2>2. waiting' = [waiting EXCEPT ![c] = none]
    BY DEF Update
  <2>3. cutoff' = cutoff \cup {<<c, n>> : n \in {m \in CardIds : w(m).on /\ s(m).on}}
    BY DEF Update
  <2>4. c \in rows /\ board' = board /\ proposals' = proposals /\ rows' = rows /\ view' = view /\ heard' = heard
    BY DEF Update
  <2> QED BY <2>1, <2>2, <2>3, <2>4
<1>3. ASSUME NEW n \in CardIds
      PROVE  /\ w(n) \in News /\ s(n) \in News /\ sc[n] \in News
             /\ ~w(n).on => sc[n] = s(n)
             /\ w(n).on /\ ~s(n).on => sc[n] = w(n)
             /\ sc[n].said <=> s(n).said \/ w(n).said
             /\ sc[n].said => sc[n].on
             /\ sc[n].on <=> s(n).on \/ w(n).on
  <2>1. w(n) \in News /\ s(n) \in News
    BY <1>1 DEF Queues
  <2>2. (w(n).said => w(n).on) /\ (s(n).said => s(n).on)
    BY DEF BoardIInv, QueuesOK
  <2> DEFINE x == w(n)
             y == s(n)
  <2>3. sc[n] = IF ~x.on THEN y ELSE IF ~y.on THEN x ELSE [y EXCEPT !.said = y.said \/ x.said]
    BY DEF Released
  <2> HIDE DEF x, y, sc
  <2>4. x \in News /\ y \in News /\ (x.said => x.on) /\ (y.said => y.on)
    BY <2>1, <2>2 DEF x, y
  <2>5. CASE ~x.on
    BY <2>3, <2>4, <2>5 DEF x, y
  <2>6. CASE x.on /\ ~y.on
    BY <2>3, <2>4, <2>6 DEF x, y
  <2>7. CASE x.on /\ y.on
    <3>1. sc[n] = [y EXCEPT !.said = y.said \/ x.said]
      BY <2>3, <2>7
    <3>2. y = [on |-> y.on, base |-> y.base, said |-> y.said]
      BY <2>4 DEF News
    <3>3. sc[n] = [on |-> y.on, base |-> y.base, said |-> y.said \/ x.said]
      BY <3>1, <3>2
    <3>4. sc[n].on = y.on /\ (sc[n].said <=> y.said \/ x.said) /\ sc[n] \in News
      BY <2>4, <3>3 DEF News
    <3> QED BY <2>4, <2>7, <3>4 DEF x, y
  <2> QED BY <2>5, <2>6, <2>7
<1>4. none \in [CardIds -> News] /\ sc \in [CardIds -> News] /\ \A n \in CardIds : none[n] = NoNews
  BY <1>3, NoNewsIs
<1>5. /\ waiting' \in Queues /\ sending' \in Queues
      /\ waiting'[c] = none /\ sending'[c] = sc
      /\ \A d \in BoardClaudes : d # c => waiting'[d] = waiting[d] /\ sending'[d] = sending[d]
  <2> HIDE DEF none, sc
  <2> QED BY <1>1, <1>2, <1>4 DEF Queues
<1> HIDE DEF none, sc
<1>6. OutboxTyped' /\ BoardFine(board)'
  BY <1>2, <1>5 DEF BoardIInv, OutboxTyped, BoardFine
<1>7. ASSUME NEW n \in CardIds, NEW d \in BoardClaudes
      PROVE  /\ n > board.made => ~waiting'[d][n].on /\ ~sending'[d][n].on
             /\ waiting'[d][n].said => waiting'[d][n].on
             /\ sending'[d][n].said => sending'[d][n].on
  <2>1. /\ n > board.made => ~waiting[d][n].on /\ ~sending[d][n].on
        /\ waiting[d][n].said => waiting[d][n].on
        /\ sending[d][n].said => sending[d][n].on
    BY DEF BoardIInv, QueuesOK
  <2>2. CASE d # c
    BY <1>5, <2>1, <2>2
  <2>3. CASE d = c
    BY <1>3, <1>4, <1>5, <2>1, <2>3, NoNewsIs
  <2> QED BY <2>2, <2>3
<1>8. QueuesOK'
  BY <1>2, <1>7 DEF BoardIInv, QueuesOK
<1>9. ASSUME NEW d \in rows, NEW n \in CardIds, <<d, n>> \notin cutoff'
      PROVE  Known(view[d][n], waiting'[d][n], sending'[d][n], d, board.cards[n])
  <2>1. Known(view[d][n], waiting[d][n], sending[d][n], d, board.cards[n])
    BY <1>2, <1>9 DEF BoardIInv, KnownOK
  <2>2. CASE d # c
    <3>1. d \in BoardClaudes
      BY DEF BoardIInv, OutboxTyped
    <3> QED BY <1>5, <2>1, <2>2, <3>1
  <2>3. CASE d = c
    <3>1. ~(w(n).on /\ s(n).on)
      BY <1>2, <1>9, <2>3
    <3>2. waiting'[c][n] = NoNews /\ sending'[c][n] = sc[n]
      BY <1>4, <1>5
    <3>3. BaseOK(NoNews, c)
      BY NoNewsIs DEF BaseOK
    <3>4. sc[n] = IF w(n).on THEN w(n) ELSE s(n)
      BY <1>3, <3>1
    <3>5. Known(view[c][n], NoNews, sc[n], c, board.cards[n])
      BY <2>1, <2>3, <3>1, <3>3, <3>4, NoNewsIs DEF Known
    <3> QED BY <2>3, <3>2, <3>5
  <2> QED BY <2>2, <2>3
<1>10. KnownOK'
  BY <1>2, <1>9 DEF KnownOK
<1>11. ASSUME NEW n \in CardIds, board.cards[n].col # 0
       PROVE  /\ board.cards[n].say = Silent \/ heard[n] # Silent
                    => Owes(waiting, n)' = {} /\ Owes(sending, n)' = {}
              /\ heard[n] # Silent => heard[n] = board.cards[n].say
              /\ Owes(waiting, n)' = {} \/ Owes(sending, n)' = {}
              /\ \A d, e \in Owes(waiting, n)' \cup Owes(sending, n)' : d = e
  <2>1. Owes(waiting, n)' = Owes(waiting, n) \ {c}
    BY <1>4, <1>5, NoNewsIs DEF Owes
  <2>2. Owes(sending, n)' = Owes(sending, n) \cup (Owes(waiting, n) \cap {c})
    <3>1. \A d \in BoardClaudes : sending'[d][n].said <=> sending[d][n].said \/ (d = c /\ waiting[d][n].said)
      BY <1>3, <1>5
    <3> QED BY <3>1 DEF Owes
  <2>3. /\ board.cards[n].say = Silent \/ heard[n] # Silent => Owes(waiting, n) = {} /\ Owes(sending, n) = {}
        /\ heard[n] # Silent => heard[n] = board.cards[n].say
        /\ Owes(waiting, n) = {} \/ Owes(sending, n) = {}
        /\ \A d, e \in Owes(waiting, n) \cup Owes(sending, n) : d = e
    BY <1>11 DEF BoardIInv, SaidOK
  <2> QED BY <2>1, <2>2, <2>3
<1>12. SaidOK'
  BY <1>2, <1>11 DEF SaidOK
<1> QED BY <1>6, <1>8, <1>10, <1>12 DEF BoardIInv

LEMMA RowClosesOK ==
    ASSUME BoardIInv, NEW c \in BoardClaudes, RowCloses(c)
    PROVE  BoardIInv'
<1> DEFINE none == [n \in CardIds |-> NoNews]
<1>1. waiting \in Queues /\ sending \in Queues /\ rows \subseteq BoardClaudes
  BY DEF BoardIInv, OutboxTyped
<1>2. /\ sending' = [sending EXCEPT ![c] = none] /\ waiting' = [waiting EXCEPT ![c] = none]
      /\ rows' = rows \ {c} /\ cutoff' = cutoff
      /\ board' = board /\ proposals' = proposals /\ view' = view /\ heard' = heard
  BY DEF RowCloses
<1>3. none \in [CardIds -> News] /\ \A n \in CardIds : none[n] = NoNews
  BY NoNewsIs
<1> HIDE DEF none
<1>4. /\ waiting' \in Queues /\ sending' \in Queues
      /\ waiting'[c] = none /\ sending'[c] = none
      /\ \A d \in BoardClaudes : d # c => waiting'[d] = waiting[d] /\ sending'[d] = sending[d]
  BY <1>1, <1>2, <1>3 DEF Queues
<1>5. OutboxTyped' /\ BoardFine(board)'
  BY <1>1, <1>2, <1>4 DEF BoardIInv, OutboxTyped, BoardFine
<1>6. ASSUME NEW n \in CardIds, NEW d \in BoardClaudes
      PROVE  /\ n > board.made => ~waiting'[d][n].on /\ ~sending'[d][n].on
             /\ waiting'[d][n].said => waiting'[d][n].on
             /\ sending'[d][n].said => sending'[d][n].on
  <2>1. /\ n > board.made => ~waiting[d][n].on /\ ~sending[d][n].on
        /\ waiting[d][n].said => waiting[d][n].on
        /\ sending[d][n].said => sending[d][n].on
    BY DEF BoardIInv, QueuesOK
  <2> QED BY <1>3, <1>4, <2>1, NoNewsIs
<1>7. QueuesOK'
  BY <1>2, <1>6 DEF BoardIInv, QueuesOK
<1>8. KnownOK'
  BY <1>1, <1>2, <1>4 DEF BoardIInv, KnownOK
<1>9. \A n \in CardIds : Owes(waiting, n)' \subseteq Owes(waiting, n) /\ Owes(sending, n)' \subseteq Owes(sending, n)
  BY <1>3, <1>4, NoNewsIs DEF Owes
<1>10. ASSUME NEW n \in CardIds, board.cards[n].col # 0
       PROVE  /\ board.cards[n].say = Silent \/ heard[n] # Silent
                    => Owes(waiting, n)' = {} /\ Owes(sending, n)' = {}
              /\ heard[n] # Silent => heard[n] = board.cards[n].say
              /\ Owes(waiting, n)' = {} \/ Owes(sending, n)' = {}
              /\ \A d, e \in Owes(waiting, n)' \cup Owes(sending, n)' : d = e
  <2>1. /\ board.cards[n].say = Silent \/ heard[n] # Silent => Owes(waiting, n) = {} /\ Owes(sending, n) = {}
        /\ heard[n] # Silent => heard[n] = board.cards[n].say
        /\ Owes(waiting, n) = {} \/ Owes(sending, n) = {}
        /\ \A d, e \in Owes(waiting, n) \cup Owes(sending, n) : d = e
    BY <1>10 DEF BoardIInv, SaidOK
  <2>2. Owes(waiting, n)' \subseteq Owes(waiting, n) /\ Owes(sending, n)' \subseteq Owes(sending, n)
    BY <1>9
  <2> QED BY <2>1, <2>2
<1>11. SaidOK'
  BY <1>2, <1>10 DEF SaidOK
<1> QED BY <1>5, <1>7, <1>8, <1>11 DEF BoardIInv
\* A delivered message leaves its claude knowing the card as it is.
LEMMA ReadKnown ==
    ASSUME NEW c, NEW e, NEW card, NEW v, e \in News, card \in BoardCard, v \in Seen
    PROVE  /\ Read(c, e, card, v) \in Seen
           /\ ~e.on => Read(c, e, card, v) = v
           /\ e.on /\ BaseOK(e, c) /\ Knows(v, c, e.base) => Knows(Read(c, e, card, v), c, card)
<1> DEFINE x == Read(c, e, card, v)
           handed == Fresh(e) \/ ~Was(c, e)
<1>1. v = [on |-> v.on, col |-> v.col, txt |-> v.txt] /\ v.on \in BOOLEAN /\ v.col \in Nat /\ v.txt \in Nat
  BY DEF Seen
<1>2. card.col \in Nat /\ card.txt \in Nat /\ card.arch \in BOOLEAN
  BY DEF BoardCard
<1>3. e.base.col \in Nat /\ e.base.txt \in Nat /\ e.base.arch \in BOOLEAN /\ e.on \in BOOLEAN
  BY DEF News, BoardCard
<1>4. Was(c, e) <=> Is(c, e.base)
  BY DEF Was, Is, Fresh, Gone
<1>5. CASE ~Real(c, e, card)
  <2>1. x = v
    BY <1>5 DEF Read
  <2>2. ASSUME e.on, Knows(v, c, e.base) PROVE Knows(v, c, card)
    <3>1. CASE ~Concerns(c, e, card)
      <4>1. ~Is(c, e.base) /\ ~Is(c, card)
        BY <1>4, <2>2, <3>1 DEF Concerns, Fresh, Is, Gone
      <4> QED BY <2>2, <4>1 DEF Knows
    <3>2. CASE Concerns(c, e, card)
      <4>1. (Was(c, e) <=> Is(c, card)) /\ ~Differs(e, card)
        BY <1>5, <3>2 DEF Real, Was, Is
      <4>2. card.col = e.base.col /\ card.txt = e.base.txt /\ card.arch = e.base.arch
        BY <4>1 DEF Differs
      <4> QED BY <1>4, <2>2, <4>1, <4>2 DEF Knows
    <3> QED BY <3>1, <3>2
  <2> QED BY <2>1, <2>2
<1>6. CASE Real(c, e, card) /\ ~Is(c, card)
  <2>1. x = [v EXCEPT !.on = FALSE] /\ e.on
    BY <1>6 DEF Read, Real, Concerns
  <2>2. x = [on |-> FALSE, col |-> v.col, txt |-> v.txt]
    BY <1>1, <2>1
  <2> HIDE DEF x
  <2>3. x \in Seen /\ ~x.on
    BY <1>1, <2>2 DEF Seen
  <2>4. Knows(x, c, card)
    BY <1>6, <2>3 DEF Knows
  <2> QED BY <2>1, <2>3, <2>4 DEF x
<1>7. CASE Real(c, e, card) /\ Is(c, card)
  <2>1. x = [on |-> IF card.arch # e.base.arch THEN ~card.arch ELSE handed \/ v.on,
             col |-> IF handed \/ card.col # e.base.col THEN card.col ELSE v.col,
             txt |-> IF handed \/ card.txt # e.base.txt THEN card.txt ELSE v.txt]
    BY <1>7 DEF Read
  <2>2. e.on
    BY <1>7 DEF Real, Concerns
  <2>3. handed \in BOOLEAN /\ (handed <=> ~Is(c, e.base))
    BY <1>4 DEF Was, Is, Fresh, Gone
  <2> HIDE DEF x, handed
  <2>4. /\ x.on = IF card.arch # e.base.arch THEN ~card.arch ELSE handed \/ v.on
        /\ x.col = IF handed \/ card.col # e.base.col THEN card.col ELSE v.col
        /\ x.txt = IF handed \/ card.txt # e.base.txt THEN card.txt ELSE v.txt
    BY <2>1
  <2>5. x \in Seen
    <3>1. (IF card.arch # e.base.arch THEN ~card.arch ELSE handed \/ v.on) \in BOOLEAN
      BY <1>1, <1>2, <2>3
    <3>2. (IF handed \/ card.col # e.base.col THEN card.col ELSE v.col) \in Nat
      BY <1>1, <1>2
    <3>3. (IF handed \/ card.txt # e.base.txt THEN card.txt ELSE v.txt) \in Nat
      BY <1>1, <1>2
    <3> QED BY <2>1, <3>1, <3>2, <3>3 DEF Seen
  <2>6. ASSUME BaseOK(e, c), Knows(v, c, e.base) PROVE Knows(x, c, card)
    <3>1. e.base.arch => ~handed
      BY <2>2, <2>3, <2>6 DEF BaseOK
    <3>2. ~handed => (v.on <=> ~e.base.arch) /\ v.col = e.base.col /\ v.txt = e.base.txt
      BY <2>3, <2>6 DEF Knows
    <3>3. x.on <=> ~card.arch
      BY <1>1, <1>2, <1>3, <2>3, <2>4, <3>1, <3>2
    <3>4. x.col = card.col /\ x.txt = card.txt
      BY <2>4, <3>2
    <3> QED BY <1>7, <3>3, <3>4 DEF Knows
  <2> QED BY <2>2, <2>5, <2>6 DEF x
<1> QED BY <1>5, <1>6, <1>7

LEMMA DeliversOK ==
    ASSUME BoardIInv, NEW c \in BoardClaudes, Delivers(c)
    PROVE  BoardIInv'
<1> DEFINE none == [n \in CardIds |-> NoNews]
           due == {n \in CardIds : sending[c][n].on}
           vc == [n \in CardIds |-> Read(c, sending[c][n], board.cards[n], view[c][n])]
           hears(n) == /\ Is(c, board.cards[n]) /\ Concerns(c, sending[c][n], board.cards[n])
                       /\ Comments(sending[c][n], board.cards[n])
<1>1. waiting \in Queues /\ sending \in Queues /\ rows \subseteq BoardClaudes /\ BoardFine(board)
      /\ view \in [BoardClaudes -> [CardIds -> Seen]] /\ heard \in [CardIds -> Says]
  BY DEF BoardIInv, OutboxTyped
<1>2. /\ sending' = [sending EXCEPT ![c] = none] /\ c \in rows
      /\ waiting' = waiting /\ board' = board /\ proposals' = proposals /\ rows' = rows
  BY DEF Delivers
<1>3. \/ /\ view' = [view EXCEPT ![c] = vc]
         /\ heard' = [n \in CardIds |-> IF hears(n) THEN board.cards[n].say ELSE heard[n]]
         /\ cutoff' = cutoff \cup {<<c, n>> : n \in {m \in due : waiting[c][m].on}}
      \/ view' = view /\ heard' = heard /\ cutoff' = cutoff \cup {<<c, n>> : n \in due}
  BY DEF Delivers
<1>4. none \in [CardIds -> News] /\ \A n \in CardIds : none[n] = NoNews
  BY NoNewsIs
<1>5. ASSUME NEW n \in CardIds
      PROVE  /\ sending[c][n] \in News /\ waiting[c][n] \in News
             /\ board.cards[n] \in BoardCard /\ view[c][n] \in Seen
  BY <1>1 DEF Queues, BoardFine
<1>6. vc \in [CardIds -> Seen]
  BY <1>5, ReadKnown
<1>7. \A n \in CardIds : vc[n] = Read(c, sending[c][n], board.cards[n], view[c][n])
  OBVIOUS
<1>8. \A n \in CardIds : hears(n) => sending[c][n].said /\ n <= board.made /\ board.cards[n].say \in Says
  <2> TAKE n \in CardIds
  <2> HAVE hears(n)
  <2>1. sending[c][n].said /\ board.cards[n].col # 0
    BY DEF Is, Gone, Comments
  <2>2. n > board.made => board.cards[n].col = 0
    BY <1>1 DEF BoardFine, NoCard
  <2>3. board.cards[n].say \in Says
    BY <1>5 DEF BoardCard
  <2> QED BY <1>1, <2>1, <2>2, <2>3 DEF BoardFine, CardIds
<1> HIDE DEF none, vc, hears, due
<1>9. /\ sending' \in Queues /\ sending'[c] = none
      /\ \A d \in BoardClaudes : d # c => sending'[d] = sending[d]
  BY <1>1, <1>2, <1>4 DEF Queues
<1>10. /\ view' \in [BoardClaudes -> [CardIds -> Seen]] /\ heard' \in [CardIds -> Says]
       /\ \A n \in CardIds : heard'[n] = heard[n] \/ (hears(n) /\ heard'[n] = board.cards[n].say)
       /\ \A d \in BoardClaudes : d # c => view'[d] = view[d]
       /\ cutoff \subseteq cutoff'
  <2>1. CASE view' = view /\ heard' = heard /\ cutoff' = cutoff \cup {<<c, n>> : n \in due}
    BY <1>1, <2>1
  <2>2. CASE /\ view' = [view EXCEPT ![c] = vc]
             /\ heard' = [n \in CardIds |-> IF hears(n) THEN board.cards[n].say ELSE heard[n]]
             /\ cutoff' = cutoff \cup {<<c, n>> : n \in {m \in due : waiting[c][m].on}}
    <3>1. \A n \in CardIds : heard'[n] = heard[n] \/ (hears(n) /\ heard'[n] = board.cards[n].say)
      BY <2>2
    <3>2. heard' \in [CardIds -> Says]
      BY <1>1, <1>8, <2>2
    <3> QED BY <1>1, <1>6, <2>2, <3>1, <3>2
  <2> QED BY <1>3, <2>1, <2>2
<1>11. OutboxTyped' /\ BoardFine(board)'
  BY <1>1, <1>2, <1>9, <1>10 DEF BoardIInv, OutboxTyped, BoardFine
<1>12. ASSUME NEW n \in CardIds, NEW d \in BoardClaudes
       PROVE  /\ n > board.made => heard'[n] = Silent
              /\ n > board.made => ~waiting[d][n].on /\ ~sending'[d][n].on
              /\ waiting[d][n].said => waiting[d][n].on
              /\ sending'[d][n].said => sending'[d][n].on
  <2>1. /\ n > board.made => heard[n] = Silent
        /\ n > board.made => ~waiting[d][n].on /\ ~sending[d][n].on
        /\ waiting[d][n].said => waiting[d][n].on
        /\ sending[d][n].said => sending[d][n].on
    BY DEF BoardIInv, QueuesOK
  <2>2. n > board.made => ~hears(n)
    BY <1>1, <1>8 DEF BoardFine, CardIds
  <2>3. d # c => sending'[d][n] = sending[d][n]
    BY <1>9
  <2>4. sending'[c][n] = NoNews
    BY <1>4, <1>9
  <2> QED BY <1>10, <2>1, <2>2, <2>3, <2>4, NoNewsIs
<1>13. QueuesOK'
  <2>1. \A n \in CardIds : n > board.made => heard'[n] = Silent
    <3> TAKE n \in CardIds
    <3> HAVE n > board.made
    <3>1. heard[n] = Silent
      BY DEF BoardIInv, QueuesOK
    <3>2. ~hears(n)
      BY <1>1, <1>8 DEF BoardFine, CardIds
    <3> QED BY <1>10, <3>1, <3>2
  <2> QED BY <1>2, <1>12, <2>1 DEF QueuesOK
<1>14. ASSUME NEW d \in rows, NEW n \in CardIds, <<d, n>> \notin cutoff'
       PROVE  Known(view'[d][n], waiting[d][n], sending'[d][n], d, board.cards[n])
  <2>1. d \in BoardClaudes /\ Known(view[d][n], waiting[d][n], sending[d][n], d, board.cards[n])
    BY <1>1, <1>10, <1>14 DEF BoardIInv, KnownOK
  <2>2. CASE d # c
    BY <1>9, <1>10, <2>1, <2>2
  <2>3. CASE d = c
    <3>1. sending'[c][n] = NoNews /\ BaseOK(NoNews, c)
      BY <1>4, <1>9, NoNewsIs DEF BaseOK
    <3>2. CASE ~sending[c][n].on
      <4>1. view'[c][n] = view[c][n]
        <5>1. vc[n] = view[c][n]
          BY <1>5, <1>7, <3>2, ReadKnown
        <5> QED BY <1>1, <1>3, <5>1
      <4> QED BY <2>1, <2>3, <3>1, <3>2, <4>1, NoNewsIs DEF Known
    <3>3. CASE sending[c][n].on
      <4>1. n \in due
        BY <3>3 DEF due
      <4>2. view' = [view EXCEPT ![c] = vc] /\ ~waiting[c][n].on
        BY <1>3, <1>14, <2>3, <4>1
      <4>3. view'[c][n] = Read(c, sending[c][n], board.cards[n], view[c][n])
        BY <1>1, <1>7, <4>2
      <4>4. BaseOK(sending[c][n], c) /\ Knows(view[c][n], c, sending[c][n].base)
        BY <2>1, <2>3, <3>3, <4>2 DEF Known
      <4>5. Knows(view'[c][n], c, board.cards[n])
        BY <1>5, <3>3, <4>3, <4>4, ReadKnown
      <4> QED BY <2>1, <2>3, <3>1, <4>2, <4>5, NoNewsIs DEF Known
    <3> QED BY <3>2, <3>3
  <2> QED BY <2>2, <2>3
<1>15. KnownOK'
  BY <1>2, <1>14 DEF KnownOK
<1>16. ASSUME NEW n \in CardIds, board.cards[n].col # 0
       PROVE  /\ board.cards[n].say = Silent \/ heard'[n] # Silent
                    => Owes(waiting, n) = {} /\ Owes(sending, n)' = {}
              /\ heard'[n] # Silent => heard'[n] = board.cards[n].say
              /\ Owes(waiting, n) = {} \/ Owes(sending, n)' = {}
              /\ \A d, e \in Owes(waiting, n) \cup Owes(sending, n)' : d = e
  <2>1. Owes(sending, n)' = Owes(sending, n) \ {c}
    BY <1>4, <1>9, NoNewsIs DEF Owes
  <2>2. /\ board.cards[n].say = Silent \/ heard[n] # Silent => Owes(waiting, n) = {} /\ Owes(sending, n) = {}
        /\ heard[n] # Silent => heard[n] = board.cards[n].say
        /\ Owes(waiting, n) = {} \/ Owes(sending, n) = {}
        /\ \A d, e \in Owes(waiting, n) \cup Owes(sending, n) : d = e
    BY <1>16 DEF BoardIInv, SaidOK
  <2>3. CASE heard'[n] = heard[n]
    BY <2>1, <2>2, <2>3
  <2>4. CASE hears(n) /\ heard'[n] = board.cards[n].say
    <3>1. c \in Owes(sending, n)
      BY <1>8, <2>4 DEF Owes
    <3>2. Owes(sending, n)' = {} /\ Owes(waiting, n) = {}
      BY <2>1, <2>2, <3>1
    <3> QED BY <2>4, <3>2
  <2> QED BY <1>10, <2>3, <2>4
<1>17. SaidOK'
  <2>1. \A n \in CardIds : Owes(waiting, n)' = Owes(waiting, n)
    BY <1>2 DEF Owes
  <2> QED BY ZenonT(30), <1>2, <1>16, <2>1 DEF SaidOK
<1> QED BY <1>11, <1>13, <1>15, <1>17 DEF BoardIInv
LEMMA BoardStarts == BoardInit => BoardIInv
<1> SUFFICES ASSUME BoardInit PROVE BoardIInv
  OBVIOUS
<1>1. NoCard \in BoardCard /\ NoCard.col = 0
  BY DEF BoardCard, NoCard, Says
<1>2. /\ board = [cols |-> <<1, 2>>, cards |-> [n \in CardIds |-> NoCard], made |-> 0, madeCols |-> 2]
      /\ waiting = [c \in BoardClaudes |-> [n \in CardIds |-> NoNews]] /\ sending = waiting
      /\ view = [c \in BoardClaudes |-> [n \in CardIds |-> Unknown]]
      /\ heard = [n \in CardIds |-> Silent] /\ rows = BoardClaudes /\ proposals = {}
  BY DEF BoardInit
<1>3. BoardFine(board)
  <2>1. 1 \in ColIds /\ 2 \in ColIds /\ 0 \in 0..MaxCards
    BY BoardAssumption DEF ColIds
  <2> DEFINE s == <<1, 2>>
  <2>2. s \in Seq(ColIds) /\ Len(s) = 2 /\ s[1] = 1 /\ s[2] = 2
    BY <2>1
  <2> HIDE DEF s
  <2>3. ColsFine(s, 2)
    BY <2>2 DEF ColsFine
  <2>4. board.cols = s /\ board.madeCols = 2 /\ board.made = 0
        /\ \A n \in CardIds : board.cards[n] = NoCard
    BY <1>2 DEF s
  <2>5. board \in [cols : Seq(ColIds), cards : [CardIds -> BoardCard], made : 0..MaxCards, madeCols : ColIds]
    <3>1. board = [cols |-> s, cards |-> [n \in CardIds |-> NoCard], made |-> 0, madeCols |-> 2]
      BY <1>2 DEF s
    <3> QED BY <1>1, <2>1, <2>2, <3>1
  <2> QED BY <1>1, <2>3, <2>4, <2>5 DEF BoardFine
<1>4. OutboxTyped
  <2>1. waiting \in Queues /\ sending \in Queues
    BY <1>2, NoNewsIs DEF Queues
  <2>2. Unknown \in Seen /\ Silent \in Says
    BY DEF Unknown, Seen, Says
  <2> QED BY <1>2, <2>1, <2>2 DEF OutboxTyped
<1>5. \A c \in BoardClaudes, n \in CardIds : waiting[c][n] = NoNews /\ sending[c][n] = NoNews
  BY <1>2
<1>6. QueuesOK
  BY <1>2, <1>5, NoNewsIs DEF QueuesOK
<1>7. KnownOK
  <2> SUFFICES ASSUME NEW c \in rows, NEW n \in CardIds
               PROVE  Known(view[c][n], waiting[c][n], sending[c][n], c, board.cards[n])
    BY DEF KnownOK
  <2>1. waiting[c][n] = NoNews /\ sending[c][n] = NoNews /\ view[c][n] = Unknown /\ board.cards[n] = NoCard
    BY <1>2, <1>5
  <2>2. ~Unknown.on
    BY DEF Unknown
  <2>3. Knows(Unknown, c, NoCard)
    BY <1>1, <2>2 DEF Knows, Is, Gone
  <2> QED BY <2>1, <2>3, NoNewsIs DEF Known, BaseOK
<1>8. SaidOK
  BY <1>1, <1>2 DEF SaidOK
<1> QED BY <1>3, <1>4, <1>6, <1>7, <1>8 DEF BoardIInv

\* A claude's own edits.
LEMMA ClaudeSteps ==
    ASSUME BoardIInv, NEW c \in BoardClaudes,
           \/ \E owner \in Owners, col \in ColIds : ClaudeAdds(c, owner, col)
           \/ \E n \in Present(board) :
                 \/ ClaudeEdits(c, n) \/ ClaudeComments(c, n) \/ ClaudeArchives(c, n)
                 \/ \E owner \in Owners : ClaudeAssigns(c, n, owner)
                 \/ \E col \in ColIds : ClaudeMoves(c, n, col)
    PROVE  BoardIInv'
<1> DEFINE looked == {<<c, m>> : m \in Queued(c)}
<1>1. BoardFine(board) /\ proposals \subseteq Proposals
  BY DEF BoardIInv, OutboxTyped
<1>2. ASSUME NEW r, NEW said, said \in BOOLEAN, NEW n, ClaudeDoes(c, r, said, n)
      PROVE  Saved(r, said, FALSE, looked) /\ r.ok
  BY <1>2 DEF ClaudeDoes, Saved
<1>3. \A n \in Present(board) : n \in CardIds /\ board.cards[n].col # 0
  BY DEF Present
<1> HIDE DEF looked
<1>4. ASSUME NEW r, NEW n, ClaudeDoes(c, r, FALSE, n), UNCHANGED proposals,
             EditOK(board, r, c), SayKept(board, r), Touches(board, r, n)
      PROVE  BoardIInv'
  <2>1. Saved(r, FALSE, FALSE, looked)
    BY <1>2, <1>4
  <2>2. SaidOK'
    BY <1>4, <2>1, SavedKeepsSaid
  <2> QED BY <1>1, <1>4, <2>2, ClaudeDoesOK
<1>5. ASSUME NEW owner \in Owners, NEW col \in ColIds, ClaudeAdds(c, owner, col) PROVE BoardIInv'
  <2> DEFINE r == AddCard(board, owner, col, 1, c)
  <2>1. ClaudeDoes(c, r, FALSE, board.made + 1) /\ UNCHANGED proposals
    BY <1>5 DEF ClaudeAdds
  <2>2. EditOK(board, r, c) /\ SayKept(board, r) /\ Touches(board, r, board.made + 1)
    BY <1>1, AddCardOK
  <2> HIDE DEF r
  <2> QED BY <1>4, <2>1, <2>2
<1>6. ASSUME NEW n \in Present(board), ClaudeEdits(c, n) PROVE BoardIInv'
  <2>1. PICK txt \in Texts : ClaudeDoes(c, EditCard(board, n, txt, c), FALSE, n)
    BY <1>6 DEF ClaudeEdits
  <2>2. UNCHANGED proposals
    BY <1>6 DEF ClaudeEdits
  <2> DEFINE r == EditCard(board, n, txt, c)
  <2>3. EditOK(board, r, c) /\ SayKept(board, r) /\ Touches(board, r, n)
    BY <1>1, <1>3, EditCardOK
  <2>4. ClaudeDoes(c, r, FALSE, n)
    BY <2>1
  <2> HIDE DEF r
  <2> QED BY <1>4, <2>2, <2>3, <2>4
<1>7. ASSUME NEW n \in Present(board), ClaudeComments(c, n) PROVE BoardIInv'
  <2> DEFINE r == SayOn(board, n, ByClaude, c)
  <2>1. ClaudeDoes(c, r, TRUE, n) /\ UNCHANGED proposals
    BY <1>7 DEF ClaudeComments
  <2>2. ByClaude \in Says /\ ByClaude # Silent
    BY DEF Says, ByClaude, Silent
  <2>3. /\ EditOK(board, r, c) /\ Touches(board, r, n) /\ (r.ok => board.cards[n].say = Silent)
        /\ r.ok => Comment(board, r, n) /\ r.b.cards[n].say = ByClaude
    BY <1>1, <1>3, <2>2, SayOnOK
  <2> HIDE DEF r
  <2>4. Saved(r, TRUE, FALSE, looked) /\ r.ok
    BY <1>2, <2>1
  <2>5. SaidOK'
    BY <1>3, <2>2, <2>3, <2>4, SavedComments
  <2> QED BY <1>1, <2>1, <2>3, <2>5, ClaudeDoesOK
<1>8. ASSUME NEW n \in Present(board), ClaudeArchives(c, n) PROVE BoardIInv'
  <2> DEFINE ns == {n}
             r == ArchiveCards(board, ns, TRUE, c)
  <2>1. ClaudeDoes(c, r, FALSE, n) /\ UNCHANGED proposals
    BY <1>8 DEF ClaudeArchives
  <2>2. ns \in SUBSET CardIds /\ \A m \in ns : board.cards[m].col # 0
    BY <1>3
  <2>3. ns = {n}
    OBVIOUS
  <2> HIDE DEF ns
  <2>4. EditOK(board, r, c) /\ SayKept(board, r) /\ Touches(board, r, n)
    BY <1>1, <2>2, <2>3, ArchiveOK
  <2> HIDE DEF r
  <2> QED BY <1>4, <2>1, <2>4
<1>9. ASSUME NEW n \in Present(board), NEW owner \in Owners, ClaudeAssigns(c, n, owner) PROVE BoardIInv'
  <2> DEFINE r == AssignCard(board, n, owner, c)
  <2>1. ClaudeDoes(c, r, FALSE, n) /\ UNCHANGED proposals /\ board.cards[n].owner # owner
    BY <1>9 DEF ClaudeAssigns
  <2>2. EditOK(board, r, c) /\ SayKept(board, r) /\ Touches(board, r, n)
    BY <1>1, <1>3, <2>1, AssignCardOK
  <2> HIDE DEF r
  <2> QED BY <1>4, <2>1, <2>2
<1>10. ASSUME NEW n \in Present(board), NEW col \in ColIds, ClaudeMoves(c, n, col) PROVE BoardIInv'
  <2> DEFINE r == MoveCard(board, n, col, c)
  <2>1. ClaudeDoes(c, r, FALSE, n) /\ UNCHANGED proposals
    BY <1>10 DEF ClaudeMoves
  <2>2. EditOK(board, r, c) /\ SayKept(board, r) /\ Touches(board, r, n)
    BY <1>1, <1>3, MoveCardOK
  <2> HIDE DEF r
  <2> QED BY <1>4, <2>1, <2>2
<1> QED BY <1>5, <1>6, <1>7, <1>8, <1>9, <1>10

\* The user's edits.
LEMMA UserSteps ==
    ASSUME BoardIInv,
           \/ Approves \/ ColAdds
           \/ \E owner \in Owners, col \in ColIds : UserAdds(owner, col)
           \/ \E col \in ColIds : ArchivesColumn(col)
           \/ \E col \in ColIds : ColMoves(col, 0)
           \/ \E col \in ColIds, to \in ColIds \cup {0} : ColDeletes(col, to)
           \/ \E n \in Present(board) :
                 \/ UserEdits(n) \/ UserComments(n) \/ CommentEdits(n) \/ UserDeletes(n)
                 \/ \E owner \in Owners : UserAssigns(n, owner)
                 \/ \E col \in ColIds : UserMoves(n, col)
                 \/ \E flag \in BOOLEAN : UserArchives(n, flag)
    PROVE  BoardIInv'
<1>1. BoardFine(board) /\ proposals \subseteq Proposals
  BY DEF BoardIInv, OutboxTyped
<1>2. \A n \in Present(board) : n \in CardIds /\ board.cards[n].col # 0
  BY DEF Present
<1>3. ASSUME NEW r, Saved(r, FALSE, TRUE, {}), UNCHANGED view, proposals' \subseteq Proposals,
             EditOK(board, r, Nobody), SayKept(board, r)
      PROVE  BoardIInv'
  <2>1. SaidOK'
    BY <1>3, SavedKeepsSaid
  <2> QED BY <1>3, <2>1, UserDoesOK
<1>4. ASSUME NEW r, UserDoes(r, FALSE), EditOK(board, r, Nobody), SayKept(board, r)
      PROVE  BoardIInv'
  BY <1>1, <1>3, <1>4 DEF UserDoes
<1>5. ASSUME NEW r, UserDoes(r, FALSE), BoardFine(r.b), ColsGood(board, r)
      PROVE  BoardIInv'
  BY <1>1, <1>4, <1>5, ColsEditOK
<1>6. ASSUME Approves PROVE BoardIInv'
  <2>1. PICK p \in proposals : /\ Saved(Decided(board, p), FALSE, TRUE, {})
                              /\ proposals' = proposals \ {p} /\ UNCHANGED view
    BY <1>6 DEF Approves
  <2> DEFINE r == Decided(board, p)
  <2>2. BoardFine(r.b) /\ ColsGood(board, r)
    BY <1>1, DecidedGood
  <2>3. Saved(r, FALSE, TRUE, {})
    BY <2>1
  <2> HIDE DEF r
  <2>4. EditOK(board, r, Nobody) /\ SayKept(board, r)
    BY <1>1, <2>2, ColsEditOK
  <2> QED BY <1>1, <1>3, <2>1, <2>3, <2>4
<1>7. ASSUME ColAdds PROVE BoardIInv'
  <2> DEFINE r == AddCol(board)
  <2>1. UserDoes(r, FALSE)
    BY <1>7 DEF ColAdds
  <2>2. BoardFine(r.b) /\ ColsGood(board, r)
    BY <1>1, AddColGood
  <2> HIDE DEF r
  <2> QED BY <1>5, <2>1, <2>2
<1>8. ASSUME NEW owner \in Owners, NEW col \in ColIds, UserAdds(owner, col) PROVE BoardIInv'
  <2> DEFINE r == AddCard(board, owner, col, 1, Nobody)
  <2>1. UserDoes(r, FALSE)
    BY <1>8 DEF UserAdds
  <2>2. EditOK(board, r, Nobody) /\ SayKept(board, r)
    BY <1>1, AddCardOK
  <2> HIDE DEF r
  <2> QED BY <1>4, <2>1, <2>2
<1>9. ASSUME NEW ns \in SUBSET CardIds, \A n \in ns : board.cards[n].col # 0, NEW flag \in BOOLEAN,
             UserDoes(ArchiveCards(board, ns, flag, Nobody), FALSE)
      PROVE  BoardIInv'
  <2> DEFINE r == ArchiveCards(board, ns, flag, Nobody)
  <2>1. EditOK(board, r, Nobody) /\ SayKept(board, r)
    BY <1>1, <1>9, ArchiveOK
  <2>2. UserDoes(r, FALSE)
    BY <1>9
  <2> HIDE DEF r
  <2> QED BY <1>4, <2>1, <2>2
<1>10. ASSUME NEW col \in ColIds, ArchivesColumn(col) PROVE BoardIInv'
  <2> DEFINE ns == {n \in CardIds : board.cards[n].col = col}
  <2>1. ns \in SUBSET CardIds /\ \A n \in ns : board.cards[n].col # 0
    BY DEF ColIds
  <2>2. UserDoes(ArchiveCards(board, ns, TRUE, Nobody), FALSE)
    BY <1>10 DEF ArchivesColumn
  <2> HIDE DEF ns
  <2> QED BY <1>9, <2>1, <2>2
<1>11. ASSUME NEW col \in ColIds, ColMoves(col, 0) PROVE BoardIInv'
  <2> DEFINE r == MoveCol(board, col, 0)
  <2>1. UserDoes(r, FALSE)
    BY <1>11 DEF ColMoves
  <2>2. BoardFine(r.b) /\ ColsGood(board, r)
    BY <1>1, MoveColGood
  <2> HIDE DEF r
  <2> QED BY <1>5, <2>1, <2>2
<1>12. ASSUME NEW col \in ColIds, NEW to \in ColIds \cup {0}, ColDeletes(col, to) PROVE BoardIInv'
  <2> DEFINE r == DeleteCol(board, col, to)
  <2>1. UserDoes(r, FALSE)
    BY <1>12 DEF ColDeletes
  <2>2. BoardFine(r.b) /\ ColsGood(board, r)
    BY <1>1, DeleteColGood
  <2> HIDE DEF r
  <2> QED BY <1>5, <2>1, <2>2
<1>13. ASSUME NEW n \in Present(board), UserEdits(n) PROVE BoardIInv'
  <2>1. PICK txt \in Texts : UserDoes(EditCard(board, n, txt, Nobody), FALSE)
    BY <1>13 DEF UserEdits
  <2> DEFINE r == EditCard(board, n, txt, Nobody)
  <2>2. EditOK(board, r, Nobody) /\ SayKept(board, r)
    BY <1>1, <1>2, EditCardOK
  <2>3. UserDoes(r, FALSE)
    BY <2>1
  <2> HIDE DEF r
  <2> QED BY <1>4, <2>2, <2>3
<1>14. ASSUME NEW n \in Present(board), UserComments(n) PROVE BoardIInv'
  <2>1. PICK say \in Texts : UserDoes(SayOn(board, n, say, Nobody), TRUE)
    BY <1>14 DEF UserComments
  <2> DEFINE r == SayOn(board, n, say, Nobody)
  <2>2. say \in Says /\ say # Silent
    BY DEF Says, Texts, Silent
  <2>3. /\ EditOK(board, r, Nobody) /\ (r.ok => board.cards[n].say = Silent)
        /\ r.ok => Comment(board, r, n) /\ r.b.cards[n].say = say
    BY <1>1, <1>2, <2>2, SayOnOK
  <2>4. UserDoes(r, TRUE)
    BY <2>1
  <2> HIDE DEF r
  <2>5. Saved(r, TRUE, TRUE, {}) /\ r.ok /\ UNCHANGED <<view, proposals>>
    BY <2>4 DEF UserDoes, Saved
  <2>6. SaidOK'
    BY <1>2, <2>2, <2>3, <2>5, SavedComments
  <2> QED BY <1>1, <2>3, <2>5, <2>6, UserDoesOK
<1>15. ASSUME NEW n \in Present(board), CommentEdits(n) PROVE BoardIInv'
  <2>1. PICK say \in {Removed} \cup Texts :
              UserDoes(Done([board EXCEPT !.cards[n].say = say], Nothing), FALSE)
    BY <1>15 DEF CommentEdits
  <2>2. Owes(waiting, n) # {}
    BY <1>15 DEF CommentEdits, Unsent, Owes
  <2> DEFINE r == Done([board EXCEPT !.cards[n].say = say], Nothing)
  <2>3. say \in Says /\ say # Silent
    BY DEF Says, Texts, Silent, Removed
  <2>4. EditOK(board, r, Nobody) /\ Comment(board, r, n) /\ r.b.cards[n].say = say
    BY <1>1, <1>2, <2>3, CommentEditOK
  <2>5. UserDoes(r, FALSE)
    BY <2>1
  <2> HIDE DEF r
  <2>6. Saved(r, FALSE, TRUE, {}) /\ UNCHANGED <<view, proposals>>
    BY <2>5 DEF UserDoes
  <2>7. SaidOK'
    BY <1>2, <2>2, <2>3, <2>4, <2>6, SavedCommentEdit
  <2> QED BY <1>1, <2>4, <2>6, <2>7, UserDoesOK
<1>16. ASSUME NEW n \in Present(board), UserDeletes(n) PROVE BoardIInv'
  <2> DEFINE r == DeleteCard(board, n)
  <2>1. UserDoes(r, FALSE)
    BY <1>16 DEF UserDeletes
  <2>2. EditOK(board, r, Nobody) /\ SayKept(board, r)
    BY <1>1, <1>2, DeleteCardOK
  <2> HIDE DEF r
  <2> QED BY <1>4, <2>1, <2>2
<1>17. ASSUME NEW n \in Present(board), NEW owner \in Owners, UserAssigns(n, owner) PROVE BoardIInv'
  <2> DEFINE r == AssignCard(board, n, owner, Nobody)
  <2>1. UserDoes(r, FALSE) /\ board.cards[n].owner # owner
    BY <1>17 DEF UserAssigns
  <2>2. EditOK(board, r, Nobody) /\ SayKept(board, r)
    BY <1>1, <1>2, <2>1, AssignCardOK
  <2> HIDE DEF r
  <2> QED BY <1>4, <2>1, <2>2
<1>18. ASSUME NEW n \in Present(board), NEW col \in ColIds, UserMoves(n, col) PROVE BoardIInv'
  <2> DEFINE r == MoveCard(board, n, col, Nobody)
  <2>1. UserDoes(r, FALSE)
    BY <1>18 DEF UserMoves
  <2>2. EditOK(board, r, Nobody) /\ SayKept(board, r)
    BY <1>1, <1>2, MoveCardOK
  <2> HIDE DEF r
  <2> QED BY <1>4, <2>1, <2>2
<1>19. ASSUME NEW n \in Present(board), NEW flag \in BOOLEAN, UserArchives(n, flag) PROVE BoardIInv'
  <2> DEFINE ns == {n}
  <2>1. ns \in SUBSET CardIds /\ \A m \in ns : board.cards[m].col # 0
    BY <1>2
  <2>2. UserDoes(ArchiveCards(board, ns, flag, Nobody), FALSE)
    BY <1>19 DEF UserArchives
  <2> HIDE DEF ns
  <2> QED BY <1>9, <2>1, <2>2
<1> QED BY <1>6, <1>7, <1>8, <1>10, <1>11, <1>12, <1>13, <1>14, <1>15, <1>16, <1>17, <1>18, <1>19

LEMMA BoardSteps == BoardIInv /\ [BoardNext]_boardVars => BoardIInv'
<1> SUFFICES ASSUME BoardIInv, [BoardNext]_boardVars PROVE BoardIInv'
  OBVIOUS
<1>1. CASE UNCHANGED boardVars
  BY <1>1 DEF boardVars, BoardIInv, BoardFine, OutboxTyped, QueuesOK, KnownOK, SaidOK, Owes
<1>2. CASE Rejects
  <2>1. OutboxTyped'
    BY <1>2 DEF Rejects, BoardIInv, OutboxTyped
  <2>2. BoardFine(board)' /\ QueuesOK' /\ KnownOK' /\ SaidOK'
    BY <1>2 DEF Rejects, BoardIInv, BoardFine, QueuesOK, KnownOK, SaidOK, Owes
  <2> QED BY <2>1, <2>2 DEF BoardIInv
<1>3. ASSUME NEW c \in BoardClaudes, ClaudeLists(c) PROVE BoardIInv'
  <2>1. Looks(c) /\ proposals' = proposals
    BY <1>3 DEF ClaudeLists, Looks
  <2> QED BY <2>1, LooksOK DEF BoardIInv, OutboxTyped
<1>4. ASSUME NEW c \in BoardClaudes, NEW p \in Proposals, Proposes(c, p) PROVE BoardIInv'
  <2>1. Looks(c) /\ proposals' = {p}
    BY <1>4 DEF Proposes, Looks
  <2> QED BY <2>1, LooksOK
<1> QED
  BY <1>1, <1>2, <1>3, <1>4, ClaudeSteps, UserSteps, UpdateOK, DeliversOK, RowClosesOK DEF BoardNext

-----------------------------------------------------------------------------
\* What the claudes of the board know is never out of date without a change waiting to be told.
LEMMA BoardIInvHolds == BoardIInv => BoardInv
<1> SUFFICES ASSUME BoardIInv PROVE BoardInv
  OBVIOUS
<1>1. /\ BoardFine(board) /\ OutboxTyped
      /\ board.cols \in Seq(ColIds) /\ Len(board.cols) \in Nat /\ Len(board.cols) > 0
      /\ DOMAIN board.cols = 1..Len(board.cols)
  BY LenProperties DEF BoardIInv, BoardFine, ColsFine
<1>2. \A col : col \in Cols(board) <=> Among(col, board.cols)
  BY <1>1, ColsOf DEF Cols
<1>3. BoardTypeOK
  <2>1. Cols(board) \subseteq ColIds
    BY <1>1, <1>2, ElementOfSeq DEF Among
  <2>2. board.cols # <<>> /\ IsInjective(board.cols)
    <3>1. \A i, j \in 1..Len(board.cols) : board.cols[i] = board.cols[j] => i = j
      BY <1>1 DEF BoardFine, ColsFine
    <3> QED BY <1>1, <3>1 DEF IsInjective
  <2>3. board.madeCols \in ColIds /\ board.made \in 0..MaxCards
    BY <1>1 DEF BoardFine
  <2>4. \A n \in CardIds : /\ board.cards[n].owner \in BoardClaudes \cup {Nobody}
                          /\ board.cards[n].say \in Says
                          /\ (n > board.made => board.cards[n] = NoCard)
    BY <1>1 DEF BoardFine, BoardCard
  <2>5. \A c \in BoardClaudes : \A n \in CardIds : n > board.made => n \notin Queued(c)
    BY DEF BoardIInv, QueuesOK, Queued
  <2> QED BY <1>1, <2>1, <2>2, <2>3, <2>4, <2>5 DEF BoardTypeOK, OutboxTyped
<1>4. CardsKeepAColumn
  BY <1>1, <1>2 DEF CardsKeepAColumn, Present, BoardFine
<1>5. ToldCommentStands
  BY DEF ToldCommentStands, Present, BoardIInv, SaidOK
<1>6. NewsIsPending
  <2> SUFFICES ASSUME NEW c \in rows, NEW n \in CardIds, Stale(c, n), <<c, n>> \notin cutoff
               PROVE  Waits(c, n)
    BY DEF NewsIsPending
  <2> DEFINE v == view[c][n]
             card == board.cards[n]
  <2>1. Known(v, waiting[c][n], sending[c][n], c, card)
    BY DEF BoardIInv, KnownOK
  <2>2. ~Knows(v, c, card)
    <3>1. c \in BoardClaudes /\ v \in Seen /\ card \in BoardCard
      BY <1>1 DEF OutboxTyped, BoardFine
    <3> QED BY <3>1 DEF Stale, Knows, Seen, BoardCard, Is, Gone
  <2>3. ASSUME NEW e, e.on, Knows(v, c, e.base), ~Real(c, e, card) PROVE FALSE
    <3>1. Was(c, e) <=> Is(c, e.base)
      BY DEF Was, Is, Fresh, Gone
    <3>2. CASE ~Concerns(c, e, card)
      <4>1. ~Is(c, e.base) /\ ~Is(c, card)
        BY <2>3, <3>1, <3>2 DEF Concerns, Fresh, Is, Gone
      <4> QED BY <2>2, <2>3, <4>1 DEF Knows
    <3>3. CASE Concerns(c, e, card)
      <4>1. (Was(c, e) <=> Is(c, card)) /\ ~Differs(e, card)
        BY <2>3, <3>3 DEF Real, Was, Is
      <4>2. card.col = e.base.col /\ card.txt = e.base.txt /\ card.arch = e.base.arch
        BY <4>1 DEF Differs
      <4> QED BY <2>2, <2>3, <3>1, <4>1, <4>2 DEF Knows
    <3> QED BY <3>2, <3>3
  <2> QED BY <2>1, <2>2, <2>3 DEF Known, Waits
<1> QED BY <1>3, <1>4, <1>5, <1>6 DEF BoardInv

\* Every card has a column of the board, a comment that was told stands, and a claude that works
\* on an old state of its cards has a change waiting for it (board.rs, Outbox).
THEOREM BoardIsTold == BoardSpec => []BoardInv
<1>1. BoardInit => BoardIInv
  BY BoardStarts
<1>2. BoardIInv /\ [BoardNext]_boardVars => BoardIInv'
  BY BoardSteps
<1>3. BoardIInv => BoardInv
  BY BoardIInvHolds
<1> QED BY <1>1, <1>2, <1>3, PTL DEF BoardSpec
=============================================================================
