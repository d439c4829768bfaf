--------------------------- MODULE ProjectsProofs ---------------------------
(***************************************************************************)
(* Proofs about the components that settle who is meant.  Each has an      *)
(* inductive invariant, its start, lemmas for its steps, and a theorem.    *)
(***************************************************************************)
EXTENDS Addresses, Saves, PhoneAsk,
        FiniteSetTheorems, WellFoundedInduction, SequenceTheorems, TLAPS

-----------------------------------------------------------------------------
(* The saves of conversations.                                              *)

\* A bounded set of numbers that is not empty has a greatest one.
LEMMA GreatestIsThere ==
    ASSUME NEW n \in Nat, NEW S, S \subseteq 1..n, S # {}
    PROVE  \E m \in S : \A k \in S : k <= m
<1> DEFINE Above == {a \in Nat : n - a \in S}
<1>1. \A k \in S : n - k \in Above /\ n - (n - k) = k
  <2> SUFFICES ASSUME NEW k \in S PROVE n - k \in Above /\ n - (n - k) = k
    OBVIOUS
  <2>1. k \in 1..n
    OBVIOUS
  <2>2. n - k \in Nat /\ n - (n - k) = k
    BY <2>1
  <2> QED BY <2>2
<1>2. PICK a \in Above : \A b \in Above : ~ (<<b, a>> \in OpToRel(<, Nat))
  <2>1. Above \subseteq Nat /\ Above # {}
    BY <1>1
  <2> HIDE DEF Above
  <2> QED BY <2>1, NatLessThanWellFounded, WFMin
<1>3. \A b \in Above : ~(b < a)
  BY <1>2 DEF OpToRel
<1>4. ASSUME NEW k \in S PROVE k <= n - a
  <2>1. ~(n - k < a) /\ k \in 1..n /\ a \in Nat
    BY <1>1, <1>3
  <2> QED BY <2>1
<1> QED BY <1>4

-----------------------------------------------------------------------------
SaveRow == [talk : 0..talks, is : {"gone", "open", "held"}]
SaveLink == [kind : {"saved", "loaded"}, talk : 1..talks, doc : Nat]
Job == [row : SaveRows \cup {0}, era : 0..era, talk : 0..talks, kind : {"save", "handoff"},
        doc : 0..MaxDocs, read : SUBSET (1..MaxFacts), draft : SUBSET (1..MaxFacts),
        stage : InFlight \cup {"none", "done", "failed"}]

SaveRowsOK ==
    /\ rows \in [SaveRows -> SaveRow]
    /\ \A r \in SaveRows : rows[r].is = "gone" <=> rows[r].talk = 0
    /\ worked \subseteq {r \in SaveRows : rows[r] # RowGone}
    /\ era \in 1..(MaxReopens + 1) /\ talks \in 0..MaxTalks /\ facts \in 0..MaxFacts
    /\ knows \in [1..MaxTalks -> SUBSET (1..MaxFacts)]

SaveDocsOK ==
    /\ DOMAIN docs \subseteq 1..MaxDocs /\ docs \in [DOMAIN docs -> SUBSET (1..MaxFacts)]
    /\ saveLinks \in Seq(SaveLink)

SaveJobsOK ==
    /\ jobs \in [1..MaxJobs -> Job]
    /\ \A j \in 1..MaxJobs :
          /\ jobs[j].stage # "none" => jobs[j].talk # 0 /\ jobs[j].row \in SaveRows /\ jobs[j].era # 0
          /\ jobs[j].stage \in {"named", "stored"} => jobs[j].doc # 0

\* A row is held, on the conversation that is saved, as long as its job works in this handle.
JobsHold ==
    \A j \in 1..MaxJobs : jobs[j].stage \in InFlight /\ jobs[j].era = era
        => rows[jobs[j].row] = [talk |-> jobs[j].talk, is |-> "held"]

\* Two jobs in flight are of two rows or handles.
JobsApart ==
    \A i, j \in 1..MaxJobs : i # j /\ jobs[i].stage \in InFlight /\ jobs[j].stage \in InFlight
        => <<jobs[i].era, jobs[i].row>> # <<jobs[j].era, jobs[j].row>>

SavesIInv ==
    /\ SaveRowsOK /\ SaveDocsOK /\ SaveJobsOK
    /\ OneRowPerTalk /\ JobsHold /\ JobsApart /\ ClaimHasItsJob /\ SnapshotIsWhole

-----------------------------------------------------------------------------
LEMMA SavesStart == SavesInit => SavesIInv
<1> SUFFICES ASSUME SavesInit PROVE SavesIInv
  OBVIOUS
<1> USE SavesAssumption
<1>1. SaveRowsOK
  BY DEF SavesInit, SaveRowsOK, RowGone, SaveRow
<1>2. SaveDocsOK
  BY DEF SavesInit, SaveDocsOK
<1>3. SaveJobsOK /\ \A j \in 1..MaxJobs : jobs[j].stage = "none"
  BY DEF SavesInit, SaveJobsOK, Job, NoJob, InFlight
<1>4. OneRowPerTalk /\ claims = {}
  BY DEF SavesInit, OneRowPerTalk
<1> QED BY <1>1, <1>2, <1>3, <1>4 DEF SavesIInv, JobsHold, JobsApart, ClaimHasItsJob, SnapshotIsWhole, InFlight

LEMMA RowWithTalk ==
    ASSUME SaveRowsOK, NEW r \in SaveRows
    PROVE  rows[r] # RowGone <=> rows[r].talk # 0
  BY DEF SaveRowsOK, SaveRow, RowGone

\* The row of a job in flight, as long as its project is open.
LEMMA RowOfJob ==
    ASSUME SavesIInv, NEW j \in 1..MaxJobs, jobs[j].stage \in InFlight, jobs[j].era = era
    PROVE  /\ jobs[j].row \in SaveRows /\ jobs[j].talk \in 1..talks
           /\ rows[jobs[j].row].is = "held" /\ rows[jobs[j].row].talk = jobs[j].talk
           /\ rows[jobs[j].row] # RowGone /\ <<era, jobs[j].row>> \in claims
<1>1. jobs[j] \in Job /\ jobs[j].stage # "none" /\ talks \in Nat
  BY DEF SavesIInv, SaveJobsOK, SaveRowsOK, InFlight
<1>2. jobs[j].row \in SaveRows /\ jobs[j].talk \in 1..talks
  BY <1>1 DEF SavesIInv, SaveJobsOK, Job
<1>3. rows[jobs[j].row] = [talk |-> jobs[j].talk, is |-> "held"]
  BY DEF SavesIInv, JobsHold
<1>4. <<era, jobs[j].row>> \in claims
  BY DEF SavesIInv, ClaimHasItsJob
<1> QED BY <1>2, <1>3, <1>4 DEF RowGone

\* What an action that touches no job leaves true of them.
LEMMA NewTalkStep ==
    ASSUME SavesIInv, NEW r \in SaveRows, NEW told \in SUBSET (1..MaxFacts), NewTalk(r, told),
           UNCHANGED era, worked' \subseteq worked \cup {r}
    PROVE  /\ SaveRowsOK' /\ OneRowPerTalk'
           /\ talks' = talks + 1 /\ talks' \in Nat
           /\ \A s \in SaveRows : s # r => rows'[s] = rows[s]
           /\ rows'[r] = OpenRow(talks + 1)
           /\ \A c \in 1..talks : knows'[c] = knows[c]
<1> USE SavesAssumption DEF SavesIInv
<1>1. /\ talks' = talks + 1 /\ talks' \in 1..MaxTalks /\ talks \in Nat
      /\ rows \in [SaveRows -> SaveRow] /\ rows' = [rows EXCEPT ![r] = OpenRow(talks + 1)]
  BY DEF NewTalk, SaveRowsOK
<1>2. SaveRow \subseteq SaveRow' /\ OpenRow(talks + 1) \in SaveRow'
  BY <1>1 DEF SaveRow, OpenRow
<1>3. /\ rows' \in [SaveRows -> SaveRow'] /\ rows'[r] = OpenRow(talks + 1)
      /\ \A s \in SaveRows : s # r => rows'[s] = rows[s]
  BY <1>1, <1>2
<1>4. SaveRowsOK'
  BY <1>1, <1>3 DEF SaveRowsOK, NewTalk, OpenRow, RowGone
<1>5. OneRowPerTalk'
  BY <1>1, <1>3 DEF OneRowPerTalk, SaveRowsOK, OpenRow, RowGone, SaveRow
<1> QED BY <1>1, <1>3, <1>4, <1>5 DEF NewTalk, SaveRowsOK

\* Jobs that an action leaves alone stay as true as they were, if their rows do.
LEMMA SameJobs ==
    ASSUME SavesIInv, UNCHANGED <<era, claims, jobs>>, talks' \in Nat, talks' >= talks,
           \A j \in 1..MaxJobs : jobs[j].stage \in InFlight /\ jobs[j].era = era
               => rows'[jobs[j].row] = rows[jobs[j].row] /\ knows'[jobs[j].talk] = knows[jobs[j].talk]
    PROVE  SaveJobsOK' /\ JobsHold' /\ JobsApart' /\ ClaimHasItsJob' /\ SnapshotIsWhole'
<1> USE SavesAssumption DEF SavesIInv
<1>1. Job \subseteq Job'
  BY DEF Job, SaveRowsOK
<1>2. SaveJobsOK'
  BY <1>1 DEF SaveJobsOK
<1>3. JobsHold' /\ JobsApart' /\ ClaimHasItsJob'
  BY DEF JobsHold, JobsApart, ClaimHasItsJob
<1>4. SnapshotIsWhole'
  BY DEF SnapshotIsWhole, InFlight
<1> QED BY <1>2, <1>3, <1>4

\* Links that an action leaves alone, or adds to, are of conversations that there are.
LEMMA LinksStay ==
    ASSUME SavesIInv, talks' \in Nat, talks' >= talks, NEW more \in Seq(SaveLink'),
           saveLinks' = saveLinks \o more
    PROVE  saveLinks' \in Seq(SaveLink')
<1>1. SaveLink \subseteq SaveLink'
  BY DEF SavesIInv, SaveRowsOK, SaveLink
<1>2. saveLinks \in Seq(SaveLink')
  BY <1>1, SeqMonotonic DEF SavesIInv, SaveDocsOK
<1> QED BY <1>2, ConcatProperties

LEMMA NewRowStep ==
    ASSUME SavesIInv, NEW r \in SaveRows, NewRow(r)
    PROVE  SavesIInv'
<1> USE SavesAssumption DEF SavesIInv
<1>1. /\ SaveRowsOK' /\ OneRowPerTalk' /\ talks' = talks + 1 /\ talks' \in Nat
      /\ \A s \in SaveRows : s # r => rows'[s] = rows[s]
      /\ \A c \in 1..talks : knows'[c] = knows[c]
  BY NewTalkStep DEF NewRow
<1>2. \A j \in 1..MaxJobs : jobs[j].stage \in InFlight /\ jobs[j].era = era
          => rows'[jobs[j].row] = rows[jobs[j].row] /\ knows'[jobs[j].talk] = knows[jobs[j].talk]
  BY <1>1, RowOfJob DEF NewRow
<1>3. SaveJobsOK' /\ JobsHold' /\ JobsApart' /\ ClaimHasItsJob' /\ SnapshotIsWhole'
  <2>1. UNCHANGED <<era, claims, jobs>> /\ talks' >= talks
    BY <1>1 DEF NewRow, SaveRowsOK
  <2> QED BY <1>1, <1>2, <2>1, SameJobs
<1>4. SaveDocsOK'
  <2>1. SaveLink \subseteq SaveLink'
    BY <1>1 DEF SaveLink, SaveRowsOK
  <2> QED BY <2>1, SeqMonotonic DEF SaveDocsOK, NewRow
<1> QED BY <1>1, <1>3, <1>4

LEMMA WorksStep ==
    ASSUME SavesIInv, NEW r \in SaveRows, Works(r)
    PROVE  SavesIInv'
<1> USE SavesAssumption DEF SavesIInv
<1>1. rows' = rows /\ talks' = talks /\ rows[r].is = "open" /\ talks \in Nat /\ rows[r].talk \in 1..talks
  BY DEF Works, SaveRowsOK, SaveRow
<1>2. SaveRowsOK' /\ OneRowPerTalk'
  <2>1. facts + 1 \in 1..MaxFacts /\ facts' = facts + 1
    BY DEF Works, SaveRowsOK
  <2>2. knows' \in [1..MaxTalks -> SUBSET (1..MaxFacts)]
    BY <2>1 DEF Works, SaveRowsOK
  <2> QED BY <1>1, <2>1, <2>2 DEF Works, SaveRowsOK, OneRowPerTalk, SaveRow, RowGone
<1>3. \A j \in 1..MaxJobs : jobs[j].stage \in InFlight /\ jobs[j].era = era
          => rows'[jobs[j].row] = rows[jobs[j].row] /\ knows'[jobs[j].talk] = knows[jobs[j].talk]
  <2> SUFFICES ASSUME NEW j \in 1..MaxJobs, jobs[j].stage \in InFlight, jobs[j].era = era
               PROVE  knows'[jobs[j].talk] = knows[jobs[j].talk]
    BY <1>1
  <2>1. jobs[j].row \in SaveRows /\ jobs[j].row # r /\ rows[jobs[j].row].talk = jobs[j].talk
        /\ rows[jobs[j].row] # RowGone /\ jobs[j].talk \in 1..talks
    BY <1>1, RowOfJob DEF RowGone
  <2>2. jobs[j].talk # rows[r].talk
    BY <2>1 DEF OneRowPerTalk
  <2> QED BY <2>1, <2>2 DEF Works, SaveRowsOK
<1>4. SaveJobsOK' /\ JobsHold' /\ JobsApart' /\ ClaimHasItsJob' /\ SnapshotIsWhole'
  <2>1. UNCHANGED <<era, claims, jobs>> /\ talks' >= talks
    BY <1>1 DEF Works
  <2> QED BY <1>1, <1>3, <2>1, SameJobs
<1>5. SaveDocsOK'
  BY <1>1 DEF SaveDocsOK, SaveLink, Works
<1> QED BY <1>2, <1>4, <1>5

LEMMA CloseRowStep ==
    ASSUME SavesIInv, NEW r \in SaveRows, CloseRow(r)
    PROVE  SavesIInv'
<1> USE SavesAssumption DEF SavesIInv
<1>1. UNCHANGED <<era, talks, knows, facts, docs, saveLinks, claims, jobs>> /\ talks \in Nat
  BY DEF CloseRow, talkVars, SaveRowsOK
<1>2. /\ rows' \in [SaveRows -> SaveRow'] /\ rows'[r] = RowGone
      /\ \A s \in SaveRows : s # r => rows'[s] = rows[s]
  <2>1. SaveRow' = SaveRow /\ RowGone \in SaveRow
    BY <1>1 DEF SaveRow, RowGone
  <2> QED BY <2>1 DEF CloseRow, SaveRowsOK
<1>3. SaveRowsOK' /\ OneRowPerTalk'
  <2>1. worked' = worked \ {r}
    BY DEF CloseRow
  <2>2. SaveRowsOK'
    BY <1>1, <1>2, <2>1 DEF SaveRowsOK, RowGone
  <2>3. RowGone.talk = 0
    BY DEF RowGone
  <2>4. \A s \in SaveRows : rows[s] # RowGone <=> rows[s].talk # 0
    BY RowWithTalk
  <2> QED BY <1>2, <2>2, <2>3, <2>4 DEF OneRowPerTalk
<1>4. \A j \in 1..MaxJobs : jobs[j].stage \in InFlight /\ jobs[j].era = era
          => rows'[jobs[j].row] = rows[jobs[j].row] /\ knows'[jobs[j].talk] = knows[jobs[j].talk]
  <2> SUFFICES ASSUME NEW j \in 1..MaxJobs, jobs[j].stage \in InFlight, jobs[j].era = era
               PROVE  rows'[jobs[j].row] = rows[jobs[j].row]
    BY <1>1
  <2>1. jobs[j].row # r /\ jobs[j].row \in SaveRows
    BY RowOfJob DEF CloseRow
  <2> QED BY <1>2, <2>1
<1>5. SaveJobsOK' /\ JobsHold' /\ JobsApart' /\ ClaimHasItsJob' /\ SnapshotIsWhole'
  <2>1. talks' >= talks /\ UNCHANGED <<era, claims, jobs>>
    BY <1>1
  <2> QED BY <1>1, <1>4, <2>1, SameJobs
<1>6. SaveDocsOK'
  BY <1>1 DEF SaveDocsOK, SaveLink
<1> QED BY <1>3, <1>5, <1>6

LEMMA ReopenStep ==
    ASSUME SavesIInv, Reopen
    PROVE  SavesIInv'
<1> USE SavesAssumption DEF SavesIInv
<1>1. /\ era' = era + 1 /\ era' \in 1..(MaxReopens + 1) /\ era \in Nat /\ talks \in Nat
      /\ UNCHANGED <<worked, talks, knows, facts, docs, saveLinks, claims, jobs>>
  BY DEF Reopen, talkVars, SaveRowsOK
<1>2. /\ rows' \in [SaveRows -> SaveRow']
      /\ \A r \in SaveRows : r \in worked => rows'[r] = OpenRow(rows[r].talk) /\ rows[r] # RowGone /\ rows[r].talk # 0
      /\ \A r \in SaveRows : r \notin worked => rows'[r] = RowGone
  BY <1>1 DEF Reopen, SaveRowsOK, SaveRow, RowGone, OpenRow
<1>3. SaveRowsOK'
  <2>1. \A r \in SaveRows : rows'[r].is = "gone" <=> rows'[r].talk = 0
    BY <1>2 DEF RowGone, OpenRow
  <2>2. worked' \subseteq {r \in SaveRows : rows'[r] # RowGone}
    BY <1>1, <1>2 DEF SaveRowsOK, RowGone, OpenRow
  <2> QED BY <1>1, <1>2, <2>1, <2>2 DEF SaveRowsOK
<1>4. OneRowPerTalk'
  BY <1>1, <1>2 DEF OneRowPerTalk, SaveRowsOK, OpenRow, RowGone
<1>5. SaveDocsOK'
  BY <1>1 DEF SaveDocsOK, SaveLink
<1>6. \A j \in 1..MaxJobs : jobs[j].era # era'
  BY <1>1 DEF SaveJobsOK, Job
<1>7. SaveJobsOK'
  <2>1. Job \subseteq Job'
    BY <1>1 DEF Job
  <2> QED BY <1>1, <2>1 DEF SaveJobsOK
<1>8. JobsHold' /\ JobsApart' /\ ClaimHasItsJob' /\ SnapshotIsWhole'
  BY <1>1, <1>6 DEF JobsHold, JobsApart, ClaimHasItsJob, SnapshotIsWhole
<1> QED BY <1>3, <1>4, <1>5, <1>7, <1>8

LEMMA BeginSaveStep ==
    ASSUME SavesIInv, NEW r \in SaveRows, NEW kind \in {"save", "handoff"}, BeginSave(r, kind)
    PROVE  SavesIInv'
<1> USE SavesAssumption DEF SavesIInv
<1>1. /\ UNCHANGED <<worked, era, talks, knows, facts, docs, saveLinks>> /\ talks \in Nat /\ era \in Nat /\ era # 0
      /\ r \in worked /\ rows[r] # RowGone /\ <<era, r>> \notin claims
      /\ claims' = claims \cup {<<era, r>>}
  BY DEF BeginSave, MaySave, talkVars, SaveRowsOK
<1> DEFINE New == [NoJob EXCEPT !.row = r, !.era = era, !.kind = kind, !.talk = rows[r].talk, !.stage = "started"]
<1>2. PICK j \in 1..MaxJobs : jobs[j] = NoJob /\ jobs' = [jobs EXCEPT ![j] = New]
  BY DEF BeginSave
<1>3. rows[r] \in SaveRow /\ rows[r].talk \in 1..talks
  BY <1>1 DEF SaveRowsOK, SaveRow, RowGone
<1>4. /\ New \in Job /\ New.row = r /\ New.era = era /\ New.talk = rows[r].talk /\ New.stage = "started"
      /\ Job' = Job /\ SaveRow' = SaveRow /\ SaveLink' = SaveLink
  <2>1. NoJob \in Job
    BY <1>1, <1>2 DEF SaveJobsOK
  <2>2. /\ r \in SaveRows \cup {0} /\ era \in 0..era /\ rows[r].talk \in 0..talks
        /\ "started" \in InFlight \cup {"none", "done", "failed"}
    BY <1>1, <1>3 DEF InFlight
  <2>3. New \in Job /\ New.row = r /\ New.era = era /\ New.talk = rows[r].talk /\ New.stage = "started"
    BY <2>1, <2>2 DEF Job
  <2>4. Job' = Job /\ SaveRow' = SaveRow /\ SaveLink' = SaveLink
    BY <1>1 DEF Job, SaveRow, SaveLink
  <2> QED BY <2>3, <2>4
<1>5. jobs'[j] = New /\ jobs' \in [1..MaxJobs -> Job'] /\ \A i \in 1..MaxJobs : i # j => jobs'[i] = jobs[i]
  BY <1>2, <1>4 DEF SaveJobsOK
<1>6. /\ rows' \in [SaveRows -> SaveRow] /\ rows'[r] = [talk |-> rows[r].talk, is |-> "held"]
      /\ \A s \in SaveRows : s # r => rows'[s] = rows[s]
  BY <1>3 DEF BeginSave, Held, SaveRowsOK, SaveRow
<1>7. SaveRowsOK' /\ OneRowPerTalk'
  <2>1. \A s \in SaveRows : rows'[s].is = "gone" <=> rows'[s].talk = 0
    BY <1>3, <1>6 DEF SaveRowsOK
  <2>2. worked' \subseteq {s \in SaveRows : rows'[s] # RowGone}
    BY <1>1, <1>6 DEF SaveRowsOK, RowGone
  <2>3. SaveRowsOK'
    BY <1>1, <1>4, <1>6, <2>1, <2>2 DEF SaveRowsOK
  <2>4. \A s \in SaveRows : rows'[s].talk = rows[s].talk /\ (rows'[s] # RowGone => rows[s] # RowGone)
    BY <1>1, <1>6
  <2> QED BY <2>3, <2>4 DEF OneRowPerTalk
<1>8. SaveDocsOK'
  BY <1>1, <1>4 DEF SaveDocsOK
<1> HIDE DEF New
<1>9. SaveJobsOK'
  BY <1>1, <1>3, <1>4, <1>5 DEF SaveJobsOK
<1>10. \A i \in 1..MaxJobs : i # j /\ jobs[i].stage \in InFlight /\ jobs[i].era = era => jobs[i].row \in SaveRows \ {r}
  BY <1>1, RowOfJob
<1>11. JobsHold'
  BY <1>1, <1>4, <1>5, <1>6, <1>10 DEF JobsHold
<1>12. JobsApart'
  BY <1>1, <1>4, <1>5, <1>10 DEF JobsApart
<1>13. ClaimHasItsJob'
  <2>1. jobs[j].stage \notin InFlight /\ "started" \in InFlight
    BY <1>2 DEF NoJob, InFlight
  <2>2. {i \in 1..MaxJobs : jobs'[i].stage \in InFlight} = {i \in 1..MaxJobs : jobs[i].stage \in InFlight} \cup {j}
    BY <2>1, <1>4, <1>5
  <2> QED BY SMTT(30), <1>1, <1>4, <1>5, <2>1, <2>2 DEF ClaimHasItsJob
<1>14. SnapshotIsWhole'
  BY <1>1, <1>4, <1>5 DEF SnapshotIsWhole
<1> QED BY <1>7, <1>8, <1>9, <1>11, <1>12, <1>13, <1>14

\* What moves one job on and leaves its row, its handle and its conversation.
JobMoved(j, to) ==
    /\ jobs' = [jobs EXCEPT ![j] = to] /\ to \in Job
    /\ to.row = jobs[j].row /\ to.era = jobs[j].era /\ to.talk = jobs[j].talk
    /\ jobs[j].stage \in InFlight /\ to.stage # "none"
    /\ to.stage \in {"named", "stored"} => to.doc # 0
    /\ to.stage \in {"drafted", "named", "stored"} /\ to.era = era => knows[to.talk] \subseteq to.draft

LEMMA JobMovedStep ==
    ASSUME SavesIInv, NEW j \in 1..MaxJobs, NEW to, JobMoved(j, to),
           UNCHANGED <<rows, era, talks, knows, facts>>, worked' \subseteq worked,
           claims' = IF to.stage \in InFlight THEN claims ELSE Released(j),
           SaveDocsOK'
    PROVE  SavesIInv'
<1> USE SavesAssumption DEF SavesIInv
<1>1. jobs'[j] = to /\ \A i \in 1..MaxJobs : i # j => jobs'[i] = jobs[i]
  BY DEF JobMoved, SaveJobsOK
<1>2. Job' = Job /\ SaveRow' = SaveRow
  BY DEF Job, SaveRow
<1>3. SaveRowsOK' /\ OneRowPerTalk'
  BY <1>2 DEF SaveRowsOK, OneRowPerTalk
<1>4. SaveJobsOK'
  <2>1. jobs' \in [1..MaxJobs -> Job]
    BY DEF JobMoved, SaveJobsOK
  <2>2. to.stage # "none" => to.talk # 0 /\ to.row \in SaveRows /\ to.era # 0
    BY DEF JobMoved, SaveJobsOK, InFlight
  <2> QED BY <1>1, <1>2, <2>1, <2>2 DEF SaveJobsOK, JobMoved
<1>5. JobsHold' /\ JobsApart' /\ SnapshotIsWhole'
  BY <1>1 DEF JobsHold, JobsApart, SnapshotIsWhole, JobMoved
<1>6. CASE to.stage \in InFlight
  <2>1. ClaimHasItsJob'
    BY <1>1, <1>6 DEF ClaimHasItsJob, JobMoved
  <2> QED BY <1>3, <1>4, <1>5, <2>1
<1>7. CASE to.stage \notin InFlight
  <2>1. {i \in 1..MaxJobs : jobs'[i].stage \in InFlight} = {i \in 1..MaxJobs : jobs[i].stage \in InFlight} \ {j}
    BY <1>1, <1>7
  <2>2. \A i \in {k \in 1..MaxJobs : jobs[k].stage \in InFlight} \ {j} :
            /\ <<jobs[i].era, jobs[i].row>> # <<jobs[j].era, jobs[j].row>>
            /\ jobs'[i] = jobs[i]
    BY <1>1 DEF JobsApart, JobMoved
  <2>3. ClaimHasItsJob'
    BY <1>7, <2>1, <2>2 DEF ClaimHasItsJob, Released
  <2> QED BY <1>3, <1>4, <1>5, <2>3
<1> QED BY <1>6, <1>7

\* The steps of a job whose row, claim and docs stay as they are.
LEMMA DocsStay ==
    ASSUME SavesIInv, UNCHANGED <<talks, docs, saveLinks>>
    PROVE  SaveDocsOK'
  BY DEF SavesIInv, SaveDocsOK, SaveLink

LEMMA ExistingDoc ==
    ASSUME SavesIInv, NEW c
    PROVE  Existing(c) \in 0..MaxDocs
<1>1. LinesOf(c) \subseteq 1..Len(saveLinks) /\ Len(saveLinks) \in Nat
  BY LenProperties DEF LinesOf, SavesIInv, SaveDocsOK
<1>2. CASE LinesOf(c) = {}
  BY <1>2, SavesAssumption DEF Existing
<1>3. CASE LinesOf(c) # {}
  <2>1. Newest(LinesOf(c)) \in LinesOf(c)
    BY <1>1, <1>3, GreatestIsThere DEF Newest
  <2>2. saveLinks[Newest(LinesOf(c))].doc \in DOMAIN docs
    BY <2>1 DEF LinesOf
  <2> QED BY <1>3, <2>2 DEF Existing, SavesIInv, SaveDocsOK
<1> QED BY <1>2, <1>3

LEMMA ToldFacts ==
    ASSUME SavesIInv, NEW d
    PROVE  Told(d) \in SUBSET (1..MaxFacts)
  BY DEF Told, SavesIInv, SaveDocsOK

LEMMA JobDraftStep ==
    ASSUME SavesIInv, NEW j \in 1..MaxJobs,
           JobAsks(j) \/ JobDrafts(j) \/ HandoffFallsBack(j) \/ OtherDrafts(j) \/ JobFails(j) \/ JobNames(j)
    PROVE  SavesIInv'
<1> USE SavesAssumption
<1>1. /\ UNCHANGED <<rows, worked, era, talks, knows, facts, docs, saveLinks>>
  BY DEF JobAsks, JobDrafts, HandoffFallsBack, OtherDrafts, JobFails, JobNames, talkVars
<1>2. SaveDocsOK'
  BY <1>1, DocsStay
<1>3. jobs[j] \in Job
  BY DEF SavesIInv, SaveJobsOK
<1>4. CASE JobAsks(j)
  <2> DEFINE d == Existing(jobs[j].talk)
             to == [jobs[j] EXCEPT !.stage = "asked", !.doc = d, !.read = Told(d)]
  <2>1. d \in 0..MaxDocs /\ Told(d) \in SUBSET (1..MaxFacts)
    BY ExistingDoc, ToldFacts
  <2>2. jobs' = [jobs EXCEPT ![j] = to] /\ jobs[j].stage = "started" /\ claims' = claims
    BY <1>4 DEF JobAsks, Moves
  <2> HIDE DEF d
  <2>3. to \in Job /\ to.row = jobs[j].row /\ to.era = jobs[j].era /\ to.talk = jobs[j].talk /\ to.stage = "asked"
    BY <1>3, <2>1 DEF Job, InFlight
  <2> HIDE DEF to
  <2>4. JobMoved(j, to)
    BY <2>2, <2>3 DEF JobMoved, InFlight
  <2> QED BY <1>1, <1>2, <2>2, <2>3, <2>4, JobMovedStep DEF InFlight
<1>5. CASE JobDrafts(j) \/ OtherDrafts(j)
  <2>1. knows[jobs[j].talk] \in SUBSET (1..MaxFacts)
    <3>1. jobs[j].stage # "none"
      BY <1>5 DEF JobDrafts, OtherDrafts, Moves
    <3>2. jobs[j].talk \in 1..MaxTalks
      BY <1>3, <3>1 DEF SavesIInv, SaveJobsOK, SaveRowsOK, Job
    <3> QED BY <3>2 DEF SavesIInv, SaveRowsOK
  <2>2. /\ jobs' = [jobs EXCEPT ![j] = Drafted(j)] /\ jobs[j].stage \in {"asked", "other"} /\ claims' = claims
    BY <1>5 DEF JobDrafts, OtherDrafts, Moves
  <2>3. /\ Drafted(j) \in Job /\ Drafted(j).row = jobs[j].row /\ Drafted(j).era = jobs[j].era
        /\ Drafted(j).talk = jobs[j].talk /\ Drafted(j).doc = jobs[j].doc
        /\ knows[jobs[j].talk] \subseteq Drafted(j).draft
        /\ Drafted(j).stage = IF jobs[j].doc # 0 THEN "named" ELSE "drafted"
    BY <1>3, <2>1 DEF Job, InFlight, Drafted
  <2>4. JobMoved(j, Drafted(j))
    BY <2>2, <2>3 DEF JobMoved, InFlight
  <2> QED BY <1>1, <1>2, <2>2, <2>3, <2>4, JobMovedStep DEF InFlight
<1>6. CASE HandoffFallsBack(j)
  <2> DEFINE to == [jobs[j] EXCEPT !.stage = "other", !.read = Told(jobs[j].doc)]
  <2>1. Told(jobs[j].doc) \in SUBSET (1..MaxFacts)
    BY ToldFacts
  <2>2. jobs' = [jobs EXCEPT ![j] = to] /\ jobs[j].stage = "asked" /\ claims' = claims
    BY <1>6 DEF HandoffFallsBack, Moves
  <2>3. to \in Job /\ to.row = jobs[j].row /\ to.era = jobs[j].era /\ to.talk = jobs[j].talk /\ to.stage = "other"
    BY <1>3, <2>1 DEF Job, InFlight
  <2> HIDE DEF to
  <2>4. JobMoved(j, to)
    BY <2>2, <2>3 DEF JobMoved, InFlight
  <2> QED BY <1>1, <1>2, <2>2, <2>3, <2>4, JobMovedStep DEF InFlight
<1>7. CASE JobFails(j)
  <2> DEFINE to == [jobs[j] EXCEPT !.stage = "failed"]
  <2>1. jobs' = [jobs EXCEPT ![j] = to] /\ jobs[j].stage \in InFlight /\ claims' = Released(j)
    BY <1>3, <1>7 DEF JobFails, InFlight, SavesIInv, SaveJobsOK
  <2>2. to \in Job /\ to.row = jobs[j].row /\ to.era = jobs[j].era /\ to.talk = jobs[j].talk /\ to.stage = "failed"
    BY <1>3 DEF Job, InFlight
  <2> HIDE DEF to
  <2>3. JobMoved(j, to)
    BY <2>1, <2>2 DEF JobMoved, InFlight
  <2> QED BY <1>1, <1>2, <2>1, <2>2, <2>3, JobMovedStep DEF InFlight
<1>8. CASE JobNames(j)
  <2>1. PICK d \in 1..MaxDocs : Moves(j, "drafted", [jobs[j] EXCEPT !.stage = "named", !.doc = d])
    BY <1>8 DEF JobNames
  <2> DEFINE to == [jobs[j] EXCEPT !.stage = "named", !.doc = d]
  <2>2. jobs' = [jobs EXCEPT ![j] = to] /\ jobs[j].stage = "drafted" /\ claims' = claims
    BY <1>8, <2>1 DEF JobNames, Moves
  <2>3. /\ to \in Job /\ to.row = jobs[j].row /\ to.era = jobs[j].era /\ to.talk = jobs[j].talk
        /\ to.stage = "named" /\ to.doc # 0 /\ to.draft = jobs[j].draft
    <3>1. d \in 0..MaxDocs /\ d # 0
      OBVIOUS
    <3> QED BY <1>3, <3>1 DEF Job, InFlight
  <2> HIDE DEF to
  <2>4. JobMoved(j, to)
    BY <2>2, <2>3 DEF JobMoved, InFlight, SavesIInv, SnapshotIsWhole
  <2> QED BY <1>1, <1>2, <2>2, <2>3, <2>4, JobMovedStep DEF InFlight
<1> QED BY <1>4, <1>5, <1>6, <1>7, <1>8

LEMMA LinkAdded ==
    ASSUME SavesIInv, NEW more \in Seq(SaveLink'), saveLinks' = saveLinks \o more,
           talks' \in Nat, talks' >= talks, docs' = docs
    PROVE  SaveDocsOK'
  BY LinksStay DEF SavesIInv, SaveDocsOK

LEMMA JobEndStep ==
    ASSUME SavesIInv, NEW j \in 1..MaxJobs, JobStores(j) \/ JobEnds(j) \/ HandoffHasNoRow(j)
    PROVE  SavesIInv'
<1> USE SavesAssumption
<1>1. UNCHANGED <<rows, era, talks, knows, facts>> /\ worked' \subseteq worked /\ talks \in Nat
  BY DEF JobStores, JobEnds, HandoffHasNoRow, talkVars, SavesIInv, SaveRowsOK
<1>2. jobs[j] \in Job
  BY DEF SavesIInv, SaveJobsOK
<1>3. CASE JobStores(j)
  <2> DEFINE to == [jobs[j] EXCEPT !.stage = "stored"]
  <2>1. jobs' = [jobs EXCEPT ![j] = to] /\ jobs[j].stage = "named" /\ claims' = claims
    BY <1>3 DEF JobStores, Moves
  <2>2. /\ to \in Job /\ to.row = jobs[j].row /\ to.era = jobs[j].era /\ to.talk = jobs[j].talk
        /\ to.stage = "stored" /\ to.doc = jobs[j].doc /\ to.draft = jobs[j].draft
    BY <1>2 DEF Job, InFlight
  <2> HIDE DEF to
  <2>3. jobs[j].doc \in 1..MaxDocs /\ jobs[j].draft \subseteq 1..MaxFacts
    BY <1>2, <2>1 DEF SavesIInv, SaveJobsOK, Job
  <2>4. SaveDocsOK'
    <3>1. saveLinks' \in Seq(SaveLink')
      BY <1>1, <1>3 DEF SavesIInv, SaveDocsOK, SaveLink, JobStores
    <3>2. DOMAIN docs' \subseteq 1..MaxDocs /\ docs' \in [DOMAIN docs' -> SUBSET (1..MaxFacts)]
      BY <1>3, <2>3 DEF SavesIInv, SaveDocsOK, JobStores
    <3> QED BY <3>1, <3>2 DEF SaveDocsOK
  <2>5. JobMoved(j, to)
    BY <2>1, <2>2, <2>3 DEF JobMoved, InFlight, SavesIInv, SnapshotIsWhole
  <2> QED BY <1>1, <2>1, <2>2, <2>4, <2>5, JobMovedStep DEF InFlight
<1>4. CASE JobEnds(j) \/ HandoffHasNoRow(j)
  <2>1. PICK st \in {"done", "failed"} :
            /\ jobs' = [jobs EXCEPT ![j] = [jobs[j] EXCEPT !.stage = st]] /\ jobs[j].stage = "stored"
            /\ claims' = Released(j) /\ saveLinks' = Append(saveLinks, SavedLink(j)) /\ docs' = docs
    BY <1>4 DEF JobEnds, HandoffHasNoRow, Moves
  <2> DEFINE to == [jobs[j] EXCEPT !.stage = st]
  <2>2. to \in Job /\ to.row = jobs[j].row /\ to.era = jobs[j].era /\ to.talk = jobs[j].talk /\ to.stage = st
    BY <1>2 DEF Job, InFlight
  <2> HIDE DEF to
  <2>3. SavedLink(j) \in SaveLink'
    BY <1>1, <1>2, <2>1 DEF SavedLink, SaveLink, Job, SavesIInv, SaveJobsOK
  <2>4. SaveDocsOK'
    <3>1. saveLinks \in Seq(SaveLink')
      BY <1>1 DEF SavesIInv, SaveDocsOK, SaveLink
    <3> QED BY <2>1, <2>3, <3>1, AppendProperties DEF SavesIInv, SaveDocsOK
  <2>5. JobMoved(j, to)
    BY <2>1, <2>2 DEF JobMoved, InFlight, to
  <2> QED BY <1>1, <2>1, <2>2, <2>4, <2>5, JobMovedStep DEF InFlight
<1> QED BY <1>3, <1>4

LEMMA HandoffEndStep ==
    ASSUME SavesIInv, NEW j \in 1..MaxJobs, HandoffEnds(j)
    PROVE  SavesIInv'
<1> USE SavesAssumption
<1> DEFINE r == jobs[j].row
           to == [jobs[j] EXCEPT !.stage = "done"]
<1>1. /\ jobs' = [jobs EXCEPT ![j] = to] /\ jobs[j].stage = "stored" /\ jobs[j].era = era
      /\ claims' = Released(j) /\ UNCHANGED <<era, docs>> /\ jobs[j] \in Job /\ talks \in Nat
  BY DEF HandoffEnds, Moves, SavesIInv, SaveJobsOK, SaveRowsOK
<1>2. to \in Job /\ to.row = r /\ to.era = era /\ to.talk = jobs[j].talk /\ to.stage = "done"
  BY <1>1 DEF Job, InFlight
<1> HIDE DEF to
<1>3. r \in SaveRows /\ rows[r].talk = jobs[j].talk /\ jobs[j].talk \in 1..talks
  BY <1>1, RowOfJob DEF InFlight
<1>4. /\ SaveRowsOK' /\ OneRowPerTalk' /\ SaveDocsOK' /\ talks' \in Nat /\ talks' >= talks
      /\ \A s \in SaveRows : s # r => rows'[s] = rows[s]
      /\ \A c \in 1..talks : knows'[c] = knows[c]
  <2>1. SavedLink(j) \in SaveLink /\ saveLinks \in Seq(SaveLink)
    BY <1>1, <1>3 DEF SavedLink, SaveLink, Job, SavesIInv, SaveDocsOK
  <2>2. CASE NewTalk(r, Told(jobs[j].doc)) /\ UNCHANGED worked
             /\ saveLinks' = saveLinks \o <<SavedLink(j), [kind |-> "loaded", talk |-> talks', doc |-> jobs[j].doc]>>
    <3>1. /\ SaveRowsOK' /\ OneRowPerTalk' /\ talks' = talks + 1 /\ talks' \in Nat
          /\ \A s \in SaveRows : s # r => rows'[s] = rows[s]
          /\ \A c \in 1..talks : knows'[c] = knows[c]
      BY <1>1, <1>3, <2>2, ToldFacts, NewTalkStep
    <3>2. /\ SaveLink \subseteq SaveLink'
          /\ [kind |-> "loaded", talk |-> talks', doc |-> jobs[j].doc] \in SaveLink'
      BY <1>1, <3>1 DEF SaveLink, Job
    <3>3. <<SavedLink(j), [kind |-> "loaded", talk |-> talks', doc |-> jobs[j].doc]>> \in Seq(SaveLink')
      BY <2>1, <3>2
    <3>4. talks' >= talks
      BY <1>1, <3>1
    <3>5. SaveDocsOK'
      BY <1>1, <2>2, <3>1, <3>3, <3>4, LinkAdded
    <3> QED BY <3>1, <3>4, <3>5
  <2>3. CASE /\ rows' = [rows EXCEPT ![r] = RowGone] /\ worked' = worked \ {r}
             /\ saveLinks' = Append(saveLinks, SavedLink(j)) /\ UNCHANGED talkVars
    <3>1. talks' = talks /\ knows' = knows /\ facts' = facts
      BY <2>3 DEF talkVars
    <3>2. /\ rows' \in [SaveRows -> SaveRow'] /\ rows'[r] = RowGone
          /\ \A s \in SaveRows : s # r => rows'[s] = rows[s]
      <4>1. SaveRow' = SaveRow /\ RowGone \in SaveRow
        BY <1>1, <3>1 DEF SaveRow, RowGone
      <4> QED BY <1>3, <2>3, <4>1 DEF SavesIInv, SaveRowsOK
    <3>3. SaveRowsOK'
      BY <1>1, <2>3, <3>1, <3>2 DEF SavesIInv, SaveRowsOK, RowGone
    <3>4. \A s \in SaveRows : rows[s] # RowGone <=> rows[s].talk # 0
      BY RowWithTalk DEF SavesIInv
    <3>5. OneRowPerTalk'
      BY <3>2, <3>4 DEF SavesIInv, OneRowPerTalk, RowGone
    <3>6. SaveDocsOK'
      <4>1. saveLinks' \in Seq(SaveLink) /\ SaveLink' = SaveLink
        BY <2>1, <2>3, <3>1, AppendProperties DEF SaveLink
      <4> QED BY <1>1, <4>1 DEF SavesIInv, SaveDocsOK
    <3> QED BY <1>1, <3>1, <3>2, <3>3, <3>5, <3>6
  <2> QED BY <2>2, <2>3 DEF HandoffEnds
<1>5. \A i \in 1..MaxJobs : i # j => jobs'[i] = jobs[i]
  BY <1>1 DEF SavesIInv, SaveJobsOK
<1>6. jobs'[j] = to
  BY <1>1 DEF SavesIInv, SaveJobsOK
<1>7. SaveJobsOK'
  <2>1. Job \subseteq Job'
    BY <1>1, <1>4 DEF Job
  <2>2. jobs' \in [1..MaxJobs -> Job]
    BY <1>1, <1>2 DEF SavesIInv, SaveJobsOK
  <2>3. jobs[j].era # 0
    BY <1>1 DEF SavesIInv, SaveJobsOK
  <2> QED BY <1>1, <1>2, <1>3, <1>5, <1>6, <2>1, <2>2, <2>3 DEF SavesIInv, SaveJobsOK
<1>8. \A i \in 1..MaxJobs : i # j /\ jobs[i].stage \in InFlight /\ jobs[i].era = era
          => jobs[i].row # r /\ jobs[i].row \in SaveRows
  BY <1>1, RowOfJob DEF SavesIInv, JobsApart, InFlight
<1>9. JobsHold' /\ JobsApart'
  <2>1. \A i \in 1..MaxJobs : jobs'[i].stage \in InFlight => i # j /\ jobs'[i] = jobs[i]
    BY <1>2, <1>5, <1>6 DEF InFlight
  <2>2. JobsHold'
    <3> SUFFICES ASSUME NEW i \in 1..MaxJobs, jobs'[i].stage \in InFlight, jobs'[i].era = era'
                 PROVE  rows'[jobs'[i].row] = [talk |-> jobs'[i].talk, is |-> "held"]
      BY DEF JobsHold
    <3>1. jobs[i].row # r /\ jobs[i].row \in SaveRows /\ jobs'[i] = jobs[i] /\ jobs[i].era = era
      BY <1>1, <1>8, <2>1
    <3> QED BY <1>4, <2>1, <3>1 DEF SavesIInv, JobsHold
  <2>3. JobsApart'
    BY <2>1 DEF SavesIInv, JobsApart
  <2> QED BY <2>2, <2>3
<1>10. ClaimHasItsJob'
  <2>1. {i \in 1..MaxJobs : jobs'[i].stage \in InFlight} = {i \in 1..MaxJobs : jobs[i].stage \in InFlight} \ {j}
    BY <1>2, <1>5, <1>6 DEF InFlight
  <2>2. \A i \in {k \in 1..MaxJobs : jobs[k].stage \in InFlight} \ {j} :
            /\ <<jobs[i].era, jobs[i].row>> # <<jobs[j].era, jobs[j].row>>
            /\ jobs'[i] = jobs[i]
    BY <1>1, <1>5 DEF SavesIInv, JobsApart, InFlight
  <2>3. jobs[j].stage \in InFlight
    BY <1>1 DEF InFlight
  <2> QED BY <1>1, <2>1, <2>2, <2>3 DEF SavesIInv, ClaimHasItsJob, Released
<1>11. SnapshotIsWhole'
  <2>1. \A i \in 1..MaxJobs : i # j /\ jobs[i].stage \in InFlight /\ jobs[i].era = era => jobs[i].talk \in 1..talks
    BY RowOfJob
  <2> QED BY <1>1, <1>2, <1>4, <1>5, <1>6, <2>1 DEF SavesIInv, SnapshotIsWhole, InFlight
<1> QED BY <1>4, <1>7, <1>9, <1>10, <1>11 DEF SavesIInv

LEMMA LoadFreshStep ==
    ASSUME SavesIInv, NEW r \in SaveRows, NEW d \in 1..MaxDocs, LoadFresh(r, d)
    PROVE  SavesIInv'
<1> USE SavesAssumption
<1>1. /\ SaveRowsOK' /\ OneRowPerTalk' /\ talks' = talks + 1 /\ talks' \in Nat
      /\ \A s \in SaveRows : s # r => rows'[s] = rows[s]
      /\ \A c \in 1..talks : knows'[c] = knows[c]
  BY ToldFacts, NewTalkStep DEF LoadFresh
<1>2. UNCHANGED <<era, docs, claims, jobs>> /\ talks \in Nat /\ talks' >= talks
  BY <1>1 DEF LoadFresh, SavesIInv, SaveRowsOK
<1>3. SaveDocsOK'
  <2>1. [kind |-> "loaded", talk |-> talks', doc |-> d] \in SaveLink'
    BY <1>1, <1>2 DEF SaveLink
  <2>2. SaveLink \subseteq SaveLink'
    BY <1>1, <1>2 DEF SaveLink
  <2>3. saveLinks \in Seq(SaveLink')
    BY <2>2, SeqMonotonic DEF SavesIInv, SaveDocsOK
  <2>4. saveLinks' \in Seq(SaveLink')
    BY <2>1, <2>3, AppendProperties DEF LoadFresh
  <2> QED BY <1>2, <2>4 DEF SavesIInv, SaveDocsOK
<1>4. \A j \in 1..MaxJobs : jobs[j].stage \in InFlight /\ jobs[j].era = era
          => rows'[jobs[j].row] = rows[jobs[j].row] /\ knows'[jobs[j].talk] = knows[jobs[j].talk]
  BY <1>1, RowOfJob DEF LoadFresh
<1> QED BY <1>1, <1>2, <1>3, <1>4, SameJobs DEF SavesIInv

LEMMA LoadContinuesStep ==
    ASSUME SavesIInv, NEW r \in SaveRows, NEW d \in 1..MaxDocs, LoadContinues(r, d)
    PROVE  SavesIInv'
<1> USE SavesAssumption
<1>1. /\ UNCHANGED <<era, talks, knows, facts, docs, saveLinks, claims, jobs>> /\ talks \in Nat
      /\ rows[r] = RowGone /\ worked' = worked \cup {r}
  BY DEF LoadContinues, talkVars, SavesIInv, SaveRowsOK
<1> DEFINE c == saveLinks[Newest(SaversOf(d))].talk
<1>2. c \in 1..talks
  <2>1. SaversOf(d) \subseteq 1..Len(saveLinks) /\ Len(saveLinks) \in Nat /\ SaversOf(d) # {}
    BY LenProperties DEF SaversOf, SavesIInv, SaveDocsOK, LoadContinues
  <2>2. Newest(SaversOf(d)) \in SaversOf(d)
    BY <2>1, GreatestIsThere DEF Newest
  <2>3. saveLinks[Newest(SaversOf(d))] \in SaveLink
    BY <2>1, <2>2, ElementOfSeq DEF SavesIInv, SaveDocsOK
  <2> QED BY <2>3 DEF SaveLink
<1>3. ~IsOpen(c) /\ rows' = [rows EXCEPT ![r] = OpenRow(c)]
  BY DEF LoadContinues
<1> HIDE DEF c
<1>4. /\ rows' \in [SaveRows -> SaveRow'] /\ rows'[r] = OpenRow(c) /\ rows'[r] # RowGone
      /\ \A s \in SaveRows : s # r => rows'[s] = rows[s] /\ rows[s].talk # c
  <2>1. SaveRow' = SaveRow /\ OpenRow(c) \in SaveRow /\ OpenRow(c) # RowGone
    BY <1>1, <1>2 DEF SaveRow, OpenRow, RowGone
  <2> QED BY <1>3, <2>1 DEF SavesIInv, SaveRowsOK, IsOpen
<1>5. SaveRowsOK'
  BY <1>1, <1>2, <1>4 DEF SavesIInv, SaveRowsOK, OpenRow
<1>6. OneRowPerTalk'
  BY <1>4 DEF SavesIInv, OneRowPerTalk, OpenRow
<1>7. SaveDocsOK'
  BY <1>1, DocsStay
<1>8. \A j \in 1..MaxJobs : jobs[j].stage \in InFlight /\ jobs[j].era = era
          => rows'[jobs[j].row] = rows[jobs[j].row] /\ knows'[jobs[j].talk] = knows[jobs[j].talk]
  BY <1>1, <1>4, RowOfJob
<1>9. talks' \in Nat /\ talks' >= talks
  BY <1>1
<1> QED BY <1>1, <1>5, <1>6, <1>7, <1>8, <1>9, SameJobs DEF SavesIInv

LEMMA DeleteSaveStep ==
    ASSUME SavesIInv, NEW d \in 1..MaxDocs, DeleteSave(d)
    PROVE  SavesIInv'
<1>1. UNCHANGED <<rows, worked, era, talks, knows, facts, saveLinks, claims, jobs>> /\ talks \in Nat
  BY DEF DeleteSave, talkVars, SavesIInv, SaveRowsOK
<1>2. SaveRowsOK' /\ OneRowPerTalk'
  BY <1>1 DEF SavesIInv, SaveRowsOK, OneRowPerTalk, SaveRow
<1>3. SaveDocsOK'
  BY <1>1 DEF DeleteSave, SavesIInv, SaveDocsOK, SaveLink
<1>4. talks' \in Nat /\ talks' >= talks
  BY <1>1
<1> QED BY <1>1, <1>2, <1>3, <1>4, SameJobs DEF SavesIInv

LEMMA SavesStep == SavesIInv /\ [SavesNext]_savesVars => SavesIInv'
<1> SUFFICES ASSUME SavesIInv, [SavesNext]_savesVars PROVE SavesIInv'
  OBVIOUS
<1>1. CASE UNCHANGED savesVars
  BY SMTT(30), <1>1 DEF savesVars, talkVars, SavesIInv, SaveRowsOK, SaveDocsOK, SaveJobsOK, OneRowPerTalk, JobsHold,
              JobsApart, ClaimHasItsJob, SnapshotIsWhole, SaveRow, Job, SaveLink
<1>2. CASE Reopen
  BY <1>2, ReopenStep
<1>3. ASSUME NEW r \in SaveRows,
             NewRow(r) \/ Works(r) \/ CloseRow(r) \/ BeginSave(r, "save") \/ BeginSave(r, "handoff")
      PROVE  SavesIInv'
  BY <1>3, NewRowStep, WorksStep, CloseRowStep, BeginSaveStep
<1>4. ASSUME NEW r \in SaveRows, NEW d \in 1..MaxDocs, LoadFresh(r, d) \/ LoadContinues(r, d)
      PROVE  SavesIInv'
  BY <1>4, LoadFreshStep, LoadContinuesStep
<1>5. ASSUME NEW d \in 1..MaxDocs, DeleteSave(d) PROVE SavesIInv'
  BY <1>5, DeleteSaveStep
<1>6. ASSUME NEW j \in 1..MaxJobs, JobMoves(j) PROVE SavesIInv'
  BY <1>6, JobDraftStep, JobEndStep, HandoffEndStep DEF JobMoves
<1> QED BY <1>1, <1>2, <1>3, <1>4, <1>5, <1>6 DEF SavesNext

\* A conversation has one row, a draft holds all that its conversation does while its row is held,
\* and a claim is of a job in flight, for any number of rows, conversations, docs and jobs
\* (saves.rs; commands.rs, load_save).
THEOREM SavesAreWhole == SavesSpec => []SavesInv
<1>1. SavesIInv => SavesInv
  <2> SUFFICES ASSUME SavesIInv PROVE SavesTypeOK
    BY DEF SavesInv, SavesIInv
  <2>1. talks \in 0..MaxTalks /\ MaxTalks \in Nat /\ rows \in [SaveRows -> SaveRow]
    BY SavesAssumption DEF SavesIInv, SaveRowsOK
  <2>2. \A r \in SaveRows : rows[r].talk \in 0..MaxTalks /\ rows[r].is \in {"gone", "open", "held"}
    BY <2>1 DEF SaveRow
  <2>3. claims \subseteq (1..era) \X SaveRows
    <3> SUFFICES ASSUME NEW j \in 1..MaxJobs, jobs[j].stage \in InFlight
                 PROVE  jobs[j].era \in 1..era /\ jobs[j].row \in SaveRows
      BY DEF SavesIInv, ClaimHasItsJob
    <3> QED BY DEF SavesIInv, SaveJobsOK, SaveRowsOK, Job, InFlight
  <2> QED BY <2>2, <2>3 DEF SavesIInv, SaveRowsOK, SaveDocsOK, SavesTypeOK
<1> QED BY <1>1, SavesStart, SavesStep, PTL DEF SavesSpec

-----------------------------------------------------------------------------
(* The dialogs that the phone answers.                                      *)

Asked == [kind : {"none", "answer", "type"}, at : {"idle", "sent", "desk", "play", "told"},
          for : 0 .. openDialog, by : 0 .. cids, left : 0 .. 2]

AskTyped ==
    /\ openDialog \in 0 .. MaxDialogs /\ file \in 0 .. openDialog /\ screen \in 0 .. openDialog /\ card \in 0 .. openDialog
    /\ hook \in {"idle", "wrote"} /\ shape \in [Dialogs -> Shapes]
    /\ word \in {"working", "waiting", "needs"} /\ deskWord \in {"working", "waiting", "needs"}
    /\ cids \in Nat /\ session \in 0 .. cids /\ pending \in 0 .. cids
    /\ req \in Asked
    /\ outbox \in [cid : 0 .. cids, ok : BOOLEAN]
    /\ heard \in [by : 0 .. cids, in : 0 .. cids, ok : BOOLEAN, left : 0 .. 2]

\* While the hook is between its writes, what it wrote is the dialog that is about to open.
HookOK == hook = "wrote" => screen = 0 /\ file = openDialog

\* A request is answered to the session that asked, and only at its end.
ReplyOK ==
    /\ req.at \in {"desk", "play"} => pending = req.by
    /\ outbox # NoDialogAnswer => req.at = "told" /\ outbox.cid = req.by /\ (outbox.ok => req.left = 0)

\* Keys to play are an answer's, to a dialog that the phone has seen.
KeysOK ==
    /\ req.at = "play" => req.kind = "answer"
    /\ req.at = "idle" <=> req.kind = "none"
    /\ req.kind = "answer" => req.for # 0
    /\ req.kind = "type" => req.left = 0

AskIInv == AskTyped /\ HookOK /\ ReplyOK /\ KeysOK /\ NeedsHasItsDialog /\ RepliesComeHome /\ NothingIsTypedIn

LEMMA AskStart == AskInit => AskIInv
<1> SUFFICES ASSUME AskInit PROVE AskIInv
  OBVIOUS
<1>1. AskTyped
  BY PhoneAskAssumption DEF AskInit, AskTyped, Asked, NoReq, NoDialogAnswer, Unheard
<1>2. HookOK /\ ReplyOK /\ KeysOK /\ NeedsHasItsDialog /\ RepliesComeHome /\ NothingIsTypedIn
  BY DEF AskInit, HookOK, ReplyOK, KeysOK, NeedsHasItsDialog, RepliesComeHome, NothingIsTypedIn,
         NoReq, NoDialogAnswer, Unheard
<1> QED BY <1>1, <1>2 DEF AskIInv

\* What the claude, its user and the app's pass do, which no request notices.
LEMMA ClaudeStep ==
    ASSUME AskIInv, ClaudeAsks \/ UserAnswers \/ UserEscapes \/ TickClears \/ TickShows
    PROVE  AskIInv'
<1> USE PhoneAskAssumption
<1>1. UNCHANGED <<shape, session, cids, req, pending, outbox, heard, played>>
  BY DEF ClaudeAsks, UserAnswers, UserEscapes, TickClears, TickShows, claude, phone
<1>2. ReplyOK' /\ KeysOK' /\ RepliesComeHome' /\ NothingIsTypedIn'
  BY <1>1 DEF AskIInv, ReplyOK, KeysOK, RepliesComeHome, NothingIsTypedIn
<1>3. CASE ClaudeAsks
  <2>1. /\ openDialog' \in openDialog .. MaxDialogs /\ openDialog \in Nat
        /\ UNCHANGED <<deskWord, card>> /\ HookWrites(openDialog')
        /\ screen = 0 /\ (hook = "idle" => word = "working")
        /\ hook = "wrote" => openDialog' = openDialog
    BY <1>3 DEF AskIInv, AskTyped, Asked, HookOK, ClaudeAsks
  <2>2. AskTyped'
    BY <1>1, <2>1 DEF AskIInv, AskTyped, Asked, HookWrites
  <2>3. HookOK' /\ NeedsHasItsDialog'
    BY <2>1 DEF AskIInv, AskTyped, Asked, HookOK, NeedsHasItsDialog, HookWrites
  <2> QED BY <1>2, <2>2, <2>3 DEF AskIInv
<1>4. CASE UserAnswers \/ UserEscapes \/ TickClears \/ TickShows
  <2>1. UNCHANGED <<openDialog, hook, file>>
    BY <1>4 DEF UserAnswers, UserEscapes, TickClears, TickShows, claude
  <2>2. screen' \in {0, screen} /\ word' \in {word, "working", "waiting"} /\ (screen' # 0 => word' = word)
    BY <1>4 DEF UserAnswers, UserEscapes, TickClears, TickShows, claude
  <2>3. deskWord' \in {deskWord, word} /\ card' \in {card, 0, file}
    BY <1>4 DEF UserAnswers, UserEscapes, TickClears, TickShows
  <2>4. AskTyped'
    BY <1>1, <2>1, <2>2, <2>3 DEF AskIInv, AskTyped, Asked
  <2>5. HookOK' /\ NeedsHasItsDialog'
    BY <2>1, <2>2 DEF AskIInv, AskTyped, Asked, HookOK, NeedsHasItsDialog
  <2> QED BY <1>2, <2>4, <2>5 DEF AskIInv
<1> QED BY <1>3, <1>4

\* What the phone, the host and the desktop do, up to the keys.
LEMMA PhoneStep ==
    ASSUME AskIInv,
           SessionStarts \/ SessionEnds \/ (\E k \in {"answer", "type"} : PhoneAsks(k))
           \/ HostAnswers \/ DeskStarts \/ HostTypes \/ ServeReplies
    PROVE  AskIInv'
<1> USE PhoneAskAssumption
<1>1. UNCHANGED <<shape, openDialog, hook, file, word, screen, deskWord, card, played>>
  BY DEF SessionStarts, SessionEnds, PhoneAsks, HostAnswers, DeskStarts, HostTypes, ServeReplies, claude
<1>2. HookOK' /\ NeedsHasItsDialog' /\ NothingIsTypedIn'
  BY <1>1 DEF AskIInv, HookOK, NeedsHasItsDialog, NothingIsTypedIn
<1>3. CASE SessionStarts \/ SessionEnds
  <2>1. UNCHANGED <<req, pending, outbox, heard>> /\ cids' \in Nat /\ cids' >= cids /\ session' \in 0 .. cids'
    BY <1>3 DEF AskIInv, AskTyped, Asked, SessionStarts, SessionEnds
  <2>2. AskTyped'
    BY <1>1, <2>1 DEF AskIInv, AskTyped, Asked
  <2> QED BY <1>2, <2>1, <2>2 DEF AskIInv, ReplyOK, KeysOK, RepliesComeHome
<1>4. ASSUME NEW k \in {"answer", "type"}, PhoneAsks(k) PROVE AskIInv'
  <2>1. /\ UNCHANGED <<session, cids, pending, outbox>> /\ heard' = Unheard /\ req = NoReq
        /\ req' = [kind |-> k, at |-> "sent", for |-> IF k = "answer" THEN card ELSE 0, by |-> session, left |-> 0]
        /\ k = "answer" => card # 0
    BY <1>4 DEF PhoneAsks
  <2>2. outbox = NoDialogAnswer
    BY <2>1 DEF AskIInv, ReplyOK, NoReq
  <2>3. AskTyped'
    BY <1>1, <2>1 DEF AskIInv, AskTyped, Asked, Unheard
  <2> QED BY <1>2, <2>1, <2>2, <2>3 DEF AskIInv, ReplyOK, KeysOK, RepliesComeHome
<1>5. CASE HostAnswers \/ HostTypes
  <2>1. UNCHANGED <<session, cids, heard>> /\ req.at = "sent" /\ req.kind \in {"answer", "type"}
    BY <1>5 DEF HostAnswers, HostTypes
  <2>2. outbox = NoDialogAnswer
    BY <2>1 DEF AskIInv, ReplyOK
  <2>3. CASE req' = NoReq /\ UNCHANGED <<pending, outbox>>
    <3>1. AskTyped'
      BY <1>1, <2>1, <2>3 DEF AskIInv, AskTyped, Asked, NoReq
    <3>2. ReplyOK' /\ KeysOK' /\ RepliesComeHome'
      BY <2>1, <2>2, <2>3 DEF AskIInv, ReplyOK, KeysOK, RepliesComeHome, NoReq
    <3> QED BY <1>2, <3>1, <3>2 DEF AskIInv
  <2>4. CASE session = req.by /\ req' = [req EXCEPT !.at = "told"] /\ outbox' = [cid |-> session, ok |-> FALSE] /\ pending' = 0
    <3>1. req \in Asked /\ req' \in Asked /\ req'.at = "told" /\ req'.by = req.by /\ req'.kind = req.kind
          /\ req'.for = req.for /\ req'.left = req.left
      BY <2>4 DEF AskIInv, AskTyped, Asked
    <3>2. AskTyped'
      BY <1>1, <2>1, <2>4, <3>1 DEF AskIInv, AskTyped, Asked
    <3>3. ReplyOK' /\ KeysOK' /\ RepliesComeHome'
      BY <2>1, <2>4, <3>1 DEF AskIInv, ReplyOK, KeysOK, RepliesComeHome
    <3> QED BY <1>2, <3>2, <3>3 DEF AskIInv
  <2>5. ASSUME NEW n \in 0 .. 2, req' = [req EXCEPT !.at = "desk", !.left = n], req.kind = "type" => n = 0,
               pending' = req.by, UNCHANGED outbox
        PROVE  AskIInv'
    <3>1. req \in Asked /\ req' \in Asked /\ req'.at = "desk" /\ req'.by = req.by /\ req'.kind = req.kind
          /\ req'.for = req.for /\ req'.left = n
      BY <2>5 DEF AskIInv, AskTyped, Asked
    <3>2. AskTyped'
      BY <1>1, <2>1, <2>5, <3>1 DEF AskIInv, AskTyped, Asked
    <3>3. ReplyOK' /\ KeysOK' /\ RepliesComeHome'
      BY <2>1, <2>2, <2>5, <3>1 DEF AskIInv, ReplyOK, KeysOK, RepliesComeHome
    <3> QED BY <1>2, <3>2, <3>3 DEF AskIInv
  <2>6. CASE HostTypes /\ session = req.by
    <3>1. req.left = 0 /\ req \in Asked
      BY <2>6 DEF HostTypes, AskIInv, KeysOK, AskTyped
    <3>2. [req EXCEPT !.at = "desk"] = [req EXCEPT !.at = "desk", !.left = 0]
      BY <3>1 DEF Asked
    <3> QED BY <2>5, <2>6, <3>2 DEF HostTypes
  <2>7. CASE HostAnswers /\ session = req.by
    <3>1. CASE ~Fits(req.for)
      BY <2>4, <2>7, <3>1 DEF HostAnswers, Answered
    <3>2. CASE Fits(req.for)
      <4>1. req.kind = "answer"
        BY <2>7 DEF HostAnswers
      <4> DEFINE n == IF shape[file] = "plan" THEN 1 ELSE 2
      <4>2. n \in 0 .. 2
        OBVIOUS
      <4>3. req' = [req EXCEPT !.at = "desk", !.left = n] /\ pending' = req.by /\ UNCHANGED outbox
        BY <2>7, <3>2 DEF HostAnswers
      <4> HIDE DEF n
      <4> QED BY <2>5, <4>1, <4>2, <4>3
    <3> QED BY <3>1, <3>2
  <2>8. CASE session # req.by
    <3>1. req' = NoReq /\ UNCHANGED <<pending, outbox>>
      BY <1>5, <2>8 DEF HostAnswers, HostTypes
    <3> QED BY <2>3, <3>1
  <2> QED BY <1>5, <2>6, <2>7, <2>8
<1>6. CASE DeskStarts
  <2>1. /\ UNCHANGED <<session, cids, heard>> /\ req.at = "desk" /\ req.kind = "answer"
        /\ \/ req' = [req EXCEPT !.at = "play"] /\ UNCHANGED <<pending, outbox>>
           \/ req' = [req EXCEPT !.at = "told"] /\ outbox' = [cid |-> pending, ok |-> FALSE] /\ pending' = 0
    BY <1>6 DEF DeskStarts, Answered
  <2>2. req \in Asked /\ req' \in Asked /\ req'.at \in {"play", "told"} /\ req'.by = req.by /\ req'.kind = req.kind
        /\ req'.for = req.for /\ req'.left = req.left
    BY <2>1 DEF AskIInv, AskTyped, Asked
  <2>3. CASE req'.at = "play" /\ UNCHANGED <<pending, outbox>>
    <3>1. AskTyped'
      BY <1>1, <2>1, <2>2, <2>3 DEF AskIInv, AskTyped, Asked
    <3>2. ReplyOK' /\ KeysOK' /\ RepliesComeHome'
      BY <2>1, <2>2, <2>3 DEF AskIInv, ReplyOK, KeysOK, RepliesComeHome
    <3> QED BY <1>2, <3>1, <3>2 DEF AskIInv
  <2>4. CASE req'.at = "told" /\ outbox' = [cid |-> pending, ok |-> FALSE] /\ pending' = 0
    <3>1. AskTyped'
      BY <1>1, <2>1, <2>2, <2>4 DEF AskIInv, AskTyped, Asked
    <3>2. ReplyOK' /\ KeysOK' /\ RepliesComeHome'
      BY <2>1, <2>2, <2>4 DEF AskIInv, ReplyOK, KeysOK, RepliesComeHome
    <3> QED BY <1>2, <3>1, <3>2 DEF AskIInv
  <2>5. req.at = "desk" /\ req \in Asked
    BY <2>1, <2>2
  <2> QED BY <2>1, <2>3, <2>4, <2>5 DEF Asked
<1>7. CASE ServeReplies
  <2>1. /\ UNCHANGED <<session, cids, pending>> /\ outbox' = NoDialogAnswer
        /\ req' = NoReq /\ outbox.cid = req.by /\ (outbox.ok => req.left = 0)
        /\ heard' = IF ForThem(outbox.cid)
                    THEN [by |-> req.by, in |-> session, ok |-> outbox.ok, left |-> req.left] ELSE heard
    BY <1>7 DEF ServeReplies, AskIInv, ReplyOK
  <2>2. AskTyped'
    BY <1>1, <2>1 DEF AskIInv, AskTyped, Asked, NoReq, NoDialogAnswer
  <2>3. ReplyOK' /\ KeysOK' /\ RepliesComeHome'
    BY <2>1 DEF AskIInv, AskTyped, Asked, ReplyOK, KeysOK, RepliesComeHome, NoReq, NoDialogAnswer, ForThem
  <2> QED BY <1>2, <2>2, <2>3 DEF AskIInv
<1> QED BY <1>3, <1>4, <1>5, <1>6, <1>7

LEMMA KeyPlayed ==
    ASSUME NEW r \in Asked, NEW n \in 0 .. 2, NEW to \in {"play", "told"}
    PROVE  /\ [r EXCEPT !.left = n, !.at = to] \in Asked
           /\ [r EXCEPT !.left = n, !.at = to].left = n /\ [r EXCEPT !.left = n, !.at = to].at = to
           /\ [r EXCEPT !.left = n, !.at = to].by = r.by /\ [r EXCEPT !.left = n, !.at = to].kind = r.kind
           /\ [r EXCEPT !.left = n, !.at = to].for = r.for
  BY DEF Asked

\* What is played or typed.
LEMMA DeskStep ==
    ASSUME AskIInv, DeskPlays \/ DeskTypes
    PROVE  AskIInv'
<1> USE PhoneAskAssumption
<1>1. /\ UNCHANGED <<shape, openDialog, hook, file, deskWord, card, session, cids, heard>>
      /\ screen' \in {0, screen} /\ word' \in {word, "working"}
      /\ screen' # 0 => word' = word
  BY DEF DeskPlays, DeskTypes, MayType
<1>2. HookOK' /\ NeedsHasItsDialog' /\ RepliesComeHome'
  BY <1>1 DEF AskIInv, AskTyped, Asked, HookOK, NeedsHasItsDialog, RepliesComeHome
<1>3. CASE DeskPlays
  <2>1. /\ req.at = "play" /\ req.left \in 1 .. 2 /\ req.kind = "answer" /\ req.for # 0 /\ pending = req.by
        /\ played' \subseteq played \cup {<<req.for, screen>>}
    BY <1>3 DEF DeskPlays, AskIInv, AskTyped, Asked, KeysOK, ReplyOK
  <2>2. CASE req.left = 1
    <3>1. req' = [req EXCEPT !.left = 0, !.at = "told"] /\ outbox' = [cid |-> req.by, ok |-> TRUE] /\ pending' = 0
      <4>1. req.left - 1 = 0
        BY <2>2
      <4> QED BY <1>3, <2>1, <2>2, <4>1 DEF DeskPlays, LastKey, Answered
    <3>2. req \in Asked /\ req' \in Asked /\ req'.at = "told" /\ req'.left = 0 /\ req'.by = req.by
          /\ req'.kind = req.kind /\ req'.for = req.for
      <4>1. req \in Asked
        BY DEF AskIInv, AskTyped
      <4>2. req' = [req EXCEPT !.left = 0, !.at = "told"] /\ 0 \in 0 .. 2
        BY <3>1
      <4> QED BY <4>1, <4>2, KeyPlayed, ZenonT(30)
    <3>3. AskTyped'
      BY <1>1, <3>1, <3>2 DEF AskIInv, AskTyped, Asked
    <3>4. ReplyOK' /\ KeysOK' /\ NothingIsTypedIn'
      BY <2>1, <3>1, <3>2 DEF AskIInv, ReplyOK, KeysOK, NothingIsTypedIn
    <3> QED BY <1>2, <3>3, <3>4 DEF AskIInv
  <2>3. CASE req.left = 2
    <3>1. req' = [req EXCEPT !.left = 1, !.at = "play"] /\ UNCHANGED <<pending, outbox>>
      <4>1. req.left - 1 = 1
        BY <2>3
      <4> QED BY <1>3, <2>1, <2>3, <4>1 DEF DeskPlays, LastKey
    <3>2. req \in Asked /\ req' \in Asked /\ req'.at = "play" /\ req'.left = 1 /\ req'.by = req.by
          /\ req'.kind = req.kind /\ req'.for = req.for
      <4>1. req \in Asked
        BY DEF AskIInv, AskTyped
      <4>2. req' = [req EXCEPT !.left = 1, !.at = "play"] /\ 1 \in 0 .. 2
        BY <3>1
      <4> QED BY <4>1, <4>2, KeyPlayed, ZenonT(30)
    <3>3. AskTyped'
      BY <1>1, <3>1, <3>2 DEF AskIInv, AskTyped, Asked
    <3>4. ReplyOK' /\ KeysOK' /\ NothingIsTypedIn'
      BY <2>1, <3>1, <3>2 DEF AskIInv, ReplyOK, KeysOK, NothingIsTypedIn
    <3> QED BY <1>2, <3>3, <3>4 DEF AskIInv
  <2> QED BY <2>1, <2>2, <2>3
<1>4. CASE DeskTypes
  <2>1. /\ req.at = "desk" /\ req.kind = "type" /\ req.left = 0 /\ pending = req.by
        /\ req' = [req EXCEPT !.at = "told"] /\ outbox' = [cid |-> req.by, ok |-> MayType] /\ pending' = 0
        /\ played' = played /\ MayType \in BOOLEAN
    BY <1>4 DEF DeskTypes, AskIInv, KeysOK, ReplyOK, Answered, MayType
  <2>2. AskTyped'
    BY <1>1, <2>1 DEF AskIInv, AskTyped, Asked
  <2>3. ReplyOK' /\ KeysOK' /\ NothingIsTypedIn'
    BY <1>1, <2>1 DEF AskIInv, AskTyped, Asked, ReplyOK, KeysOK, NothingIsTypedIn
  <2> QED BY <1>2, <2>2, <2>3 DEF AskIInv
<1> QED BY <1>3, <1>4

LEMMA AskStep == AskIInv /\ [AskNext]_askVars => AskIInv'
<1> SUFFICES ASSUME AskIInv, [AskNext]_askVars PROVE AskIInv'
  OBVIOUS
<1>1. CASE UNCHANGED askVars
  BY <1>1 DEF askVars, AskIInv, AskTyped, Asked, HookOK, ReplyOK, KeysOK, NeedsHasItsDialog, RepliesComeHome, NothingIsTypedIn
<1> QED BY <1>1, ClaudeStep, PhoneStep, DeskStep DEF AskNext

\* A dialog that shows is the one on disk, the phone is told in the session it asked in, and nothing is
\* played into a prompt, for any number of dialogs, requests and lost sessions (remote/mod.rs, dialog.rs).
THEOREM AnswersFit == AskSpec => []AskInv
<1>1. AskIInv => AskInv
  BY DEF AskIInv, AskInv, AskTyped, Asked, AskTypeOK
<1> QED BY <1>1, AskStart, AskStep, PTL DEF AskSpec

-----------------------------------------------------------------------------
(* The addresses of other projects.                                         *)

Written == Seq(DOMAIN Lower)

-----------------------------------------------------------------------------
(* The tails of a directory.                                                *)

\* The last n components of a directory.
LEMMA TailOfDir ==
    ASSUME NEW d \in Written, NEW n \in 1 .. Len(d)
    PROVE  /\ TailOf(d, n) \in Written \ {<<>>} /\ Len(TailOf(d, n)) = n
           /\ \A k \in 1 .. n : TailOf(d, n)[k] = d[Len(d) - n + k]
<1> DEFINE m == Len(d) - n + 1
<1>1. Len(d) \in Nat /\ \A k \in 1 .. Len(d) : d[k] \in DOMAIN Lower
  BY LenProperties, ElementOfSeq DEF Written
<1>2. m \in Int /\ Len(d) \in Int /\ m <= Len(d) /\ Len(d) - m + 1 = n /\ m \in 1 .. Len(d)
  BY <1>1
<1>3. \A k \in m .. Len(d) : d[k] \in DOMAIN Lower
  BY <1>1, <1>2
<1>4. TailOf(d, n) = SubSeq(d, m, Len(d))
  BY DEF TailOf
<1> HIDE DEF m
<1>5. /\ SubSeq(d, m, Len(d)) \in Seq(DOMAIN Lower)
      /\ Len(SubSeq(d, m, Len(d))) = n
      /\ \A k \in 1 .. n : SubSeq(d, m, Len(d))[k] = d[m + k - 1]
  BY <1>2, <1>3, SubSeqProperties
<1>6. \A k \in 1 .. n : m + k - 1 = Len(d) - n + k
  BY <1>1 DEF m
<1>7. TailOf(d, n) # <<>>
  BY <1>4, <1>5, EmptySeq
<1> QED BY <1>4, <1>5, <1>6, <1>7 DEF Written

\* ends_with_components, component by component.
LEMMA EndsWithBy ==
    ASSUME NEW d \in Written, NEW w \in Written
    PROVE  EndsWith(d, w) <=>
             /\ w # <<>> /\ Len(w) <= Len(d)
             /\ \A k \in 1 .. Len(w) : Lower[d[Len(d) - Len(w) + k]] = Lower[w[k]]
<1>1. CASE w # <<>> /\ Len(w) <= Len(d)
  <2>1. Len(w) \in 1 .. Len(d)
    BY <1>1, LenProperties, EmptySeq DEF Written
  <2>2. DOMAIN TailOf(d, Len(w)) = 1 .. Len(w)
    BY <2>1, TailOfDir, LenProperties DEF Written
  <2> QED BY ZenonT(30), <1>1, <2>1, <2>2, TailOfDir DEF EndsWith, SameComponents
<1>2. CASE ~(w # <<>> /\ Len(w) <= Len(d))
  BY <1>2 DEF EndsWith
<1> QED BY <1>1, <1>2

\* What ends with a tail that ends with w ends with w.
LEMMA EndsWithTail ==
    ASSUME NEW d \in Written, NEW e \in Written, NEW w \in Written, EndsWith(d, w),
           NEW n \in 1 .. Len(d), Len(w) <= n, EndsWith(e, TailOf(d, n))
    PROVE  EndsWith(e, w)
<1>0. Len(d) \in Nat /\ Len(e) \in Nat /\ Len(w) \in Nat
  BY LenProperties DEF Written
<1>1. /\ TailOf(d, n) \in Written /\ Len(TailOf(d, n)) = n
      /\ \A k \in 1 .. n : TailOf(d, n)[k] = d[Len(d) - n + k]
  BY TailOfDir
<1>2. w # <<>> /\ \A k \in 1 .. Len(w) : Lower[d[Len(d) - Len(w) + k]] = Lower[w[k]]
  BY EndsWithBy
<1>3. n <= Len(e) /\ \A k \in 1 .. n : Lower[e[Len(e) - n + k]] = Lower[d[Len(d) - n + k]]
  <2> DEFINE t == TailOf(d, n)
  <2>1. t \in Written /\ Len(t) = n /\ EndsWith(e, t)
    BY <1>1
  <2>2. \A k \in 1 .. n : t[k] = d[Len(d) - n + k]
    BY <1>1
  <2> HIDE DEF t
  <2>3. Len(t) <= Len(e) /\ \A k \in 1 .. Len(t) : Lower[e[Len(e) - Len(t) + k]] = Lower[t[k]]
    BY <2>1, EndsWithBy
  <2> QED BY ZenonT(30), <2>1, <2>2, <2>3
<1>4. ASSUME NEW k \in 1 .. Len(w) PROVE Lower[e[Len(e) - Len(w) + k]] = Lower[w[k]]
  <2>1. n - Len(w) + k \in 1 .. n
    BY <1>0
  <2>2. Len(e) - n + (n - Len(w) + k) = Len(e) - Len(w) + k
    BY <1>0
  <2>3. Len(d) - n + (n - Len(w) + k) = Len(d) - Len(w) + k
    BY <1>0
  <2> QED BY <1>2, <1>3, <2>1, <2>2, <2>3
<1>5. Len(w) <= Len(e)
  BY <1>0, <1>3
<1> QED BY <1>2, <1>4, <1>5, EndsWithBy

\* Two directories that end with w end with each other's tails of that length.
LEMMA EndsWithShort ==
    ASSUME NEW d \in Written, NEW e \in Written, NEW w \in Written, EndsWith(d, w),
           EndsWith(e, w), NEW n \in 1 .. Len(d), n <= Len(w)
    PROVE  EndsWith(e, TailOf(d, n))
<1>0. Len(d) \in Nat /\ Len(e) \in Nat /\ Len(w) \in Nat
  BY LenProperties DEF Written
<1>1. /\ TailOf(d, n) \in Written \ {<<>>} /\ Len(TailOf(d, n)) = n
      /\ \A k \in 1 .. n : TailOf(d, n)[k] = d[Len(d) - n + k]
  BY TailOfDir
<1>2. /\ Len(w) <= Len(e)
      /\ \A k \in 1 .. Len(w) : /\ Lower[d[Len(d) - Len(w) + k]] = Lower[w[k]]
                                /\ Lower[e[Len(e) - Len(w) + k]] = Lower[w[k]]
  BY EndsWithBy
<1>3. ASSUME NEW k \in 1 .. n PROVE Lower[e[Len(e) - n + k]] = Lower[TailOf(d, n)[k]]
  <2>1. Len(w) - n + k \in 1 .. Len(w)
    BY <1>0
  <2>2. Len(e) - Len(w) + (Len(w) - n + k) = Len(e) - n + k
    BY <1>0
  <2>3. Len(d) - Len(w) + (Len(w) - n + k) = Len(d) - n + k
    BY <1>0
  <2>4. Lower[e[Len(e) - n + k]] = Lower[w[Len(w) - n + k]]
    BY <1>2, <2>1, <2>2
  <2>5. Lower[d[Len(d) - n + k]] = Lower[w[Len(w) - n + k]]
    BY <1>2, <2>1, <2>3
  <2> QED BY <1>1, <2>4, <2>5
<1>4. n <= Len(e)
  BY <1>0, <1>2
<1> QED BY <1>1, <1>3, <1>4, EndsWithBy

\* A directory ends with its own tails.
LEMMA EndsWithOwn ==
    ASSUME NEW d \in Written, NEW n \in 1 .. Len(d)
    PROVE  EndsWith(d, TailOf(d, n))
<1> DEFINE t == TailOf(d, n)
<1>1. t \in Written \ {<<>>} /\ Len(t) = n /\ \A k \in 1 .. n : t[k] = d[Len(d) - n + k]
  BY TailOfDir
<1>2. Len(d) \in Nat /\ n <= Len(d)
  BY LenProperties DEF Written
<1> HIDE DEF t
<1>3. EndsWith(d, t)
  BY <1>1, <1>2, EndsWithBy
<1> QED BY <1>3 DEF t

\* Of some lengths one is the least.
LEMMA LeastIsThere ==
    ASSUME NEW S, S \subseteq Nat, S # {}
    PROVE  \E m \in S : \A k \in S : m <= k
<1>1. PICK m \in S : \A k \in S : ~ (<<k, m>> \in OpToRel(<, Nat))
  BY NatLessThanWellFounded, WFMin
<1>2. \A k \in S : ~(k < m)
  BY <1>1 DEF OpToRel
<1> QED BY <1>2

-----------------------------------------------------------------------------
(* What the ambiguity error suggests.                                       *)

\* The registry has one entry of each project directory.
RegistryOK(reg) ==
    /\ \A p \in reg : p.dir \in Dirs
    /\ \A p, q \in reg : p.dir = q.dir => p = q

LEMMA CandidatesFinite ==
    ASSUME NEW reg, RegistryOK(reg), NEW C \in SUBSET reg
    PROVE  IsFiniteSet(C) /\ IsFiniteSet({c.dir : c \in C})
<1>1. IsFiniteSet(Dirs)
  BY AddressesAssumption
<1>2. {c.dir : c \in C} \in SUBSET Dirs
  BY DEF RegistryOK
<1>3. IsFiniteSet({c.dir : c \in C})
  BY <1>1, <1>2, FS_Subset
<1> DEFINE f == [c \in C |-> c.dir]
<1>4. f \in Injection(C, {c.dir : c \in C})
  BY DEF RegistryOK, Injection, IsInjective
<1> HIDE DEF f
<1> QED BY <1>3, <1>4, FS_Injection

\* disambiguating_suffix: a tail that only the first candidate has is longer than what was
\* written, and names no other project at all.
LEMMA SuggestedTail ==
    ASSUME NEW reg, RegistryOK(reg), NEW w \in Written, NEW first \in reg,
           NEW other \in reg, other # first, EndsWith(first.dir, w), EndsWith(other.dir, w),
           NEW C, C = {p \in reg : EndsWith(p.dir, w)},
           NEW n \in 1 .. Len(first.dir),
           Cardinality({d \in {c.dir : c \in C} : EndsWith(d, TailOf(first.dir, n))}) = 1
    PROVE  /\ n > 1
           /\ {p \in reg : EndsWith(p.dir, TailOf(first.dir, n))} = {first}
<1> DEFINE tail == TailOf(first.dir, n)
           hits == {d \in {c.dir : c \in C} : EndsWith(d, tail)}
<1>0. /\ \A p \in reg : p.dir \in Written /\ p.dir # <<>>
      /\ \A p \in reg : Len(p.dir) \in Nat
      /\ Len(w) \in Nat
  BY AddressesAssumption, LenProperties DEF RegistryOK, Written
<1>1. EndsWith(first.dir, tail)
  BY <1>0, EndsWithOwn
<1>2. PICK x : hits = {x}
  <2>1. IsFiniteSet(hits)
    <3>1. IsFiniteSet({c.dir : c \in C}) /\ hits \in SUBSET {c.dir : c \in C}
      BY CandidatesFinite
    <3> QED BY <3>1, FS_Subset
  <2> QED BY <2>1, FS_Singleton
<1>3. first.dir \in hits /\ (EndsWith(other.dir, tail) => other.dir \in hits)
  BY <1>1
<1>4. first.dir # other.dir
  BY DEF RegistryOK
<1>5. ~EndsWith(other.dir, tail)
  BY <1>2, <1>3, <1>4
<1>6. ~(n <= Len(w))
  BY <1>0, <1>5, EndsWithShort
<1>7. Len(w) # 0
  BY EmptySeq, <1>0, EndsWithBy DEF Written
<1>8. n > 1 /\ Len(w) <= n
  BY <1>0, <1>6, <1>7
<1>9. ASSUME NEW p \in reg, EndsWith(p.dir, tail) PROVE p = first
  <2>1. EndsWith(p.dir, w)
    BY <1>0, <1>8, <1>9, EndsWithTail
  <2>2. p.dir \in hits
    BY <1>9, <2>1
  <2>3. p.dir = first.dir
    BY <1>2, <1>3, <2>2
  <2> QED BY <2>3 DEF RegistryOK
<1> HIDE DEF tail
<1>10. {p \in reg : EndsWith(p.dir, tail)} = {first}
  BY <1>1, <1>9
<1> QED BY <1>8, <1>10 DEF tail

\* registry.rs: whatever is open, what the ambiguity error suggests of a candidate resolves to
\* it and to nothing else, and is not one of the words that name my own project.
LEMMA SuggestionIsThere ==
    ASSUME NEW reg, RegistryOK(reg), NEW q, q \in Qualifiers,
           Cardinality(Candidates(reg, q)) > 1, NEW p \in Candidates(reg, q)
    PROVE  LET s == Suggestion({c.dir : c \in Candidates(reg, q)}, p.dir)
           IN  ~KindWord(s) /\ Resolved(reg, s) = {p}
<1> DEFINE C == Candidates(reg, q)
           enough == {n \in 1 .. Len(p.dir) :
                        Cardinality({d \in {c.dir : c \in C} : EndsWith(d, TailOf(p.dir, n))}) = 1}
           s == Suggestion({c.dir : c \in C}, p.dir)
<1>1. C \subseteq reg /\ IsFiniteSet(C) /\ p \in reg
  <2>1. C \in SUBSET reg
    BY DEF Candidates
  <2> QED BY <2>1, CandidatesFinite
<1>2. PICK other \in C : other # p
  <2>1. C # {p}
    BY FS_Singleton
  <2> QED BY <2>1
<1>3. q.path \in Written
  <2>1. ASSUME NEW d \in Dirs, NEW n \in 1 .. Len(d) PROVE TailOf(d, n) \in Written
    BY <2>1, TailOfDir, AddressesAssumption DEF Written
  <2> QED BY <2>1, AddressesAssumption DEF Qualifiers, FullPath, Path, Written
<1>4. C = {c \in reg : EndsWith(c.dir, q.path)}
  <2>1. CASE {c \in reg : q.abs /\ c.dir = q.path} # {}
    <3>1. C = {c \in reg : q.abs /\ c.dir = q.path}
      BY <2>1 DEF Candidates
    <3>2. other.dir = p.dir
      BY <3>1
    <3> QED BY <1>1, <1>2, <3>2 DEF RegistryOK
  <2>2. CASE {c \in reg : q.abs /\ c.dir = q.path} = {}
    BY <2>2 DEF Candidates
  <2> QED BY <2>1, <2>2
<1>5. \A n \in enough : n > 1 /\ {c \in reg : EndsWith(c.dir, TailOf(p.dir, n))} = {p}
  <2> SUFFICES ASSUME NEW n \in enough
               PROVE  n > 1 /\ {c \in reg : EndsWith(c.dir, TailOf(p.dir, n))} = {p}
    OBVIOUS
  <2>1. /\ n \in 1 .. Len(p.dir)
        /\ Cardinality({d \in {c.dir : c \in C} : EndsWith(d, TailOf(p.dir, n))}) = 1
    OBVIOUS
  <2>2. other \in reg /\ EndsWith(p.dir, q.path) /\ EndsWith(other.dir, q.path)
    BY <1>1, <1>4
  <2> HIDE DEF C, enough
  <2> QED BY <1>1, <1>2, <1>3, <1>4, <2>1, <2>2, SuggestedTail
<1>6. CASE enough = {}
  <2>1. s = FullPath(p.dir)
    BY <1>6 DEF Suggestion
  <2>2. s.abs /\ s.path = p.dir
    BY <2>1 DEF FullPath
  <2>3. {c \in reg : s.abs /\ c.dir = s.path} = {p}
    BY <1>1, <2>2 DEF RegistryOK
  <2> HIDE DEF s
  <2>4. Candidates(reg, s) = {p}
    BY <2>3 DEF Candidates
  <2>5. Resolved(reg, s) = {p}
    BY <2>4, FS_Singleton DEF Resolved
  <2>6. ~KindWord(s)
    BY <2>2 DEF KindWord, OneWord
  <2> QED BY <2>5, <2>6 DEF s
<1>7. CASE enough # {}
  <2>1. \E n \in enough : \A m \in enough : n <= m
    <3>1. enough \subseteq Nat
      OBVIOUS
    <3> HIDE DEF enough
    <3> QED BY <1>7, <3>1, LeastIsThere
  <2>2. PICK n \in enough : s = Path(TailOf(p.dir, n))
    BY <1>7, <2>1 DEF Suggestion
  <2>3. n > 1 /\ n \in 1 .. Len(p.dir) /\ {c \in reg : EndsWith(c.dir, TailOf(p.dir, n))} = {p}
    BY <1>5
  <2>4. ~s.abs /\ s.path = TailOf(p.dir, n)
    BY <2>2 DEF Path
  <2>5. p.dir \in Written
    BY <1>1, AddressesAssumption DEF RegistryOK, Written
  <2>6. Len(s.path) = n
    BY <2>3, <2>4, <2>5, TailOfDir
  <2> HIDE DEF s, enough, C
  <2>7. Candidates(reg, s) = {p}
    BY <2>3, <2>4 DEF Candidates
  <2>8. Resolved(reg, s) = {p}
    BY <2>7, FS_Singleton DEF Resolved
  <2>9. ~KindWord(s)
    BY <2>3, <2>6 DEF KindWord, OneWord
  <2> QED BY <2>8, <2>9 DEF s, C
<1> QED BY <1>6, <1>7

-----------------------------------------------------------------------------
(* Where answers and bounces go.                                            *)

\* A handle is one Core's, in what is open and in what the registry says.
OpenOK ==
    /\ DOMAIN open = Dirs
    /\ \A d \in Dirs :
          /\ open[d] = [handle |-> open[d].handle, begun |-> open[d].begun, rows |-> open[d].rows]
          /\ open[d].begun \in Nat /\ DOMAIN open[d].rows \subseteq 1 .. open[d].begun
          /\ open[d].handle \in 0 .. opens
          /\ open[d] # ProjectClosed => open[d].handle # 0
    /\ \A d, e \in Dirs : open[d].handle = open[e].handle /\ open[d].handle # 0 => d = e

PublishedOK ==
    /\ RegistryOK(registry)
    /\ \A p \in registry : p.handle \in 1 .. opens
    /\ \A p, q \in registry : p.handle = q.handle => p = q
    /\ \A p \in registry, d \in Dirs : open[d].handle = p.handle => d = p.dir

LettersOK ==
    \A l \in letters :
        /\ l.to.handle \in 1 .. opens /\ l.dir \in Dirs
        /\ l.back \in {Path(<<"claude">>), Path(TailOf(l.dir, 1))}

AddressesIInv ==
    /\ opens \in 0 .. MaxOpens /\ sends \in 0 .. MaxSends
    /\ OpenOK /\ PublishedOK /\ LettersOK /\ AnswersComeHome /\ BouncesComeHome

LEMMA AddressesStart == AddressesInit => AddressesIInv
<1> SUFFICES ASSUME AddressesInit PROVE AddressesIInv
  OBVIOUS
<1>1. DOMAIN ProjectClosed.rows = {} /\ ProjectClosed.begun = 0 /\ ProjectClosed.handle = 0
  BY DEF ProjectClosed
<1>2. ProjectClosed = [handle |-> 0, begun |-> 0, rows |-> <<>>]
  BY DEF ProjectClosed
<1>3. OpenOK
  BY <1>1, <1>2 DEF AddressesInit, OpenOK
<1>4. PublishedOK /\ LettersOK /\ AnswersComeHome /\ BouncesComeHome
  BY DEF AddressesInit, PublishedOK, RegistryOK, LettersOK, AnswersComeHome, BouncesComeHome
<1> QED BY <1>3, <1>4, AddressesAssumption DEF AddressesInit, AddressesIInv

\* A row of my own project, or of one that the registry names.
LEMMA LocalRowIs ==
    ASSUME AddressesIInv, NEW d \in Dirs, NEW id, NEW r \in LocalRow(d, id)
    PROVE  r.handle = open[d].handle /\ r.id = id /\ r.handle \in 1 .. opens
<1>1. id \in DOMAIN open[d].rows /\ r = Row(open[d].handle, id)
  BY DEF LocalRow
<1>2. open[d] # ProjectClosed
  <2>1. DOMAIN ProjectClosed.rows = {}
    BY DEF ProjectClosed
  <2> QED BY <1>1, <2>1
<1> QED BY <1>1, <1>2 DEF AddressesIInv, OpenOK, Row

LEMMA ForeignRowIs ==
    ASSUME AddressesIInv, NEW d \in Dirs, NEW q, NEW id, NEW r \in ForeignRow(d, q, id)
    PROVE  \E p \in Resolved(registry, q) :
              /\ p \in registry /\ r.id = id /\ r.handle \in 1 .. opens
              /\ r.handle = IF p.dir = d THEN open[d].handle ELSE p.handle
<1>1. PICK p \in Resolved(registry, q) :
         r \in IF p.dir = d THEN LocalRow(d, id)
               ELSE IF id \in DOMAIN p.rows THEN {Row(p.handle, id)} ELSE {}
  BY DEF ForeignRow
<1>2. p \in registry
  BY DEF Resolved, Candidates
<1>3. CASE p.dir = d
  BY <1>1, <1>2, <1>3, LocalRowIs
<1>4. CASE p.dir # d
  BY <1>1, <1>2, <1>4 DEF Row, AddressesIInv, PublishedOK
<1> QED BY <1>3, <1>4

LEMMA ReachedIs ==
    ASSUME AddressesIInv, NEW d \in Dirs, NEW q, NEW id, NEW r \in ReachedAt(d, q, id)
    PROVE  r.handle \in 1 .. opens
BY LocalRowIs, ForeignRowIs DEF ReachedAt

\* The inbox that an answer is put in is of the project it names.
LEMMA HomeIs ==
    ASSUME AddressesIInv, NEW d \in Dirs, NEW p \in registry, NEW r,
           r.handle = IF p.dir = d THEN open[d].handle ELSE p.handle
    PROVE  HomeOf(d, r) = {p.dir}
<1>1. CASE p.dir = d
  BY <1>1 DEF HomeOf
<1>2. CASE p.dir # d
  <2>1. r.handle = p.handle /\ r.handle # open[d].handle
    BY <1>2 DEF AddressesIInv, PublishedOK
  <2>2. {x \in registry : x.handle = r.handle} = {p}
    BY <2>1 DEF AddressesIInv, PublishedOK
  <2> QED BY <2>1, <2>2 DEF HomeOf
<1> QED BY <1>1, <1>2

\* sender_label, and the answer that goes where it says: to the project the message came
\* from, if the registry still names it.
LEMMA AnswerHome ==
    ASSUME AddressesIInv, NEW d \in Dirs, NEW l \in letters,
           NEW r \in ReachedAt(d, l.back, l.from.id), \E p \in registry : p.dir = l.dir
    PROVE  HomeOf(d, r) = {l.dir} \/ KindWord(l.back)
<1>1. l.dir \in Dirs /\ l.back \in {Path(<<"claude">>), Path(TailOf(l.dir, 1))}
  BY DEF AddressesIInv, LettersOK
<1>2. CASE l.back = Path(<<"claude">>)
  <2>1. Len(<<"claude">>) = 1 /\ <<"claude">>[1] = "claude"
    OBVIOUS
  <2>2. KindWord(l.back)
    BY <1>2, <2>1, AddressesAssumption DEF KindWord, OneWord, Path
  <2> QED BY <2>2
<1>3. CASE l.back = Path(TailOf(l.dir, 1)) /\ ~KindWord(l.back)
  <2>1. r \in ForeignRow(d, l.back, l.from.id)
    BY <1>3 DEF ReachedAt
  <2>2. PICK p \in Resolved(registry, l.back) :
           p \in registry /\ r.handle = IF p.dir = d THEN open[d].handle ELSE p.handle
    BY <2>1, ForeignRowIs
  <2>3. PICK p0 \in registry : p0.dir = l.dir
    OBVIOUS
  <2>4. l.dir \in Written /\ 1 \in 1 .. Len(l.dir)
    <3>1. l.dir \in Seq(DOMAIN Lower) /\ l.dir # <<>>
      BY <1>1, AddressesAssumption
    <3> QED BY <3>1, LenProperties, EmptySeq DEF Written
  <2>5. EndsWith(l.dir, TailOf(l.dir, 1))
    BY <2>4, EndsWithOwn
  <2>6. ~l.back.abs /\ l.back.path = TailOf(l.dir, 1)
    BY <1>3 DEF Path
  <2>7. p0 \in Candidates(registry, l.back)
    BY <2>3, <2>5, <2>6 DEF Candidates
  <2>8. Cardinality(Candidates(registry, l.back)) = 1 /\ p \in Candidates(registry, l.back)
    BY <2>2 DEF Resolved
  <2>9. PICK x : Candidates(registry, l.back) = {x}
    <3>1. IsFiniteSet(Candidates(registry, l.back))
      <4>1. Candidates(registry, l.back) \in SUBSET registry /\ RegistryOK(registry)
        BY DEF Candidates, AddressesIInv, PublishedOK
      <4> QED BY <4>1, CandidatesFinite
    <3> QED BY <2>8, <3>1, FS_Singleton
  <2>10. p = p0
    BY <2>7, <2>8, <2>9
  <2> QED BY <2>2, <2>3, <2>10, HomeIs
<1> QED BY <1>1, <1>2, <1>3

\* A project is opened, closed, gets a row or a name for it.
LEMMA OpenAddresses ==
    ASSUME AddressesIInv, NEW d \in Dirs, Open(d)
    PROVE  AddressesIInv'
<1>1. /\ open[d] = ProjectClosed /\ \A p \in registry : p.dir # d
      /\ opens' = opens + 1 /\ opens' \in 0 .. MaxOpens /\ opens \in Nat
      /\ open' = [open EXCEPT ![d].handle = opens + 1]
      /\ UNCHANGED <<registry, letters, strays, returned, sends>>
  BY AddressesAssumption DEF Open, AddressesIInv
<1>2. /\ DOMAIN open' = Dirs
      /\ \A e \in Dirs : e # d => open'[e] = open[e]
      /\ open'[d] = [open[d] EXCEPT !.handle = opens + 1]
  BY <1>1 DEF AddressesIInv, OpenOK
<1>3. open'[d] = [handle |-> opens + 1, begun |-> 0, rows |-> <<>>]
  BY <1>1, <1>2 DEF ProjectClosed
<1>4. DOMAIN <<>> = {}
  OBVIOUS
<1>5. /\ open'[d].handle = opens + 1 /\ open'[d].begun = 0 /\ open'[d].rows = <<>>
      /\ open'[d] = [handle |-> open'[d].handle, begun |-> open'[d].begun, rows |-> open'[d].rows]
  BY <1>3
<1>6. \A e \in Dirs : e # d => open'[e].handle # opens + 1
  BY <1>1, <1>2 DEF AddressesIInv, OpenOK
<1>7. OpenOK'
  <2>1. \A e \in Dirs : e # d => open'[e].handle \in 0 .. opens'
    BY <1>1, <1>2 DEF AddressesIInv, OpenOK
  <2>2. \A e, f \in Dirs : open'[e].handle = open'[f].handle /\ open'[e].handle # 0 => e = f
    BY <1>2, <1>5, <1>6 DEF AddressesIInv, OpenOK
  <2> QED BY <1>1, <1>2, <1>4, <1>5, <2>1, <2>2 DEF AddressesIInv, OpenOK
<1>8. PublishedOK'
  <2>1. \A p \in registry : p.handle \in 1 .. opens' /\ p.handle # opens + 1
    BY <1>1 DEF AddressesIInv, PublishedOK
  <2>2. \A p \in registry, e \in Dirs : open'[e].handle = p.handle => e = p.dir
    BY <1>2, <1>5, <2>1 DEF AddressesIInv, PublishedOK
  <2> QED BY <1>1, <2>1, <2>2 DEF AddressesIInv, PublishedOK
<1>9. LettersOK'
  BY <1>1 DEF AddressesIInv, LettersOK
<1> QED BY <1>1, <1>7, <1>8, <1>9 DEF AddressesIInv, AnswersComeHome, BouncesComeHome

\* What a project becomes whose handle stays, or goes.
LEMMA SameHandles ==
    ASSUME AddressesIInv, NEW d \in Dirs, NEW new,
           open' = [open EXCEPT ![d] = new],
           new = [handle |-> new.handle, begun |-> new.begun, rows |-> new.rows],
           new.begun \in Nat, DOMAIN new.rows \subseteq 1 .. new.begun,
           new.handle = open[d].handle \/ new = ProjectClosed,
           new # ProjectClosed => new.handle # 0,
           UNCHANGED <<opens, registry>>
    PROVE  OpenOK' /\ PublishedOK'
<1>1. DOMAIN open' = Dirs /\ \A e \in Dirs : open'[e] = IF e = d THEN new ELSE open[e]
  BY DEF AddressesIInv, OpenOK
<1>2. new.handle \in {open[d].handle, 0} /\ new.handle \in 0 .. opens
  BY DEF AddressesIInv, OpenOK, ProjectClosed
<1>3. \A e \in Dirs : open'[e].handle \in {open[e].handle, 0}
  BY <1>1, <1>2
<1>4. OpenOK'
  BY <1>1, <1>2, <1>3 DEF AddressesIInv, OpenOK
<1>5. PublishedOK'
  <2>1. \A p \in registry : p.handle # 0
    BY DEF AddressesIInv, PublishedOK
  <2> QED BY <1>3, <2>1 DEF AddressesIInv, PublishedOK
<1> QED BY <1>4, <1>5

\* A field of a record, replaced.
LEMMA RowsReplaced ==
    ASSUME NEW h, NEW n, NEW r, NEW s, NEW p, p = [handle |-> h, begun |-> n, rows |-> r]
    PROVE  [p EXCEPT !.rows = s] = [handle |-> h, begun |-> n, rows |-> s]
OBVIOUS

LEMMA BegunReplaced ==
    ASSUME NEW h, NEW n, NEW r, NEW m, NEW p, p = [handle |-> h, begun |-> n, rows |-> r]
    PROVE  [p EXCEPT !.begun = m] = [handle |-> h, begun |-> m, rows |-> r]
OBVIOUS

LEMMA ProjectAddresses ==
    ASSUME AddressesIInv, NEW d \in Dirs, Close(d) \/ RowStarts(d)
    PROVE  AddressesIInv'
<1>0. open[d] = [handle |-> open[d].handle, begun |-> open[d].begun, rows |-> open[d].rows]
  BY DEF AddressesIInv, OpenOK
<1>9. d \in DOMAIN open
  BY DEF AddressesIInv, OpenOK
<1>1. CASE Close(d)
  <2>1. /\ open' = [open EXCEPT ![d] = ProjectClosed]
        /\ letters' \subseteq letters /\ UNCHANGED <<registry, strays, returned, opens, sends>>
    BY <1>1 DEF Close
  <2>2. /\ ProjectClosed = [handle |-> ProjectClosed.handle, begun |-> ProjectClosed.begun,
                            rows |-> ProjectClosed.rows]
        /\ ProjectClosed.begun \in Nat /\ DOMAIN ProjectClosed.rows = {}
    BY DEF ProjectClosed
  <2>3. OpenOK' /\ PublishedOK'
    BY <2>1, <2>2, SameHandles
  <2> QED BY <2>1, <2>3 DEF AddressesIInv, LettersOK, AnswersComeHome, BouncesComeHome
<1>2. CASE RowStarts(d)
  <2> DEFINE i == open[d].begun + 1
             rs == [k \in DOMAIN open[d].rows \cup {i} |-> IF k = i THEN NoLabel ELSE open[d].rows[k]]
             new == [handle |-> open[d].handle, begun |-> i, rows |-> rs]
  <2>1. open' = [open EXCEPT ![d].begun = i, ![d].rows = rs]
    BY <1>2 DEF RowStarts
  <2> HIDE DEF i, rs
  <2>2. open' = [open EXCEPT ![d] = new]
    <3>1. PICK p : p = open[d]
      OBVIOUS
    <3>2. PICK q : q = [p EXCEPT !.begun = i]
      OBVIOUS
    <3>3. q = [handle |-> open[d].handle, begun |-> i, rows |-> open[d].rows]
      BY <1>0, <3>1, <3>2, BegunReplaced, Zenon
    <3>4. [q EXCEPT !.rows = rs] = [handle |-> open[d].handle, begun |-> i, rows |-> rs]
      BY <3>3, RowsReplaced, SMT
    <3>5. open' = [open EXCEPT ![d] = [q EXCEPT !.rows = rs]]
      BY <1>9, <2>1, <3>1, <3>2
    <3> QED BY <3>4, <3>5
  <2> USE DEF i, rs
  <2>3. new.handle = open[d].handle /\ new.begun = i /\ new.rows = rs
    OBVIOUS
  <2>4. i \in Nat /\ DOMAIN rs \subseteq 1 .. i
    BY DEF AddressesIInv, OpenOK
  <2>5. open[d].handle # 0
    BY <1>2 DEF RowStarts, AddressesIInv, OpenOK
  <2>6. UNCHANGED <<registry, letters, strays, returned, opens, sends>>
    BY <1>2 DEF RowStarts
  <2> HIDE DEF i, rs
  <2>7. new = [handle |-> new.handle, begun |-> new.begun, rows |-> new.rows]
    OBVIOUS
  <2> HIDE DEF new
  <2>8. OpenOK' /\ PublishedOK'
    BY <2>2, <2>3, <2>4, <2>5, <2>6, <2>7, SameHandles
  <2> QED BY <2>6, <2>8 DEF AddressesIInv, LettersOK, AnswersComeHome, BouncesComeHome
<1> QED BY <1>1, <1>2

\* The rows of a project change in no other way.
LEMMA NewRows ==
    ASSUME AddressesIInv, NEW d \in Dirs, NEW rs, DOMAIN rs \subseteq DOMAIN open[d].rows,
           open' = [open EXCEPT ![d].rows = rs], DOMAIN open[d].rows # {},
           UNCHANGED <<opens, registry>>
    PROVE  OpenOK' /\ PublishedOK'
<1> DEFINE new == [handle |-> open[d].handle, begun |-> open[d].begun, rows |-> rs]
<1>0. open[d] = [handle |-> open[d].handle, begun |-> open[d].begun, rows |-> open[d].rows]
  BY DEF AddressesIInv, OpenOK
<1>9. d \in DOMAIN open
  BY DEF AddressesIInv, OpenOK
<1>1. open' = [open EXCEPT ![d] = new]
  <2>1. PICK p : p = open[d]
    OBVIOUS
  <2>2. [p EXCEPT !.rows = rs] = [handle |-> open[d].handle, begun |-> open[d].begun, rows |-> rs]
    BY <1>0, <2>1, RowsReplaced, SMT
  <2>3. open' = [open EXCEPT ![d] = [p EXCEPT !.rows = rs]]
    BY <1>9, <2>1
  <2> QED BY <2>2, <2>3
<1>2. open[d].handle # 0
  <2>1. DOMAIN ProjectClosed.rows = {}
    BY DEF ProjectClosed
  <2> QED BY <2>1 DEF AddressesIInv, OpenOK
<1>3. /\ new.handle = open[d].handle /\ new.begun = open[d].begun /\ new.rows = rs
      /\ new = [handle |-> new.handle, begun |-> new.begun, rows |-> new.rows]
  OBVIOUS
<1>4. open[d].begun \in Nat /\ DOMAIN rs \subseteq 1 .. open[d].begun
  BY DEF AddressesIInv, OpenOK
<1> HIDE DEF new
<1> QED BY <1>1, <1>2, <1>3, <1>4, SameHandles

LEMMA RowAddresses ==
    ASSUME AddressesIInv, NEW d \in Dirs, NEW i,
           RowEnds(d, i) \/ \E b \in Labels : RowIsNamed(d, i, b)
    PROVE  AddressesIInv'
<1>1. CASE RowEnds(d, i)
  <2> DEFINE rs == [k \in DOMAIN open[d].rows \ {i} |-> open[d].rows[k]]
             unread == {l \in letters : l.to = Row(open[d].handle, i)}
  <2>1. /\ open' = [open EXCEPT ![d].rows = rs] /\ i \in DOMAIN open[d].rows
        /\ letters' = letters \ unread
        /\ UNCHANGED <<registry, strays, opens, sends>>
    BY <1>1 DEF RowEnds
  <2>2. OpenOK' /\ PublishedOK'
    <3>1. DOMAIN rs \subseteq DOMAIN open[d].rows
      OBVIOUS
    <3> HIDE DEF rs
    <3> QED BY <2>1, <3>1, NewRows
  <2>3. \A b \in returned' : b \in returned \/
           \E l \in unread : \E t \in BouncedTo(d, l) :
              b = [to |-> t[2], at |-> t[1], of |-> l.from, dir |-> l.dir]
    BY <1>1 DEF RowEnds
  <2>4. ASSUME NEW l \in unread, NEW t \in BouncedTo(d, l)
        PROVE  t[2].id = l.from.id /\ t[1] = l.dir
    <3>1. CASE l.dir = d
      <4>1. PICK r \in LocalRow(d, l.from.id) : t = <<d, r>>
        BY <3>1 DEF BouncedTo
      <4> QED BY <3>1, <4>1, LocalRowIs
    <3>2. CASE l.dir # d
      <4>1. PICK p \in registry : p.dir = l.dir /\ t = <<p.dir, Row(p.handle, l.from.id)>>
        BY <3>2 DEF BouncedTo
      <4> QED BY <4>1 DEF Row
    <3> QED BY <3>1, <3>2
  <2>5. BouncesComeHome'
    BY <2>3, <2>4 DEF AddressesIInv, BouncesComeHome
  <2> QED BY <2>1, <2>2, <2>5 DEF AddressesIInv, LettersOK, AnswersComeHome
<1>2. ASSUME NEW b \in Labels, RowIsNamed(d, i, b) PROVE AddressesIInv'
  <2> DEFINE rs == [open[d].rows EXCEPT ![i] = b]
  <2>1. /\ open' = [open EXCEPT ![d].rows = rs] /\ i \in DOMAIN open[d].rows
        /\ UNCHANGED <<registry, letters, strays, returned, opens, sends>>
    <3>1. open' = [open EXCEPT ![d].rows[i] = b]
      BY <1>2 DEF RowIsNamed
    <3> QED BY <1>2, <3>1 DEF RowIsNamed
  <2>2. DOMAIN rs \subseteq DOMAIN open[d].rows
    OBVIOUS
  <2> HIDE DEF rs
  <2>3. OpenOK' /\ PublishedOK'
    BY <2>1, <2>2, NewRows
  <2> QED BY <2>1, <2>3 DEF AddressesIInv, LettersOK, AnswersComeHome, BouncesComeHome
<1> QED BY <1>1, <1>2

\* The poll loop publishes what is open.
LEMMA TickAddresses ==
    ASSUME AddressesIInv, TickPublishes
    PROVE  AddressesIInv'
<1>1. registry' = Published /\ UNCHANGED <<open, letters, strays, returned, opens, sends>>
  BY DEF TickPublishes
<1>2. \A p \in registry' : /\ p.dir \in Dirs /\ open[p.dir] # ProjectClosed /\ p = Entry(p.dir)
                           /\ p.handle = open[p.dir].handle
  BY <1>1 DEF Published, Entry
<1>3. RegistryOK(registry')
  BY <1>2 DEF RegistryOK
<1>4. \A p \in registry' : p.handle \in 1 .. opens
  BY <1>2 DEF AddressesIInv, OpenOK
<1>5. \A p \in registry', e \in Dirs : open[e].handle = p.handle => e = p.dir
  BY <1>2, <1>4 DEF AddressesIInv, OpenOK
<1>6. \A p, q \in registry' : p.handle = q.handle => p = q
  BY <1>2, <1>5
<1>7. PublishedOK'
  BY <1>1, <1>3, <1>4, <1>5, <1>6 DEF PublishedOK
<1> QED BY <1>1, <1>7 DEF AddressesIInv, OpenOK, LettersOK, AnswersComeHome, BouncesComeHome

\* A message is sent, and answered at the address it says.
LEMMA LetterAddresses ==
    ASSUME AddressesIInv, NEW d \in Dirs,
           \/ \E i \in 1 .. MaxRows : SendsTo(d, i) \/ SendsByName(d, i)
           \/ \E l \in letters : Answers(d, l)
    PROVE  AddressesIInv'
<1>0. OpenOK' /\ PublishedOK' /\ opens' = opens /\ BouncesComeHome'
  BY DEF AddressesIInv, OpenOK, PublishedOK, RegistryOK, BouncesComeHome, SendsTo, SendsByName,
         Sends, Answers
<1>1. ASSUME NEW i, NEW reached, Sends(d, i, reached), \A r \in reached : r.handle \in 1 .. opens
      PROVE  AddressesIInv'
  <2>1. /\ letters' = letters \cup {Letter(d, i, r) : r \in reached}
        /\ strays' = strays /\ sends' \in 0 .. MaxSends
    BY <1>1, AddressesAssumption DEF Sends, AddressesIInv
  <2>2. ASSUME NEW r \in reached
        PROVE  /\ Letter(d, i, r).to = r /\ Letter(d, i, r).dir = d
               /\ Letter(d, i, r).back \in {Path(<<"claude">>), Path(TailOf(d, 1))}
    BY DEF Letter, LabelFor
  <2>3. LettersOK'
    BY <1>0, <1>1, <2>1, <2>2 DEF AddressesIInv, LettersOK
  <2> QED BY <1>0, <2>1, <2>3 DEF AddressesIInv, AnswersComeHome
<1>2. ASSUME NEW i, SendsTo(d, i) PROVE AddressesIInv'
  <2>1. PICK q \in Qualifiers, id \in 1 .. MaxRows : Sends(d, i, ReachedAt(d, q, id))
    BY <1>2 DEF SendsTo
  <2> QED BY <1>1, <2>1, ReachedIs
<1>3. ASSUME NEW i, SendsByName(d, i) PROVE AddressesIInv'
  <2>1. PICK label \in Labels : Sends(d, i, ByName(d, label) \ {Row(open[d].handle, i)})
    BY <1>3 DEF SendsByName
  <2>2. \A r \in ByName(d, label) : \E id \in DOMAIN open[d].rows : r = Row(open[d].handle, id)
    BY DEF ByName
  <2>3. \A r \in ByName(d, label) : \E id : r \in LocalRow(d, id)
    BY <2>2 DEF LocalRow
  <2>4. \A r \in ByName(d, label) : r.handle \in 1 .. opens
    BY <2>3, LocalRowIs
  <2> QED BY <1>1, <2>1, <2>4
<1>4. ASSUME NEW l \in letters, Answers(d, l) PROVE AddressesIInv'
  <2>1. /\ letters' = letters \ {l} /\ sends' = sends
        /\ \A x \in strays' : x \in strays \/
              \E r \in ReachedAt(d, l.back, l.from.id) :
                 x = [at |-> l.back, known |-> \E p \in registry : p.dir = l.dir,
                      home |-> HomeOf(d, r) = {l.dir}]
    BY <1>4 DEF Answers
  <2>2. AnswersComeHome'
    <3> SUFFICES ASSUME NEW x \in strays', x \notin strays PROVE x.home \/ ~x.known \/ KindWord(x.at)
      BY DEF AddressesIInv, AnswersComeHome
    <3>1. PICK r \in ReachedAt(d, l.back, l.from.id) :
                 x = [at |-> l.back, known |-> \E p \in registry : p.dir = l.dir,
                      home |-> HomeOf(d, r) = {l.dir}]
      BY <2>1
    <3>2. /\ x.at = l.back /\ (x.known <=> \E p \in registry : p.dir = l.dir)
          /\ x.home <=> HomeOf(d, r) = {l.dir}
      BY <3>1
    <3> QED BY <3>2, AnswerHome
  <2>3. LettersOK'
    BY <1>0, <2>1 DEF AddressesIInv, LettersOK
  <2> QED BY <1>0, <2>1, <2>2, <2>3 DEF AddressesIInv
<1> QED BY <1>2, <1>3, <1>4

\* registry.rs, resolve_address, bounce_dead_inbox: whichever projects are open, closed and
\* opened again between two ticks, what the ambiguity error suggests resolves to the project
\* it was said of, an answer comes home to the project the question was sent from, and what
\* was not read is returned to the number that sent it.
THEOREM LettersComeHome == AddressesSpec => []AddressesInv
<1>1. AddressesIInv /\ [AddressesNext]_addressVars => AddressesIInv'
  <2> SUFFICES ASSUME AddressesIInv, [AddressesNext]_addressVars PROVE AddressesIInv'
    OBVIOUS
  <2>1. CASE UNCHANGED addressVars
    BY <2>1 DEF addressVars, AddressesIInv, OpenOK, PublishedOK, RegistryOK, LettersOK,
       AnswersComeHome, BouncesComeHome
  <2> QED BY <2>1, OpenAddresses, ProjectAddresses, RowAddresses, TickAddresses, LetterAddresses
          DEF AddressesNext
<1>2. AddressesIInv => AddressesInv
  <2> SUFFICES ASSUME AddressesIInv PROVE AddressesInv
    OBVIOUS
  <2>1. AddressesTypeOK
    <3>1. \A d, e \in Dirs : open[d].handle = open[e].handle /\ open[d] # ProjectClosed => d = e
      BY DEF AddressesIInv, OpenOK
    <3>2. \A d \in Dirs : DOMAIN open[d].rows \subseteq 1 .. open[d].begun
      BY DEF AddressesIInv, OpenOK
    <3>3. \A p, q \in registry : p.dir = q.dir => p = q
      BY DEF AddressesIInv, PublishedOK, RegistryOK
    <3>4. \A l \in letters : l.to.handle \in 1 .. opens /\ l.dir \in Dirs
      BY DEF AddressesIInv, LettersOK
    <3> QED BY <3>1, <3>2, <3>3, <3>4 DEF AddressesIInv, AddressesTypeOK
  <2>2. SuggestionWorks
    <3>1. RegistryOK(registry)
      BY DEF AddressesIInv, PublishedOK
    <3> QED BY <3>1, SuggestionIsThere DEF SuggestionWorks
  <2> QED BY <2>1, <2>2 DEF AddressesIInv, AddressesInv
<1> QED BY <1>1, <1>2, AddressesStart, PTL DEF AddressesSpec
=============================================================================
