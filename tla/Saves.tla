------------------------------- MODULE Saves -------------------------------
(***************************************************************************)
(* Saving, loading and handing off the work of a claude (saves.rs,         *)
(* handoff.rs).  A save stops its claude, holds the row and works in a     *)
(* thread of its own for minutes; the docs are files of the repository and *)
(* the links between docs and conversations are lines of a local file.     *)
(* What a conversation or a doc holds is a set of facts.  All docs are of  *)
(* one slug, so a doc is its number.                                       *)
(***************************************************************************)
EXTENDS Naturals, Sequences, FiniteSets

CONSTANTS
    SaveRows,       \* the rows a project can have
    MaxTalks,       \* bound: the conversations, numbered from 1
    MaxFacts,       \* bound: the turns that teach a conversation something
    MaxDocs,        \* bound: the numbers of the slug
    MaxJobs,        \* bound: the saves and handoffs, numbered from 1
    MaxReopens      \* bound: how often the project is closed and opened again

ASSUME SavesAssumption ==
    {MaxTalks, MaxFacts, MaxDocs, MaxJobs, MaxReopens} \subseteq Nat

VARIABLES
    rows,       \* the conversation of each row, and whether ⌘S holds it
    worked,     \* the rows the restore store brings back
    era,        \* the project's handle
    talks,      \* the conversations so far
    knows,      \* what each conversation holds
    facts,      \* the facts so far
    docs,       \* mulpex/saves/: what each doc holds
    saveLinks,      \* save-links.tsv
    claims,     \* RUNNING: handle and row
    jobs        \* the threads that save
talkVars == <<talks, knows, facts>>
savesVars == <<rows, worked, era, talkVars, docs, saveLinks, claims, jobs>>

RowGone == [talk |-> 0, is |-> "gone"]
OpenRow(c) == [talk |-> c, is |-> "open"]
NoJob == [row |-> 0, era |-> 0, talk |-> 0, kind |-> "save",
          doc |-> 0, read |-> {}, draft |-> {}, stage |-> "none"]
InFlight == {"started", "asked", "other", "drafted", "named", "stored"}

-----------------------------------------------------------------------------
SavesInit ==
    /\ rows = [r \in SaveRows |-> RowGone] /\ worked = {} /\ era = 1
    /\ talks = 0 /\ knows = [c \in 1..MaxTalks |-> {}] /\ facts = 0
    /\ docs = [d \in {} |-> {}] /\ saveLinks = <<>> /\ claims = {}
    /\ jobs = [j \in 1..MaxJobs |-> NoJob]

\* A row on a new conversation that starts from what it is told.
NewTalk(r, told) ==
    /\ talks < MaxTalks /\ talks' = talks + 1
    /\ rows' = [rows EXCEPT ![r] = OpenRow(talks + 1)]
    /\ knows' = [knows EXCEPT ![talks + 1] = told] /\ UNCHANGED facts

NewRow(r) ==
    /\ rows[r] = RowGone /\ NewTalk(r, {})
    /\ UNCHANGED <<worked, era, docs, saveLinks, claims, jobs>>

\* A turn.
Works(r) ==
    /\ rows[r].is = "open" /\ facts < MaxFacts /\ facts' = facts + 1
    /\ knows' = [knows EXCEPT ![rows[r].talk] = @ \cup {facts + 1}]
    /\ worked' = worked \cup {r}
    /\ UNCHANGED <<rows, era, talks, docs, saveLinks, claims, jobs>>

\* close_session
CloseRow(r) ==
    /\ rows[r] # RowGone /\ <<era, r>> \notin claims
    /\ rows' = [rows EXCEPT ![r] = RowGone] /\ worked' = worked \ {r}
    /\ UNCHANGED <<era, talkVars, docs, saveLinks, claims, jobs>>

\* The project is closed, which no save prevents, and opened again: what is in the store returns.
Reopen ==
    /\ era <= MaxReopens /\ era' = era + 1
    /\ rows' = [r \in SaveRows |-> IF r \in worked THEN OpenRow(rows[r].talk) ELSE RowGone]
    /\ UNCHANGED <<worked, talkVars, docs, saveLinks, claims, jobs>>

-----------------------------------------------------------------------------
(* A save or a handoff.                                                     *)

\* Mutant: the claude runs on while it is saved.
Held_Open(r) == rows

\* begin_save: the claude is stopped and its row held.
Held(r) == [rows EXCEPT ![r].is = "held"]

\* save_refusal: something to save, of a claude whose turn is over or that is held already.
MaySave(r) == rows[r] # RowGone /\ r \in worked

\* save_session and continue_in_other_agent, with the claim.
BeginSave(r, kind) ==
    /\ MaySave(r) /\ <<era, r>> \notin claims
    /\ \E j \in 1..MaxJobs :
          /\ jobs[j] = NoJob /\ \A i \in 1..(j - 1) : jobs[i] # NoJob
          /\ jobs' = [jobs EXCEPT ![j] = [NoJob EXCEPT !.row = r, !.era = era, !.kind = kind,
                                          !.talk = rows[r].talk, !.stage = "started"]]
    /\ rows' = Held(r) /\ claims' = claims \cup {<<era, r>>}
    /\ UNCHANGED <<worked, era, talkVars, docs, saveLinks>>

Moves(j, from, to) == jobs[j].stage = from /\ to.stage # from /\ jobs' = [jobs EXCEPT ![j] = to]

\* save_for_uuid: the newest line of the conversation whose doc is there.
LinesOf(c) == {n \in DOMAIN saveLinks : saveLinks[n].talk = c /\ saveLinks[n].doc \in DOMAIN docs}
Newest(S) == CHOOSE n \in S : \A m \in S : m <= n
Existing(c) == IF LinesOf(c) = {} THEN 0 ELSE saveLinks[Newest(LinesOf(c))].doc

Told(d) == IF d \in DOMAIN docs THEN docs[d] ELSE {}

\* write_prompt: the doc there is goes into the question.
JobAsks(j) ==
    /\ LET d == Existing(jobs[j].talk)
       IN  Moves(j, "started", [jobs[j] EXCEPT !.stage = "asked", !.doc = d, !.read = Told(d)])
    /\ UNCHANGED <<rows, worked, era, talkVars, docs, saveLinks, claims>>

\* parse_draft: a whole draft, of the doc that was shown and of what the conversation holds.
Drafted(j) == [jobs[j] EXCEPT !.stage = IF jobs[j].doc # 0 THEN "named" ELSE "drafted",
                              !.draft = jobs[j].read \cup knows[jobs[j].talk]]

\* save and write_doc: the fork of the conversation answers.
JobDrafts(j) ==
    /\ Moves(j, "asked", Drafted(j))
    /\ UNCHANGED <<rows, worked, era, talkVars, docs, saveLinks, claims>>

\* write_doc: the agent of the row cannot serve, and the other one is asked instead, from the
\* doc as it is now.
HandoffFallsBack(j) ==
    /\ jobs[j].kind = "handoff"
    /\ Moves(j, "asked", [jobs[j] EXCEPT !.stage = "other", !.read = Told(jobs[j].doc)])
    /\ UNCHANGED <<rows, worked, era, talkVars, docs, saveLinks, claims>>

OtherDrafts(j) ==
    /\ Moves(j, "other", Drafted(j))
    /\ UNCHANGED <<rows, worked, era, talkVars, docs, saveLinks, claims>>

\* release
Released(j) == claims \ {<<jobs[j].era, jobs[j].row>>}

\* A step has no answer (run_child's timeout among the reasons), or the doc cannot be written.
JobFails(j) ==
    /\ jobs[j].stage \in {"asked", "other", "drafted", "named"}
    /\ jobs' = [jobs EXCEPT ![j].stage = "failed"] /\ claims' = Released(j)
    /\ UNCHANGED <<rows, worked, era, talkVars, docs, saveLinks>>

\* write_save_dated: the first number that is not there.
IsFree(d) == d \notin DOMAIN docs /\ 1..(d - 1) \subseteq DOMAIN docs

JobNames(j) ==
    /\ \E d \in 1..MaxDocs :
          /\ IsFree(d)
          /\ Moves(j, "drafted", [jobs[j] EXCEPT !.stage = "named", !.doc = d])
    /\ UNCHANGED <<rows, worked, era, talkVars, docs, saveLinks, claims>>

\* The write of write_save_dated or update_save, which makes a doc that is gone again.
JobStores(j) ==
    /\ Moves(j, "named", [jobs[j] EXCEPT !.stage = "stored"])
    /\ docs' = [d \in DOMAIN docs \cup {jobs[j].doc} |-> IF d = jobs[j].doc THEN jobs[j].draft ELSE docs[d]]
    /\ UNCHANGED <<rows, worked, era, talkVars, saveLinks, claims>>

SavedLink(j) == [kind |-> "saved", talk |-> jobs[j].talk, doc |-> jobs[j].doc]

\* save_succeeded, for a row that is held.
JobEnds(j) ==
    /\ jobs[j].kind = "save" /\ Moves(j, "stored", [jobs[j] EXCEPT !.stage = "done"])
    /\ saveLinks' = Append(saveLinks, SavedLink(j)) /\ claims' = Released(j)
    /\ worked' = IF jobs[j].era = era /\ rows[jobs[j].row].is = "held" THEN worked \ {jobs[j].row} ELSE worked
    /\ UNCHANGED <<rows, era, talkVars, docs>>

\* replace_with_agent: the other agent starts on the doc, or does not and the row is reaped.
HandoffEnds(j) ==
    /\ jobs[j].kind = "handoff" /\ jobs[j].era = era
    /\ Moves(j, "stored", [jobs[j] EXCEPT !.stage = "done"]) /\ claims' = Released(j)
    /\ \/ /\ NewTalk(jobs[j].row, Told(jobs[j].doc))
          /\ saveLinks' = saveLinks \o <<SavedLink(j), [kind |-> "loaded", talk |-> talks', doc |-> jobs[j].doc]>>
          /\ UNCHANGED worked
       \/ /\ rows' = [rows EXCEPT ![jobs[j].row] = RowGone] /\ worked' = worked \ {jobs[j].row}
          /\ saveLinks' = Append(saveLinks, SavedLink(j)) /\ UNCHANGED talkVars
    /\ UNCHANGED <<era, docs>>

\* The project of a handoff was closed.
HandoffHasNoRow(j) ==
    /\ jobs[j].kind = "handoff" /\ jobs[j].era # era
    /\ Moves(j, "stored", [jobs[j] EXCEPT !.stage = "failed"]) /\ claims' = Released(j)
    /\ saveLinks' = Append(saveLinks, SavedLink(j))
    /\ UNCHANGED <<rows, worked, era, talkVars, docs>>

-----------------------------------------------------------------------------
(* The list of saves.                                                       *)

\* load_save, "fresh"
LoadFresh(r, d) ==
    /\ rows[r] = RowGone /\ d \in DOMAIN docs /\ NewTalk(r, Told(d))
    /\ saveLinks' = Append(saveLinks, [kind |-> "loaded", talk |-> talks', doc |-> d])
    /\ worked' = worked \cup {r}
    /\ UNCHANGED <<era, docs, claims, jobs>>

\* resumable: the conversation that saved the doc last.
SaversOf(d) == {n \in DOMAIN saveLinks : saveLinks[n].kind = "saved" /\ saveLinks[n].doc = d}

\* A row of the conversation: it is focused instead.
IsOpen(c) == \E r \in SaveRows : rows[r].talk = c

\* load_save, "continue"
LoadContinues(r, d) ==
    /\ rows[r] = RowGone /\ d \in DOMAIN docs /\ SaversOf(d) # {}
    /\ LET c == saveLinks[Newest(SaversOf(d))].talk
       IN  ~IsOpen(c) /\ rows' = [rows EXCEPT ![r] = OpenRow(c)]
    /\ worked' = worked \cup {r}
    /\ UNCHANGED <<era, talkVars, docs, saveLinks, claims, jobs>>

\* delete_save
DeleteSave(d) ==
    /\ d \in DOMAIN docs /\ docs' = [e \in DOMAIN docs \ {d} |-> docs[e]]
    /\ UNCHANGED <<rows, worked, era, talkVars, saveLinks, claims, jobs>>

-----------------------------------------------------------------------------
JobMoves(j) ==
    \/ JobAsks(j) \/ JobDrafts(j) \/ HandoffFallsBack(j) \/ OtherDrafts(j) \/ JobFails(j) \/ JobNames(j) \/ JobStores(j)
    \/ JobEnds(j) \/ HandoffEnds(j) \/ HandoffHasNoRow(j)

SavesNext ==
    \/ Reopen
    \/ \E r \in SaveRows :
          \/ NewRow(r) \/ Works(r) \/ CloseRow(r) \/ BeginSave(r, "save") \/ BeginSave(r, "handoff")
          \/ \E d \in 1..MaxDocs : LoadFresh(r, d) \/ LoadContinues(r, d)
    \/ \E d \in 1..MaxDocs : DeleteSave(d)
    \/ \E j \in 1..MaxJobs : JobMoves(j)

SavesSpec == SavesInit /\ [][SavesNext]_savesVars

-----------------------------------------------------------------------------
\* Every variable is in its range (saves.rs, Link and RUNNING; state.rs, saving).
SavesTypeOK ==
    /\ \A r \in SaveRows : /\ rows[r].talk \in 0..MaxTalks /\ rows[r].is \in {"gone", "open", "held"}
                           /\ rows[r].is = "gone" <=> rows[r].talk = 0
    /\ worked \subseteq {r \in SaveRows : rows[r] # RowGone} /\ era \in 1..(MaxReopens + 1)
    /\ talks \in 0..MaxTalks /\ facts \in 0..MaxFacts
    /\ knows \in [1..MaxTalks -> SUBSET (1..MaxFacts)]
    /\ DOMAIN docs \subseteq 1..MaxDocs /\ \A d \in DOMAIN docs : docs[d] \subseteq 1..MaxFacts
    /\ claims \subseteq (1..era) \X SaveRows

\* No two rows run one conversation, though a row that is held or was saved looks like a closed
\* one (commands.rs, load_save: "two claudes on one transcript would corrupt it").
OneRowPerTalk ==
    \A r, s \in SaveRows : r # s /\ rows[r] # RowGone => rows[r].talk # rows[s].talk

\* While a row is held for its save, what the conversation holds is what the draft holds: nothing
\* moves past the snapshot (docs/saves.md, "The forks read the transcript from disk").
SnapshotIsWhole ==
    \A j \in 1..MaxJobs : jobs[j].era = era /\ jobs[j].stage \in {"drafted", "named", "stored"}
        => knows[jobs[j].talk] \subseteq jobs[j].draft

\* A claim is of a job in flight, so that a row is never locked without a save (saves.rs, RUNNING).
ClaimHasItsJob ==
    claims = {<<jobs[j].era, jobs[j].row>> : j \in {j \in 1..MaxJobs : jobs[j].stage \in InFlight}}

\* A save takes a whole conversation that no other row runs, and locks its row only while it
\* works (begin_save, saves.rs).
SavesInv == SavesTypeOK /\ OneRowPerTalk /\ SnapshotIsWhole /\ ClaimHasItsJob

Stores(j) == jobs[j].stage = "named" /\ jobs'[j].stage = "stored"
Updates(j) == jobs[j].read # {}

\* What saves.rs says of an update: "one current doc replaces the old one, so nothing still true is
\* lost to a conversation that never saw it".
UpdateLosesNothing ==
    [][\A j \in 1..MaxJobs : Stores(j) /\ Updates(j) /\ jobs[j].doc \in DOMAIN docs
                             => docs[jobs[j].doc] \subseteq jobs[j].draft]_savesVars
=============================================================================
