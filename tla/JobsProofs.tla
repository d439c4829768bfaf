----------------------------- MODULE JobsProofs -----------------------------
(***************************************************************************)
(* Proofs about what the app does for its claudes and its user until it    *)
(* is done.  Each component has an inductive invariant, its start, lemmas  *)
(* for its steps, and a theorem.                                           *)
(***************************************************************************)
EXTENDS Wake, Broadcast, HostUpdate, Names, PhoneNotes, PhoneChat, Explain,
        FiniteSetTheorems, WellFoundedInduction, SequenceTheorems, TLAPS

-----------------------------------------------------------------------------
(* The names of the rows.                                                   *)

Label == RowNames \cup {Nothing}
RowName == [name : Label, by : {"user", "auto", "spawn", "nobody", "instance"}, manual : BOOLEAN, guess : Label]

\* A row is manual exactly if it has a name that the user gave or that nobody is recorded for,
\* and then that is the name the user gave.
NameOK(r, given) ==
    /\ r.manual <=> r.name # Nothing /\ r.by \in {"user", "nobody"}
    /\ r.guess # Nothing => r.name = Nothing
    /\ given = IF r.manual THEN r.name ELSE Nothing

NamesTyped ==
    /\ rowNames \in [NamedRows -> RowName] /\ userGave \in [NamedRows -> Label]
    /\ requests \in [NamedRows -> Label \cup {Half}]
    /\ call \in [NamedRows -> [at : {"idle", "open", "write", "mark"}, name : Label]]
    /\ \A i \in NamedRows : call[i].at # "idle" => call[i].name \in RowNames
    /\ tick = NoRead \/ tick \in [row : NamedRows, name : RowNames \cup {Half}]
    /\ renames \in 0 .. MaxRenames /\ calls \in 0 .. MaxCalls /\ nameRuns \in 0 .. MaxNameRuns

\* The store has the names that the rows have, guesses aside.
StoreAgrees == stored = [r \in NamedRows |-> Saved(rowNames[r])]

NamesIInv == NamesTyped /\ StoreAgrees /\ \A i \in NamedRows : NameOK(rowNames[i], userGave[i])

LEMMA NamesStart == NamesInit => NamesIInv
<1> SUFFICES ASSUME NamesInit PROVE NamesIInv
  OBVIOUS
<1>1. \A r \in Born : r \in RowName /\ NameOK(r, IF r.manual THEN r.name ELSE Nothing)
  <2>1. Unnamed \in RowName /\ ~Unnamed.manual /\ Unnamed.name = Nothing /\ Unnamed.guess = Nothing
    BY DEF Unnamed, RowName, Label
  <2>2. ASSUME NEW n \in RowNames, NEW b \in {"user", "auto", "spawn", "nobody"}
        PROVE  NamedBy(n, b) \in RowName /\ NameOK(NamedBy(n, b), IF NamedBy(n, b).manual THEN n ELSE Nothing)
               /\ NamedBy(n, b).name = n
    <3> DEFINE m == b \in {"user", "nobody"}
               r == [Unnamed EXCEPT !.name = n, !.by = b, !.manual = m]
    <3>1. m \in BOOLEAN /\ n # Nothing /\ n \in Label
      BY NamesAssumption DEF Label
    <3> HIDE DEF m
    <3>2. /\ r \in RowName /\ r.name = n /\ r.by = b /\ r.manual = m /\ r.guess = Unnamed.guess
      BY <2>1, <3>1 DEF RowName
    <3> HIDE DEF r
    <3>3. NameOK(r, IF r.manual THEN r.name ELSE Nothing)
      BY <2>1, <3>1, <3>2 DEF NameOK, m
    <3>4. NamedBy(n, b) = r
      BY DEF NamedBy, r, m
    <3> QED BY <3>2, <3>3, <3>4
  <2>3. NameOK(Unnamed, IF Unnamed.manual THEN Unnamed.name ELSE Nothing)
    BY <2>1 DEF NameOK
  <2> QED BY <2>1, <2>2, <2>3 DEF Born
<1>2. rowNames \in [NamedRows -> RowName]
  BY <1>1 DEF NamesInit
<1>3. \A i \in NamedRows : NameOK(rowNames[i], userGave[i])
  BY <1>1 DEF NamesInit
<1>4. userGave \in [NamedRows -> Label]
  BY <1>2 DEF NamesInit, RowName, Label
<1>5. NamesTyped
  BY <1>2, <1>4, NamesAssumption DEF NamesTyped, NamesInit, NoCall, NoRead, Label
<1> QED BY <1>3, <1>5 DEF NamesIInv, StoreAgrees, NamesInit

\* The steps that leave the names of the rows, and who gave them, alone.
LEMMA NamesAlone ==
    ASSUME NamesIInv, UNCHANGED <<rowNames, userGave, stored>>, NamesTyped'
    PROVE  NamesIInv'
  BY DEF NamesIInv, StoreAgrees

LEMMA CallStep ==
    ASSUME NamesIInv, NEW i \in NamedRows,
           \/ \E n \in RowNames : SetNameLooks(i, n)
           \/ SetNameOpens(i) \/ SetNameWrites(i) \/ SetNameMarks(i) \/ TickReads(i)
    PROVE  NamesIInv'
<1> USE NamesAssumption
<1>1. UNCHANGED <<rowNames, userGave, stored, renames, nameRuns>>
  BY DEF SetNameLooks, SetNameOpens, SetNameWrites, SetNameMarks, TickReads
<1> SUFFICES NamesTyped'
  BY <1>1, NamesAlone
<1>2. ASSUME NEW n \in RowNames, SetNameLooks(i, n) PROVE NamesTyped'
  <2>1. UNCHANGED <<requests, tick>> /\ calls' \in 0 .. MaxCalls
        /\ (call' = call \/ call' = [call EXCEPT ![i] = [at |-> "open", name |-> n]])
    BY <1>2 DEF SetNameLooks, NamesIInv, NamesTyped
  <2> QED BY <1>1, <2>1 DEF NamesIInv, NamesTyped, Label
<1>3. CASE SetNameOpens(i) \/ SetNameWrites(i)
  <2>1. /\ UNCHANGED <<tick, calls>> /\ call[i].at # "idle"
        /\ \E to \in {"write", "mark"} : call' = [call EXCEPT ![i].at = to]
        /\ \E n \in {Half, call[i].name, requests[i]} : requests' = [requests EXCEPT ![i] = n]
    BY <1>3 DEF SetNameOpens, SetNameWrites
  <2>2. requests' \in [NamedRows -> Label \cup {Half}]
    BY <2>1 DEF NamesIInv, NamesTyped, Label
  <2>3. /\ call' \in [NamedRows -> [at : {"idle", "open", "write", "mark"}, name : Label]]
        /\ \A k \in NamedRows : call'[k].name = call[k].name /\ (call'[k].at # "idle" => call[k].at # "idle")
    BY <2>1 DEF NamesIInv, NamesTyped
  <2> QED BY <1>1, <2>1, <2>2, <2>3 DEF NamesIInv, NamesTyped
<1>4. CASE SetNameMarks(i)
  <2>1. UNCHANGED <<tick, calls, requests>> /\ call' = [call EXCEPT ![i] = NoCall]
    BY <1>4 DEF SetNameMarks
  <2> QED BY <1>1, <2>1 DEF NamesIInv, NamesTyped, NoCall, Label
<1>5. CASE TickReads(i)
  <2>1. UNCHANGED <<call, calls, requests>> /\ tick' = [row |-> i, name |-> requests[i]] /\ requests[i] # Nothing
    BY <1>5 DEF TickReads
  <2>2. requests[i] \in RowNames \cup {Half}
    BY <2>1 DEF NamesIInv, NamesTyped, Label
  <2> QED BY <1>1, <2>1, <2>2 DEF NamesIInv, NamesTyped
<1> QED BY <1>2, <1>3, <1>4, <1>5

LEMMA RenameStep ==
    ASSUME NamesIInv, NEW i \in NamedRows, NEW n \in Label, Rename(i, n)
    PROVE  NamesIInv'
<1> USE NamesAssumption
<1> DEFINE r == IF n = Nothing THEN Unnamed ELSE [name |-> n, by |-> "user", manual |-> TRUE, guess |-> Nothing]
<1>1. /\ rowNames' = [rowNames EXCEPT ![i] = r] /\ userGave' = [userGave EXCEPT ![i] = n]
      /\ renames' \in 0 .. MaxRenames /\ UNCHANGED <<requests, call, tick, calls, nameRuns>> /\ Persisted
  BY DEF Rename, NamesIInv, NamesTyped
<1>2. r \in RowName /\ NameOK(r, n)
  BY DEF RowName, Label, NameOK, Unnamed
<1> HIDE DEF r
<1>3. NamesTyped'
  BY <1>1, <1>2 DEF NamesIInv, NamesTyped
<1>4. \A k \in NamedRows : NameOK(rowNames'[k], userGave'[k])
  BY <1>1, <1>2 DEF NamesIInv, NamesTyped
<1> QED BY <1>1, <1>3, <1>4 DEF NamesIInv, StoreAgrees, Persisted

LEMMA NameApplied ==
    ASSUME NEW r \in RowName, NEW n \in Label, NEW b \in {"instance"}, NEW g \in Label
    PROVE  LET s == [r EXCEPT !.name = n, !.by = b, !.guess = g]
           IN  s \in RowName /\ s.by = b /\ s.guess = g /\ s.manual = r.manual
  BY DEF RowName

LEMMA TickStep ==
    ASSUME NamesIInv, TickApplies \/ TickTells \/ \E i \in NamedRows, n \in RowNames : TickGuesses(i, n)
    PROVE  NamesIInv'
<1> USE NamesAssumption
<1>1. CASE TickTells
  <2>1. UNCHANGED <<rowNames, stored, requests, call, tick, userGave, renames, calls, nameRuns>>
    BY <1>1 DEF TickTells
  <2> QED BY <2>1, NamesAlone DEF NamesIInv, NamesTyped
<1>2. ASSUME NEW i \in NamedRows, NEW n \in RowNames, TickGuesses(i, n) PROVE NamesIInv'
  <2>1. /\ UNCHANGED <<stored, requests, call, tick, userGave, renames, calls, nameRuns>>
        /\ rowNames' = [rowNames EXCEPT ![i].guess = n] /\ rowNames[i].name = Nothing
    BY <1>2 DEF TickGuesses, Unlabelled, DisplayName
  <2>2. /\ rowNames' \in [NamedRows -> RowName]
        /\ \A k \in NamedRows : /\ rowNames'[k].name = rowNames[k].name /\ rowNames'[k].by = rowNames[k].by
                                /\ rowNames'[k].manual = rowNames[k].manual
                                /\ rowNames'[k].guess = IF k = i THEN n ELSE rowNames[k].guess
    BY <2>1 DEF NamesIInv, NamesTyped, RowName, Label
  <2>3. NamesTyped'
    BY <2>1, <2>2 DEF NamesIInv, NamesTyped
  <2>4. StoreAgrees' /\ \A k \in NamedRows : NameOK(rowNames'[k], userGave'[k])
    BY <2>1, <2>2 DEF NamesIInv, StoreAgrees, NameOK, Saved
  <2> QED BY <2>3, <2>4 DEF NamesIInv
<1>3. CASE TickApplies
  <2> DEFINE t == tick.row
  <2>1. /\ t \in NamedRows /\ tick.name \in RowNames \cup {Half}
        /\ requests' = [requests EXCEPT ![t] = Nothing] /\ tick' = NoRead
        /\ UNCHANGED <<call, userGave, renames, calls, nameRuns>> /\ Persisted
    BY <1>3 DEF TickApplies, NamesIInv, NamesTyped
  <2>2. CASE Refused(rowNames[t], tick.name)
    <3>1. rowNames' = rowNames
      BY <1>3, <2>2 DEF TickApplies
    <3> QED BY <2>1, <3>1 DEF NamesIInv, NamesTyped, StoreAgrees, Persisted, Label
  <2>3. CASE ~Refused(rowNames[t], tick.name)
    <3> DEFINE r == [rowNames[t] EXCEPT !.name = tick.name, !.by = "instance", !.guess = Nothing]
    <3>1. rowNames' = [rowNames EXCEPT ![t] = r] /\ ~rowNames[t].manual /\ tick.name \in RowNames
      BY <1>3, <2>1, <2>3 DEF TickApplies, Refused
    <3>2. r \in RowName /\ r.by = "instance" /\ r.guess = Nothing /\ r.manual = rowNames[t].manual
      <4>1. rowNames[t] \in RowName /\ tick.name \in Label /\ Nothing \in Label
        BY <2>1, <3>1 DEF NamesIInv, NamesTyped, Label
      <4>2. ASSUME NEW b \in {"instance"}, NEW g \in Label
            PROVE  LET s == [rowNames[t] EXCEPT !.name = tick.name, !.by = b, !.guess = g]
                   IN  s \in RowName /\ s.by = b /\ s.guess = g /\ s.manual = rowNames[t].manual
        BY <4>1 DEF RowName
      <4> QED BY <4>1, <4>2
    <3> HIDE DEF r
    <3>3. NameOK(r, userGave[t])
      BY <2>1, <3>1, <3>2 DEF NamesIInv, NameOK
    <3>4. NamesTyped'
      BY <2>1, <3>1, <3>2 DEF NamesIInv, NamesTyped, Label
    <3>5. \A k \in NamedRows : NameOK(rowNames'[k], userGave'[k])
      BY <2>1, <3>1, <3>3 DEF NamesIInv, NamesTyped
    <3> QED BY <2>1, <3>4, <3>5 DEF NamesIInv, StoreAgrees, Persisted
  <2> QED BY <2>2, <2>3
<1> QED BY <1>1, <1>2, <1>3

\* The store brings back who gave a name with the name.
LEMMA RelaunchesStep ==
    ASSUME NamesIInv, Relaunches
    PROVE  NamesIInv'
<1> USE NamesAssumption
<1> DEFINE r(i) == [name |-> stored[i].name, by |-> stored[i].by, manual |-> Manual(stored[i]), guess |-> Nothing]
<1>1. /\ rowNames' = [i \in NamedRows |-> r(i)] /\ Persisted /\ UNCHANGED <<userGave, renames, calls>>
      /\ nameRuns' \in 0 .. MaxNameRuns /\ tick' = NoRead
      /\ requests' = [i \in NamedRows |-> Nothing] /\ call' = [i \in NamedRows |-> NoCall]
  BY DEF Relaunches, NamesIInv, NamesTyped
<1>2. \A i \in NamedRows : r(i) \in RowName /\ NameOK(r(i), userGave[i])
  <2> SUFFICES ASSUME NEW i \in NamedRows PROVE r(i) \in RowName /\ NameOK(r(i), userGave[i])
    OBVIOUS
  <2>1. stored[i].name = rowNames[i].name /\ stored[i].by = rowNames[i].by
    BY DEF NamesIInv, StoreAgrees, Saved
  <2>2. rowNames[i] \in RowName /\ NameOK(rowNames[i], userGave[i])
    BY DEF NamesIInv, NamesTyped
  <2>3. Manual(stored[i]) = rowNames[i].manual
    BY <2>1, <2>2 DEF Manual, NameOK, RowName
  <2> QED BY <2>1, <2>2, <2>3 DEF NameOK, RowName, Label
<1> HIDE DEF r
<1>3. rowNames' \in [NamedRows -> RowName]
  BY <1>1, <1>2
<1>4. NamesTyped'
  BY <1>1, <1>3 DEF NamesIInv, NamesTyped, NoCall, Label
<1>5. \A i \in NamedRows : NameOK(rowNames'[i], userGave'[i])
  BY <1>1, <1>2
<1> QED BY <1>1, <1>4, <1>5 DEF NamesIInv, StoreAgrees, Persisted

LEMMA NamesStep == NamesIInv /\ [NamesNext]_nameVars => NamesIInv'
<1> SUFFICES ASSUME NamesIInv, [NamesNext]_nameVars PROVE NamesIInv'
  OBVIOUS
<1>1. CASE UNCHANGED nameVars
  BY <1>1 DEF nameVars, NamesIInv, NamesTyped, StoreAgrees
<1>2. CASE NamesNext
  BY <1>2, RenameStep, CallStep, TickStep, RelaunchesStep DEF NamesNext, Label
<1> QED BY <1>1, <1>2

\* The name the user gave a row is the one it keeps through requests and restarts, and nobody but the
\* user locks a name, for any rows, names and calls (state.rs, rename and name_row).
THEOREM NamesStay == NamesSpec => []NamesInv
<1>1. NamesIInv => NamesInv
  <2> SUFFICES ASSUME NamesIInv, NEW i \in NamedRows
               PROVE  /\ rowNames[i] \in RowName /\ NameOK(rowNames[i], userGave[i])
                      /\ userGave[i] # Nothing => DisplayName(rowNames[i]) = userGave[i]
    BY DEF NamesIInv, NamesTyped, NamesInv, NamesTypeOK, UserNameStays, NobodyElseLocks, NameOK, RowName, Label
  <2> QED BY DEF NamesIInv, NamesTyped, NameOK, DisplayName
<1> QED BY <1>1, NamesStart, NamesStep, PTL DEF NamesSpec

-----------------------------------------------------------------------------
(* Explain Selection.                                                       *)

Event == [req : Requests, kind : {"done", "error"}]

\* A request that was not made has no child; a child writes its own fork or that of an earlier one.
ForksOK ==
    /\ \A r \in Requests : process[r] = "none" <=> fork[r] = 0
    /\ \A r \in Requests : r > asked => process[r] = "none"
    /\ \A r \in Requests : fork[r] # 0 => fork[fork[r]] = fork[r]
    /\ \A f \in forkFiles : fork[f] = f
    /\ \A r \in initLine : fork[r] # 0
    /\ slot.known => slot.req # 0 /\ fork[slot.req] = slot.req
    /\ slot.req <= asked

\* The child that runs writes the fork of the slot, and once it has printed its init line the slot
\* knows the fork or that line is still to be read.
ChildOK ==
    appUp => \A r \in Requests : process[r] \in Alive =>
        /\ slot.req = fork[r]
        /\ slot.known \/ (fork[r] = r /\ (process[r] = "spawned" \/ r \in initLine))

IsTrue(e) == e.kind = "done" => process[e.req] = "read" /\ e.req \notin timedOut /\ fork[e.req] # 0

EventsOK == \A n \in 1..Len(progress) : IsTrue(progress[n])

\* A turn that is shown is that of a request.
ShownIsAsked == panel.turn # "none" => panel.req # 0

ExplainIInv ==
    ExplainTypeOK /\ ForksOK /\ ChildOK /\ EventsOK /\ ShownIsAsked /\ NoForkIsLeft /\ OneChildRuns
    /\ DoneIsItsOwn

LEMMA ExplainStart == ExplainInit => ExplainIInv
<1> SUFFICES ASSUME ExplainInit PROVE ExplainIInv
  OBVIOUS
<1>1. ExplainTypeOK
  BY ExplainAssumption DEF ExplainInit, ExplainTypeOK, NoPanel, NoSlot, Requests
<1>2. ForksOK /\ ChildOK /\ ShownIsAsked /\ NoForkIsLeft /\ OneChildRuns /\ DoneIsItsOwn
  BY ExplainAssumption DEF ExplainInit, ShownIsAsked, ForksOK, ChildOK, NoForkIsLeft, OneChildRuns, DoneIsItsOwn,
                           NoPanel, NoSlot, Alive, Requests
<1>3. EventsOK
  BY DEF ExplainInit, EventsOK
<1> QED BY <1>1, <1>2, <1>3 DEF ExplainIInv

\* What a cancelled child leaves.
LEMMA CancelledOnce ==
    ASSUME ExplainIInv, appUp
    PROVE  /\ ExplainCancelled \in [Requests -> Alive \cup TurnEnded \cup {"none", "read"}]
           /\ \A r \in Requests : /\ ExplainCancelled[r] \notin Alive
                                  /\ ExplainCancelled[r] = process[r] \/ ExplainCancelled[r] = "killed"
                                  /\ ExplainCancelled[r] = "none" <=> process[r] = "none"
                                  /\ ExplainCancelled[r] = "read" <=> process[r] = "read"
  BY DEF ExplainIInv, ExplainTypeOK, OneChildRuns, ExplainCancelled, Alive, TurnEnded

\* The events on their way stay true while a child that was read stays so.
LEMMA EventsStay ==
    ASSUME ExplainIInv, UNCHANGED progress,
           \A r \in Requests : process[r] = "read" =>
               process'[r] = "read" /\ fork'[r] = fork[r] /\ (r \in timedOut' => r \in timedOut)
    PROVE  EventsOK'
<1>1. progress \in Seq(Event)
  BY DEF ExplainIInv, ExplainTypeOK, Event
<1>2. \A n \in 1..Len(progress) : progress[n] \in Event
  BY <1>1, ElementOfSeq
<1>3. \A n \in 1..Len(progress) : IsTrue(progress[n])
  BY DEF ExplainIInv, EventsOK
<1>4. SUFFICES ASSUME NEW n \in 1..Len(progress) PROVE IsTrue(progress[n])'
  BY DEF EventsOK
<1>5. progress[n].req \in Requests /\ progress'[n] = progress[n]
  BY <1>2, <1>4 DEF Event
<1> QED BY <1>3, <1>4, <1>5 DEF IsTrue

\* A child in the place of the one that ran, or none.
LEMMA ForkSpawnedStep ==
    ASSUME ExplainIInv, appUp, asked \in 0..(MaxRequests - 1), asked' = asked + 1, NEW root \in 1..asked',
           ForkSpawned(asked', root, ExplainCancelled),
           root # asked' => fork[root] = root,
           UNCHANGED timedOut
    PROVE  LET r == asked'
           IN  /\ r \in Requests /\ process[r] = "none" /\ fork[r] = 0
               /\ process' \in [Requests -> Alive \cup TurnEnded \cup {"none", "read"}]
               /\ fork' \in [Requests -> 0..MaxRequests] /\ runningChild' \in {0, r}
               /\ \A q \in Requests : q # r => /\ process'[q] \notin Alive /\ fork'[q] = fork[q]
                                               /\ process'[q] = "none" <=> process[q] = "none"
                                               /\ process'[q] = "read" <=> process[q] = "read"
               /\ \/ process'[r] = "spawned" /\ fork'[r] = root /\ runningChild' = r
                  \/ process'[r] = "none" /\ fork'[r] = 0 /\ runningChild' = 0
               /\ \A q \in Requests : process'[q] = "none" <=> fork'[q] = 0
               /\ \A q \in Requests : q > asked' => process'[q] = "none"
               /\ \A q \in Requests : fork'[q] # 0 => fork'[fork'[q]] = fork'[q]
               /\ \A q \in Requests : fork[q] # 0 => fork'[q] = fork[q]
<1> USE ExplainAssumption
<1> DEFINE r == asked'
<1>1. r \in Requests /\ process[r] = "none" /\ fork[r] = 0 /\ root \in 0..MaxRequests /\ root \in Requests
  BY DEF Requests, ExplainIInv, ForksOK
<1>2. /\ process \in [Requests -> Alive \cup TurnEnded \cup {"none", "read"}]
      /\ fork \in [Requests -> 0..MaxRequests]
  BY DEF ExplainIInv, ExplainTypeOK
<1>3. \/ /\ process' = [ExplainCancelled EXCEPT ![r] = "spawned"] /\ fork' = [fork EXCEPT ![r] = root]
         /\ runningChild' = r
      \/ process' = ExplainCancelled /\ runningChild' = 0 /\ UNCHANGED fork
  BY DEF ForkSpawned
<1> HIDE DEF r
<1>4. /\ process' \in [Requests -> Alive \cup TurnEnded \cup {"none", "read"}]
      /\ fork' \in [Requests -> 0..MaxRequests] /\ runningChild' \in {0, r}
  BY <1>1, <1>2, <1>3, CancelledOnce DEF Alive
<1>5. \A q \in Requests : q # r => /\ process'[q] \notin Alive /\ fork'[q] = fork[q]
                                   /\ process'[q] = "none" <=> process[q] = "none"
                                   /\ process'[q] = "read" <=> process[q] = "read"
  BY <1>1, <1>2, <1>3, CancelledOnce
<1>6. \/ process'[r] = "spawned" /\ fork'[r] = root /\ runningChild' = r
      \/ process'[r] = "none" /\ fork'[r] = 0 /\ runningChild' = 0
  BY <1>1, <1>2, <1>3, CancelledOnce
<1>7. \A q \in Requests : process'[q] = "none" <=> fork'[q] = 0
  BY <1>1, <1>5, <1>6 DEF ExplainIInv, ForksOK, Requests
<1>8. \A q \in Requests : q > asked' => process'[q] = "none"
  <2> SUFFICES ASSUME NEW q \in Requests, q > asked' PROVE process'[q] = "none"
    OBVIOUS
  <2>1. q # r /\ q > asked
    BY DEF r, Requests
  <2> QED BY <1>5, <2>1 DEF ExplainIInv, ForksOK
<1>9. \A q \in Requests : fork'[q] # 0 => fork'[fork'[q]] = fork'[q]
  <2> SUFFICES ASSUME NEW q \in Requests, fork'[q] # 0 PROVE fork'[fork'[q]] = fork'[q]
    OBVIOUS
  <2>1. CASE q # r
    <3>1. fork'[q] = fork[q] /\ fork[q] \in Requests /\ fork[fork[q]] = fork[q]
      BY <1>2, <1>5, <2>1 DEF ExplainIInv, ForksOK, Requests
    <3>2. fork[q] # r
      BY <1>1, <3>1, <2>1
    <3> QED BY <1>5, <3>1, <3>2
  <2>2. CASE q = r
    <3>1. fork'[q] = root /\ fork'[r] = root
      BY <1>6, <2>2
    <3>2. CASE root = r
      BY <3>1, <3>2
    <3>3. CASE root # r
      BY <1>1, <1>5, <3>1, <3>3 DEF r
    <3> QED BY <3>2, <3>3
  <2> QED BY <2>1, <2>2
<1>10. \A q \in Requests : fork[q] # 0 => fork'[q] = fork[q]
  BY <1>1, <1>5
<1> QED BY <1>1, <1>4, <1>5, <1>6, <1>7, <1>8, <1>9, <1>10 DEF r

LEMMA StartForkStep ==
    ASSUME ExplainIInv, StartFork
    PROVE  ExplainIInv'
<1> USE ExplainAssumption
<1> DEFINE r == asked'
<1>1. /\ appUp /\ asked \in 0..(MaxRequests - 1) /\ asked' = asked + 1 /\ r \in Requests
      /\ UNCHANGED <<moves, hasFile, appUp, progress, initLine, timedOut>>
  BY DEF StartFork, ExplainIInv, ExplainTypeOK, Requests
<1>2. \E t \in {"streaming", "error"} : panel' = [req |-> r, quote |-> r, turn |-> t]
  BY DEF StartFork
<1>3. panel' \in [req : 0..MaxRequests, quote : 0..MaxRequests, turn : {"none", "streaming", "done", "error"}]
      /\ DoneIsItsOwn' /\ ShownIsAsked'
  <2>1. PICK t \in {"streaming", "error"} : panel' = [req |-> r, quote |-> r, turn |-> t]
    BY <1>2
  <2> QED BY <1>1, <2>1 DEF DoneIsItsOwn, ShownIsAsked, Requests
<1>4. CASE ~hasFile
  <2>1. UNCHANGED <<slot, runningChild, process, fork, forkFiles>>
    BY <1>4 DEF StartFork
  <2>2. ExplainTypeOK'
    BY SMTT(30), <1>1, <1>3, <2>1 DEF ExplainIInv, ExplainTypeOK, Requests
  <2>3. ForksOK' /\ ChildOK' /\ NoForkIsLeft' /\ OneChildRuns'
    BY <1>1, <2>1 DEF ExplainIInv, ExplainTypeOK, ForksOK, ChildOK, NoForkIsLeft, OneChildRuns, Requests
  <2>4. EventsOK'
    BY <1>1, <2>1, EventsStay
  <2> QED BY <1>3, <2>2, <2>3, <2>4 DEF ExplainIInv
<1>5. CASE hasFile
  <2>1. forkFiles' = Discarded /\ slot' = [req |-> r, known |-> FALSE] /\ ForkSpawned(r, r, ExplainCancelled)
    BY <1>5 DEF StartFork
  <2>2. /\ r \in Requests /\ process[r] = "none" /\ fork[r] = 0
        /\ process' \in [Requests -> Alive \cup TurnEnded \cup {"none", "read"}]
        /\ fork' \in [Requests -> 0..MaxRequests] /\ runningChild' \in {0, r}
        /\ \A q \in Requests : q # r => /\ process'[q] \notin Alive /\ fork'[q] = fork[q]
                                        /\ process'[q] = "none" <=> process[q] = "none"
                                        /\ process'[q] = "read" <=> process[q] = "read"
        /\ \/ process'[r] = "spawned" /\ fork'[r] = r /\ runningChild' = r
           \/ process'[r] = "none" /\ fork'[r] = 0 /\ runningChild' = 0
        /\ \A q \in Requests : process'[q] = "none" <=> fork'[q] = 0
        /\ \A q \in Requests : q > asked' => process'[q] = "none"
        /\ \A q \in Requests : fork'[q] # 0 => fork'[fork'[q]] = fork'[q]
        /\ \A q \in Requests : fork[q] # 0 => fork'[q] = fork[q]
    BY <1>1, <2>1, ForkSpawnedStep DEF Requests
  <2> HIDE DEF r
  <2>3. forkFiles' \subseteq forkFiles /\ forkFiles' \subseteq initLine
    BY <1>1, <2>1 DEF Discarded, ExplainIInv, NoForkIsLeft
  <2>4. ExplainTypeOK'
    <3>1. slot' \in [req : 0..MaxRequests, known : BOOLEAN]
      BY <1>1, <2>1 DEF Requests
    <3>2. runningChild' \in 0..MaxRequests /\ asked' \in 0..MaxRequests
      BY <1>1, <2>2 DEF Requests, r
    <3> QED BY <1>1, <1>3, <2>2, <2>3, <3>1, <3>2 DEF ExplainIInv, ExplainTypeOK
  <2>5. ForksOK'
    BY <1>1, <2>1, <2>2, <2>3 DEF ExplainIInv, ExplainTypeOK, ForksOK, Requests, r
  <2>6. ChildOK' /\ NoForkIsLeft' /\ OneChildRuns'
    BY <1>1, <2>1, <2>2, <2>3 DEF ChildOK, NoForkIsLeft, OneChildRuns, Alive
  <2>7. EventsOK'
    BY <1>1, <2>2, EventsStay
  <2> QED BY <1>3, <2>4, <2>5, <2>6, <2>7 DEF ExplainIInv
<1> QED BY <1>4, <1>5

LEMMA FollowupStep ==
    ASSUME ExplainIInv, Followup
    PROVE  ExplainIInv'
<1> USE ExplainAssumption
<1> DEFINE r == asked'
<1>1. /\ appUp /\ asked \in 0..(MaxRequests - 1) /\ asked' = asked + 1 /\ r \in Requests
      /\ UNCHANGED <<moves, hasFile, appUp, slot, progress, initLine, timedOut, forkFiles>>
  BY DEF Followup, ExplainIInv, ExplainTypeOK, Requests
<1>2. \E t \in {"streaming", "error"} : panel' = [panel EXCEPT !.req = r, !.turn = t]
  BY DEF Followup
<1>3. panel' \in [req : 0..MaxRequests, quote : 0..MaxRequests, turn : {"none", "streaming", "done", "error"}]
      /\ DoneIsItsOwn' /\ ShownIsAsked'
  <2>1. r \in 0..MaxRequests
    BY <1>1 DEF Requests
  <2>2. PICK t \in {"streaming", "error"} : panel' = [panel EXCEPT !.req = r, !.turn = t]
    BY <1>2
  <2>3. panel'.turn = t /\ panel'.req = r
    BY <2>2 DEF ExplainIInv, ExplainTypeOK
  <2>4. r # 0
    BY <1>1 DEF Requests
  <2> QED BY <2>1, <2>2, <2>3, <2>4 DEF DoneIsItsOwn, ShownIsAsked, ExplainIInv, ExplainTypeOK
<1>4. CASE ~slot.known
  <2>1. UNCHANGED <<runningChild, process, fork>>
    BY <1>4 DEF Followup
  <2>2. ExplainTypeOK'
    BY SMTT(30), <1>1, <1>3, <2>1 DEF ExplainIInv, ExplainTypeOK, Requests
  <2>3. ForksOK' /\ ChildOK' /\ NoForkIsLeft' /\ OneChildRuns'
    BY <1>1, <2>1 DEF ExplainIInv, ExplainTypeOK, ForksOK, ChildOK, NoForkIsLeft, OneChildRuns, Requests
  <2>4. EventsOK'
    BY <1>1, <2>1, EventsStay
  <2> QED BY <1>3, <2>2, <2>3, <2>4 DEF ExplainIInv
<1>5. CASE slot.known
  <2>1. ForkSpawned(r, slot.req, ExplainCancelled)
    BY <1>5 DEF Followup
  <2>2. slot.req \in 1..asked /\ slot.req \in 1..asked' /\ fork[slot.req] = slot.req /\ slot.req # r
    BY <1>1, <1>5 DEF ExplainIInv, ExplainTypeOK, ForksOK
  <2>3. /\ r \in Requests /\ process[r] = "none" /\ fork[r] = 0
        /\ process' \in [Requests -> Alive \cup TurnEnded \cup {"none", "read"}]
        /\ fork' \in [Requests -> 0..MaxRequests] /\ runningChild' \in {0, r}
        /\ \A q \in Requests : q # r => /\ process'[q] \notin Alive /\ fork'[q] = fork[q]
                                        /\ process'[q] = "none" <=> process[q] = "none"
                                        /\ process'[q] = "read" <=> process[q] = "read"
        /\ \/ process'[r] = "spawned" /\ fork'[r] = slot.req /\ runningChild' = r
           \/ process'[r] = "none" /\ fork'[r] = 0 /\ runningChild' = 0
        /\ \A q \in Requests : process'[q] = "none" <=> fork'[q] = 0
        /\ \A q \in Requests : q > asked' => process'[q] = "none"
        /\ \A q \in Requests : fork'[q] # 0 => fork'[fork'[q]] = fork'[q]
        /\ \A q \in Requests : fork[q] # 0 => fork'[q] = fork[q]
    BY <1>1, <2>1, <2>2, ForkSpawnedStep
  <2> HIDE DEF r
  <2>4. ExplainTypeOK'
    <3>1. runningChild' \in 0..MaxRequests /\ asked' \in 0..MaxRequests
      BY <1>1, <2>3 DEF Requests, r
    <3> QED BY <1>1, <1>3, <2>3, <3>1 DEF ExplainIInv, ExplainTypeOK
  <2>5. ForksOK'
    BY SMTT(30), <1>1, <2>2, <2>3 DEF ExplainIInv, ExplainTypeOK, ForksOK, Requests, r
  <2>6. ChildOK' /\ NoForkIsLeft' /\ OneChildRuns'
    BY <1>1, <1>5, <2>2, <2>3 DEF ExplainIInv, ChildOK, NoForkIsLeft, OneChildRuns, Alive
  <2>7. EventsOK'
    BY <1>1, <2>3, EventsStay
  <2> QED BY <1>3, <2>4, <2>5, <2>6, <2>7 DEF ExplainIInv
<1> QED BY <1>4, <1>5

\* A close: the child is killed and the fork goes.
LEMMA DiscardStep ==
    ASSUME ExplainIInv, appUp, DiscardFork, panel' = NoPanel, appUp' \in BOOLEAN,
           progress' \in {progress, <<>>}, initLine' \in {initLine, {}}, appUp' => initLine' = initLine,
           UNCHANGED <<asked, moves, hasFile, fork, timedOut>>
    PROVE  ExplainIInv'
<1> USE ExplainAssumption
<1>1. forkFiles' \subseteq forkFiles /\ forkFiles' \subseteq initLine
  BY DEF DiscardFork, Discarded, ExplainIInv, NoForkIsLeft
<1>2. initLine' \subseteq initLine /\ (appUp' => initLine' = initLine)
  OBVIOUS
<1>3. slot' = [req |-> 0, known |-> FALSE] /\ panel' = [req |-> 0, quote |-> 0, turn |-> "none"]
  BY DEF DiscardFork, NoSlot, NoPanel
<1>4. process' = ExplainCancelled /\ runningChild' = 0
  BY DEF DiscardFork
<1>5. ExplainTypeOK'
  <2>1. panel' \in [req : 0..MaxRequests, quote : 0..MaxRequests, turn : {"none", "streaming", "done", "error"}]
    BY <1>3
  <2>2. slot' \in [req : 0..MaxRequests, known : BOOLEAN]
    BY <1>3
  <2>3. progress' \in Seq([req : Requests, kind : {"done", "error"}])
    <3>1. progress \in Seq([req : Requests, kind : {"done", "error"}])
      BY DEF ExplainIInv, ExplainTypeOK
    <3>2. progress' = progress \/ progress' = <<>>
      OBVIOUS
    <3> QED BY <3>1, <3>2, EmptySeq
  <2>4. runningChild' \in 0..MaxRequests /\ {hasFile', appUp'} \subseteq BOOLEAN
    BY <1>4 DEF ExplainIInv, ExplainTypeOK
  <2>5. process' \in [Requests -> Alive \cup TurnEnded \cup {"none", "read"}]
    BY <1>4, CancelledOnce
  <2> QED BY <1>1, <1>2, <2>1, <2>2, <2>3, <2>4, <2>5 DEF ExplainIInv, ExplainTypeOK
<1>6. \A q \in Requests : process'[q] = "none" <=> process[q] = "none"
  BY <1>4, CancelledOnce
<1>7. ForksOK'
  BY <1>1, <1>2, <1>3, <1>6 DEF ExplainIInv, ExplainTypeOK, ForksOK
<1>8. ChildOK' /\ OneChildRuns'
  BY <1>4, CancelledOnce DEF ChildOK, OneChildRuns
<1>9. EventsOK'
  <2>1. CASE UNCHANGED progress
    BY <1>4, <2>1, CancelledOnce, EventsStay
  <2>2. CASE progress' = <<>>
    BY <2>2 DEF EventsOK
  <2> QED BY <2>1, <2>2
<1>10. NoForkIsLeft'
  BY <1>1, <1>2 DEF NoForkIsLeft
<1>11. ShownIsAsked' /\ DoneIsItsOwn'
  BY <1>3 DEF ShownIsAsked, DoneIsItsOwn
<1> QED BY <1>5, <1>7, <1>8, <1>9, <1>10, <1>11 DEF ExplainIInv

\* A step of one child that has a fork, and nothing is read of it.
LEMMA ChildStep ==
    ASSUME ExplainIInv, NEW r \in Requests, NEW p \in Alive \cup TurnEnded, process[r] \in Alive,
           process' = [process EXCEPT ![r] = p],
           UNCHANGED <<asked, moves, hasFile, appUp, panel, slot, runningChild, progress, fork>>,
           initLine' \in {initLine, initLine \cup {r}}, timedOut' \in {timedOut, timedOut \cup {r}},
           forkFiles' \in {forkFiles, forkFiles \cup {fork[r]}},
           p = "started" => r \in initLine',
           p = "spawned" => process[r] = "spawned",
           p = "writing" => process[r] = "started",
           p # "writing" => forkFiles' = forkFiles
    PROVE  ExplainIInv'
<1> USE ExplainAssumption
<1>1. \A q \in Requests : process'[q] = IF q = r THEN p ELSE process[q]
  BY DEF ExplainIInv, ExplainTypeOK
<1>2. fork[r] \in Requests /\ fork[fork[r]] = fork[r]
  BY DEF ExplainIInv, ExplainTypeOK, ForksOK, Alive, Requests
<1>3. ExplainTypeOK'
  BY <1>2 DEF ExplainIInv, ExplainTypeOK
<1>4. ForksOK'
  BY <1>1, <1>2 DEF ExplainIInv, ForksOK, Alive, TurnEnded
<1>5. ChildOK' /\ OneChildRuns'
  BY <1>1 DEF ExplainIInv, ChildOK, OneChildRuns, Alive, TurnEnded
<1>6. EventsOK'
  BY <1>1, EventsStay DEF Alive, TurnEnded
<1>7. NoForkIsLeft'
  <2>1. CASE forkFiles' = forkFiles
    BY <2>1 DEF ExplainIInv, NoForkIsLeft
  <2>2. CASE forkFiles' = forkFiles \cup {fork[r]} /\ p = "writing"
    <3>1. appUp => slot.req = fork[r] /\ (slot.known \/ (fork[r] = r /\ r \in initLine))
      BY <2>2 DEF ExplainIInv, ChildOK
    <3>2. slot.known /\ slot.req = fork[r] => slot = [req |-> fork[r], known |-> TRUE]
      BY DEF ExplainIInv, ExplainTypeOK
    <3> QED BY <2>2, <3>1, <3>2 DEF ExplainIInv, NoForkIsLeft
  <2> QED BY <2>1, <2>2
<1>8. ShownIsAsked'
  BY DEF ExplainIInv, ShownIsAsked
<1>9. DoneIsItsOwn'
  <2>1. panel.turn = "done" => panel.req \in Requests /\ panel.req # r
    BY DEF ExplainIInv, ExplainTypeOK, ShownIsAsked, DoneIsItsOwn, Alive, Requests
  <2> QED BY <1>1, <2>1 DEF ExplainIInv, DoneIsItsOwn
<1> QED BY <1>3, <1>4, <1>5, <1>6, <1>7, <1>8, <1>9 DEF ExplainIInv

LEMMA ReadsInitStep ==
    ASSUME ExplainIInv, NEW r \in Requests, ReadsInit(r)
    PROVE  ExplainIInv'
<1> USE ExplainAssumption
<1>1. /\ appUp /\ r \in initLine /\ initLine' = initLine \ {r}
      /\ UNCHANGED <<asked, moves, hasFile, appUp, panel, runningChild, progress, process, fork, timedOut>>
      /\ fork[r] # 0 /\ fork[r] \in Requests /\ fork[fork[r]] = fork[r]
  BY DEF ReadsInit, ExplainIInv, ExplainTypeOK, ForksOK, Requests
<1>2. slot'.req = slot.req /\ (slot.known => slot'.known) /\ slot' \in [req : 0..MaxRequests, known : BOOLEAN]
      /\ (slot'.known => slot.known \/ (slot.req = r /\ fork[r] = r))
      /\ (slot.req = r /\ fork[r] = r => slot'.known)
      /\ (slot' = [slot EXCEPT !.known = TRUE] \/ slot' = slot)
  BY <1>1 DEF ReadsInit, SlotIs, ExplainIInv, ExplainTypeOK
<1>3. /\ forkFiles' \subseteq forkFiles
      /\ r \in forkFiles' => slot.req = r
  BY <1>1 DEF ReadsInit, SlotIs, ExplainIInv, ForksOK
<1>4. ExplainTypeOK'
  BY <1>1, <1>2, <1>3 DEF ExplainIInv, ExplainTypeOK
<1>5. ForksOK'
  BY <1>1, <1>2, <1>3 DEF ExplainIInv, ForksOK
<1>6. ChildOK' /\ OneChildRuns'
  BY <1>1, <1>2 DEF ExplainIInv, ChildOK, OneChildRuns
<1>7. EventsOK'
  BY <1>1, EventsStay
<1>8. NoForkIsLeft'
  <2> SUFFICES ASSUME NEW f \in forkFiles', f \notin initLine'
               PROVE  slot' = [req |-> f, known |-> TRUE]
    BY DEF NoForkIsLeft
  <2>1. CASE f = r
    BY <1>1, <1>2, <1>3, <2>1 DEF ExplainIInv, ExplainTypeOK, ForksOK
  <2>2. CASE f # r
    <3>1. slot = [req |-> f, known |-> TRUE]
      BY <1>1, <1>3, <2>2 DEF ExplainIInv, NoForkIsLeft
    <3> QED BY <1>2, <3>1
  <2> QED BY <2>1, <2>2
<1>9. ShownIsAsked' /\ DoneIsItsOwn'
  BY <1>1 DEF ExplainIInv, ShownIsAsked, DoneIsItsOwn
<1> QED BY <1>4, <1>5, <1>6, <1>7, <1>8, <1>9 DEF ExplainIInv

LEMMA ReaderEndsStep ==
    ASSUME ExplainIInv, NEW r \in Requests, ReaderEnds(r)
    PROVE  ExplainIInv'
<1> USE ExplainAssumption
<1>0. PICK e : e = [req |-> r, kind |-> IF process[r] = "succeeded" /\ r \notin timedOut THEN "done" ELSE "error"]
  OBVIOUS
<1>1. /\ appUp /\ process[r] \in TurnEnded /\ process' = [process EXCEPT ![r] = "read"]
      /\ UNCHANGED <<asked, moves, hasFile, appUp, panel, slot, fork, initLine, timedOut, forkFiles>>
      /\ \/ runningChild = r /\ runningChild' = 0 /\ progress' = Append(progress, e)
         \/ UNCHANGED <<runningChild, progress>>
  BY <1>0 DEF ReaderEnds, OursRuns
<1>2. \A q \in Requests : process'[q] = IF q = r THEN "read" ELSE process[q]
  BY <1>1 DEF ExplainIInv, ExplainTypeOK
<1>3. fork[r] # 0
  BY <1>1 DEF ExplainIInv, ForksOK, TurnEnded
<1>4. e \in Event /\ progress \in Seq(Event) /\ IsTrue(e)'
  BY <1>0, <1>1, <1>2, <1>3 DEF ExplainIInv, ExplainTypeOK, Event, IsTrue
<1>5. EventsOK' /\ progress' \in Seq(Event)
  <2>1. \A n \in 1..Len(progress) : IsTrue(progress[n]) /\ progress[n] \in Event
    BY <1>4, ElementOfSeq DEF ExplainIInv, EventsOK
  <2>2. \A n \in 1..Len(progress) : IsTrue(progress[n])'
    <3> SUFFICES ASSUME UNCHANGED progress \/ progress' = Append(progress, e), NEW n \in 1..Len(progress)
                 PROVE  IsTrue(progress[n])'
      BY <1>1
    <3>1. progress'[n] = progress[n]
      BY <1>4, AppendProperties
    <3> QED BY <1>1, <1>2, <2>1, <3>1 DEF IsTrue, Event
  <2>3. CASE progress' = Append(progress, e)
    <3>1. Len(progress') = Len(progress) + 1 /\ progress'[Len(progress) + 1] = e /\ progress' \in Seq(Event)
          /\ Len(progress) \in Nat
      BY <1>4, <2>3, AppendProperties
    <3>2. \A n \in 1..Len(progress') : n \in 1..Len(progress) \/ n = Len(progress) + 1
      BY <3>1
    <3> QED BY <1>4, <2>2, <3>1, <3>2 DEF EventsOK
  <2>4. CASE UNCHANGED progress
    BY <1>4, <2>2, <2>4 DEF EventsOK
  <2> QED BY <1>1, <2>3, <2>4
<1>6. ExplainTypeOK'
  <2>1. runningChild' \in 0..MaxRequests
    BY <1>1 DEF ExplainIInv, ExplainTypeOK
  <2>2. process' \in [Requests -> Alive \cup TurnEnded \cup {"none", "read"}]
    BY <1>1 DEF ExplainIInv, ExplainTypeOK
  <2> QED BY <1>1, <1>5, <2>1, <2>2 DEF ExplainIInv, ExplainTypeOK, Event
<1>7. ForksOK'
  BY <1>1, <1>2 DEF ExplainIInv, ForksOK, TurnEnded
<1>8. ChildOK' /\ OneChildRuns'
  BY <1>1, <1>2 DEF ExplainIInv, ChildOK, OneChildRuns, Alive, TurnEnded
<1>9. NoForkIsLeft' /\ ShownIsAsked'
  BY <1>1 DEF ExplainIInv, NoForkIsLeft, ShownIsAsked
<1>10. DoneIsItsOwn'
  <2>1. panel.turn = "done" => panel.req \in Requests
    BY DEF ExplainIInv, ExplainTypeOK, ShownIsAsked, Requests
  <2> QED BY <1>1, <1>2, <2>1 DEF ExplainIInv, DoneIsItsOwn
<1> QED BY <1>5, <1>6, <1>7, <1>8, <1>9, <1>10 DEF ExplainIInv

LEMMA WindowHearsStep ==
    ASSUME ExplainIInv, WindowHears
    PROVE  ExplainIInv'
<1> USE ExplainAssumption
<1> DEFINE e == Head(progress)
<1>1. /\ progress # <<>> /\ progress' = Tail(progress)
      /\ panel' = IF panel.req = e.req THEN [panel EXCEPT !.turn = e.kind] ELSE panel
      /\ UNCHANGED <<asked, moves, hasFile, appUp, slot, runningChild, process, fork, initLine, timedOut, forkFiles>>
  BY DEF WindowHears, IsItsRequest, childVars
<1>2. progress \in Seq(Event)
  BY DEF ExplainIInv, ExplainTypeOK, Event
<1>3. Len(progress) \in Nat /\ Len(progress) > 0 /\ e = progress[1] /\ e \in Event
      /\ progress' \in Seq(Event) /\ Len(progress') = Len(progress) - 1
      /\ \A n \in 1..Len(progress') : progress'[n] = progress[n + 1]
  BY <1>1, <1>2, HeadTailProperties, LenProperties, EmptySeq, ElementOfSeq
<1>4. IsTrue(e)
  BY <1>3 DEF ExplainIInv, EventsOK
<1>5. EventsOK'
  <2> SUFFICES ASSUME NEW n \in 1..Len(progress') PROVE IsTrue(progress[n])'
    BY DEF EventsOK
  <2>1. n + 1 \in 1..Len(progress) /\ progress'[n] = progress[n + 1]
    BY <1>3
  <2> QED BY <1>1, <2>1 DEF ExplainIInv, EventsOK, IsTrue
<1> HIDE DEF e
<1>6. panel' \in [req : 0..MaxRequests, quote : 0..MaxRequests, turn : {"none", "streaming", "done", "error"}]
      /\ panel'.req = panel.req
      /\ (panel'.turn = panel.turn \/ (panel'.turn = e.kind /\ panel.req = e.req))
  BY <1>1, <1>3 DEF ExplainIInv, ExplainTypeOK, Event
<1>7. ExplainTypeOK'
  BY <1>1, <1>3, <1>6 DEF ExplainIInv, ExplainTypeOK, Event
<1>8. ForksOK' /\ ChildOK' /\ NoForkIsLeft' /\ OneChildRuns'
  BY <1>1 DEF ExplainIInv, ForksOK, ChildOK, NoForkIsLeft, OneChildRuns
<1>9. ShownIsAsked' /\ DoneIsItsOwn'
  BY <1>1, <1>3, <1>4, <1>6 DEF ExplainIInv, ShownIsAsked, DoneIsItsOwn, IsTrue, Event, Requests
<1> QED BY <1>5, <1>7, <1>8, <1>9 DEF ExplainIInv

LEMMA ExplainStep ==
    ASSUME ExplainIInv, [ExplainNext]_explainVars
    PROVE  ExplainIInv'
<1>1. CASE UNCHANGED explainVars
  <2>1. UNCHANGED <<asked, moves, hasFile, appUp, panel, slot, runningChild, progress, process, fork, initLine,
                    timedOut, forkFiles>>
    BY <1>1 DEF explainVars, childVars
  <2> QED BY <2>1 DEF ExplainIInv, ExplainTypeOK, ForksOK, ChildOK, EventsOK, IsTrue, ShownIsAsked, NoForkIsLeft,
                      OneChildRuns, DoneIsItsOwn
<1>2. CASE ConversationMoves
  <2>1. UNCHANGED <<asked, appUp, panel, slot, runningChild, progress, process, fork, initLine, timedOut, forkFiles>>
        /\ moves' \in 0..MaxMoves /\ hasFile' \in BOOLEAN
    BY <1>2, ExplainAssumption DEF ConversationMoves, childVars, ExplainIInv, ExplainTypeOK
  <2> QED BY <2>1 DEF ExplainIInv, ExplainTypeOK, ForksOK, ChildOK, EventsOK, IsTrue, ShownIsAsked, NoForkIsLeft,
                      OneChildRuns, DoneIsItsOwn
<1>3. CASE ClosePanel
  <2>1. appUp' \in BOOLEAN /\ appUp /\ DiscardFork /\ panel' = NoPanel
        /\ progress' \in {progress, <<>>} /\ initLine' \in {initLine, {}} /\ (appUp' => initLine' = initLine)
        /\ UNCHANGED <<asked, moves, hasFile, fork, timedOut>>
    BY <1>3 DEF ClosePanel, ExplainIInv, ExplainTypeOK
  <2> QED BY <2>1, DiscardStep
<1>4. CASE Teardown
  <2>1. appUp' \in BOOLEAN /\ appUp /\ DiscardFork /\ panel' = NoPanel
        /\ progress' \in {progress, <<>>} /\ initLine' \in {initLine, {}} /\ (appUp' => initLine' = initLine)
        /\ UNCHANGED <<asked, moves, hasFile, fork, timedOut>>
    BY <1>4 DEF Teardown
  <2> QED BY <2>1, DiscardStep
<1>5. ASSUME NEW r \in Requests, Prints(r) PROVE ExplainIInv'
  <2>1. "started" \in Alive \cup TurnEnded
    BY DEF Alive
  <2> QED BY <1>5, <2>1, ChildStep DEF Prints, Alive, TurnEnded
<1>6. ASSUME NEW r \in Requests, Writes(r) PROVE ExplainIInv'
  BY <1>6, ChildStep DEF Writes, Alive, TurnEnded
<1>7. ASSUME NEW r \in Requests, Answers(r) PROVE ExplainIInv'
  BY <1>7, ChildStep DEF Answers, Alive, TurnEnded
<1>8. ASSUME NEW r \in Requests, Watchdog(r) PROVE ExplainIInv'
  BY <1>8, ChildStep DEF Watchdog, WatchdogKill, Alive, TurnEnded
<1> QED BY <1>1, <1>2, <1>3, <1>4, <1>5, <1>6, <1>7, <1>8, StartForkStep, FollowupStep, ReadsInitStep,
           ReaderEndsStep, WindowHearsStep DEF ExplainNext

\* A request leaves no fork, no second child and no answer that is another's (explain.rs).
THEOREM ExplainLeavesNothing == ExplainSpec => []ExplainInv
<1>1. ExplainIInv => ExplainInv
  BY DEF ExplainIInv, ExplainInv
<1> QED BY <1>1, ExplainStart, ExplainStep, PTL DEF ExplainSpec

-----------------------------------------------------------------------------
(* The ring of a codex.                                                     *)

RingType ==
    [phase : Phases, rungFor : 0 .. MaxMail, mark : {"none", "rang", "delivered"} \cup Warnings,
     acked : BOOLEAN, late : BOOLEAN, again : BOOLEAN]

CodexType ==
    [word : {"waiting", "working"}, thread : BOOLEAN, lines : 0 .. MaxWakes, blocked : BOOLEAN,
     over : BOOLEAN]

\* A ring that shows as delivered was acked, and codex queue runs for the ring there is.
RingOK(r) == r \in RingType /\ (r.mark = "delivered" => r.acked)

WakeIInv ==
    /\ unread \in Nat /\ arrived \in 0 .. MaxMail /\ unread <= arrived
    /\ {typist, rungFor, hidden, compacting} \subseteq BOOLEAN
    /\ codex \in CodexType /\ RingOK(ring)
    /\ queued \in {"none", "running", "ok", "failed"}
    /\ queued # "none" <=> ring.phase = "queueing"

LEMMA NewRingOK == RingOK(NewRing) /\ NewRing.phase = "idle"
BY WakeAssumption DEF NewRing, RingOK, RingType, Phases, Warnings

\* What a codex becomes that is new, or takes a line, or gets one.
LEMMA CodexAnew ==
    ASSUME NEW t \in BOOLEAN
    PROVE  NewCodex \in CodexType /\ [NewCodex EXCEPT !.thread = t] \in CodexType
<1>1. 0 \in 0 .. MaxWakes
  BY WakeAssumption
<1>2. NewCodex \in CodexType
  BY <1>1 DEF NewCodex, CodexType
<1> QED BY <1>2 DEF CodexType

LEMMA CodexLines ==
    ASSUME NEW c \in CodexType, NEW n \in 0 .. MaxWakes, NEW w \in {"waiting", "working"},
           NEW t \in BOOLEAN
    PROVE  /\ [c EXCEPT !.word = w, !.lines = n, !.thread = t] \in CodexType
           /\ [c EXCEPT !.lines = n] \in CodexType
BY DEF CodexType

LEMMA FewerLines ==
    ASSUME NEW c \in CodexType
    PROVE  /\ c.lines \in Nat
           /\ c.lines > 0 => c.lines - 1 \in 0 .. MaxWakes
           /\ c.lines < MaxWakes => c.lines + 1 \in 0 .. MaxWakes
BY WakeAssumption DEF CodexType

\* A row starts with no ring.
LEMMA WakeStart == WakeInit => WakeIInv
<1> SUFFICES ASSUME WakeInit PROVE WakeIInv
  OBVIOUS
<1>1. RingOK(NewRing) /\ NewRing.phase = "idle"
  BY NewRingOK
<1>2. codex \in CodexType
  BY CodexAnew DEF WakeInit
<1>3. 0 \in 0 .. MaxMail
  BY WakeAssumption
<1>4. RingOK(ring) /\ queued = "none" /\ ring.phase = "idle"
  BY <1>1 DEF WakeInit
<1>5. unread = 0 /\ arrived = 0 /\ {typist, rungFor, hidden, compacting} \subseteq BOOLEAN
  BY DEF WakeInit
<1> QED BY <1>2, <1>3, <1>4, <1>5 DEF WakeIInv

\* What a ring in flight comes to in a tick: codex queue's answer and a wait that is over
\* end a phase, and only an ack makes a ring delivered.
LEMMA LandedRing ==
    ASSUME NEW r, RingOK(r)
    PROVE  /\ RingOK(Landed(r))
           /\ Landed(r).phase = "queueing" => r.phase = "queueing" /\ queued \notin {"ok", "failed"}
           /\ Landed(r).phase = r.phase \/ Landed(r).phase # "queueing"
BY DEF RingOK, RingType, Landed, Phases, Warnings

LEMMA AnsweredRing ==
    ASSUME NEW r, RingOK(r)
    PROVE  RingOK(Answered(r)) /\ (Answered(r).phase = r.phase \/ Answered(r).phase = "idle")
BY DEF RingOK, RingType, Answered, Phases, Warnings

LEMMA LateRing ==
    ASSUME NEW r, RingOK(r)
    PROVE  RingOK(AnsweredLate(r)) /\ AnsweredLate(r).phase = r.phase
BY DEF RingOK, RingType, AnsweredLate

LEMMA MootRing ==
    ASSUME NEW r, RingOK(r)
    PROVE  RingOK(Moot(r)) /\ Moot(r).phase = r.phase
<1>1. 0 \in 0 .. MaxMail
  BY WakeAssumption
<1>2. \A m : Moot(r) = [r EXCEPT !.rungFor = 0, !.mark = m] =>
         /\ Moot(r).phase = r.phase /\ (m \in {r.mark, "none"} => RingOK(Moot(r)))
  BY <1>1 DEF RingOK, RingType
<1> QED BY <1>2 DEF Moot

LEMMA RungRing ==
    ASSUME NEW r, RingOK(r), unread \in 0 .. MaxMail
    PROVE  RingOK(Rung(r)) /\ Rung(r).phase = IF codex.thread THEN "queueing" ELSE "typing"
BY DEF RingOK, RingType, Rung, Phases

\* Wakes::tick: codex queue is over with the phase that waited for it, and is run anew
\* only for a ring that was at rest.
LEMMA TickRings ==
    ASSUME WakeIInv, TickWakes
    PROVE  WakeIInv'
<1> DEFINE r == AnsweredLate(Answered(Landed(ring)))
           rings == unread > 0 /\ MayRing(r)
<1>1. RingOK(ring) /\ unread \in 0 .. MaxMail
  BY WakeAssumption DEF WakeIInv
<1>2. /\ RingOK(r) /\ r.phase = "queueing" => ring.phase = "queueing"
      /\ r.phase = "queueing" => ring.phase = "queueing"
  BY <1>1, LandedRing, AnsweredRing, LateRing
<1>3. /\ ring' = IF unread = 0 THEN Moot(r) ELSE IF rings THEN Rung(r) ELSE r
      /\ queued' = IF rings /\ codex.thread THEN "running"
                   ELSE IF r.phase # ring.phase THEN "none" ELSE queued
      /\ typist' = (typist \/ (rings /\ ~codex.thread))
      /\ rungFor' = (rungFor \/ rings)
      /\ hidden' = (hidden /\ unread > 0 /\ ~rings)
      /\ UNCHANGED <<unread, arrived, codex, compacting>>
  BY DEF TickWakes
<1>4. RingOK(r) /\ (rings => r.phase = "idle")
  BY <1>1, LandedRing, AnsweredRing, LateRing DEF MayRing
<1>5. RingOK(Moot(r)) /\ Moot(r).phase = r.phase
  BY <1>4, MootRing
<1>6. RingOK(Rung(r)) /\ Rung(r).phase = IF codex.thread THEN "queueing" ELSE "typing"
  BY <1>1, <1>4, RungRing
<1>7. rings \in BOOLEAN /\ (rings => unread # 0)
  BY DEF WakeIInv, MayRing
<1> HIDE DEF r, rings
<1>8. RingOK(ring')
  BY <1>3, <1>4, <1>5, <1>6
<1>9. queued' # "none" <=> ring'.phase = "queueing"
  BY <1>2, <1>3, <1>4, <1>5, <1>6, <1>7 DEF WakeIInv
<1>10. queued' \in {"none", "running", "ok", "failed"}
  BY <1>3 DEF WakeIInv
<1>11. {typist', rungFor', hidden', compacting'} \subseteq BOOLEAN
  BY <1>3, <1>7 DEF WakeIInv
<1> QED BY <1>3, <1>8, <1>9, <1>10, <1>11 DEF WakeIInv

\* The mail, the codex and its turns.
LEMMA CodexWakes ==
    ASSUME WakeIInv,
           Arrive \/ TakesLine \/ UserPrompts \/ ReadsInbox \/ Stops \/ Fails \/ Settles \/ Compacts
    PROVE  WakeIInv'
<1> USE DEF WakeIInv, appVars, RingOK, RingType, CodexType
<1>1. CASE Arrive
  <2>1. arrived' \in 0 .. MaxMail
    BY <1>1, WakeAssumption DEF Arrive
  <2>2. unread' \in Nat /\ unread' <= arrived'
    BY <1>1 DEF Arrive
  <2>3. hidden' \in BOOLEAN /\ rungFor' \in BOOLEAN
    BY <1>1 DEF Arrive
  <2> QED BY <1>1, <2>1, <2>2, <2>3 DEF Arrive
<1>2. CASE TakesLine
  <2>1. codex' \in CodexType
    BY <1>2, FewerLines, CodexLines DEF TakesLine
  <2>2. RingOK(ring') /\ ring'.phase = ring.phase
    BY <1>2 DEF TakesLine
  <2> QED BY <1>2, <2>1, <2>2 DEF TakesLine
<1>3. CASE UserPrompts
  BY <1>3 DEF UserPrompts
<1>4. CASE ReadsInbox
  BY <1>4 DEF ReadsInbox
<1>5. CASE Stops
  BY <1>5 DEF Stops
<1>6. CASE Fails
  BY <1>6 DEF Fails
<1>7. CASE Settles
  BY <1>7 DEF Settles
<1>8. CASE Compacts
  BY <1>8 DEF Compacts
<1> QED BY <1>1, <1>2, <1>3, <1>4, <1>5, <1>6, <1>7, <1>8

\* The line on its way to the codex, and a row whose process is replaced.
LEMMA LineWakes ==
    ASSUME WakeIInv,
           QueueEnds \/ (\E ok \in BOOLEAN : WindowTypes(ok)) \/ WindowMisses \/ TimePasses \/ Restarts
    PROVE  WakeIInv'
<1> USE DEF WakeIInv, RingOK, RingType, CodexType
<1>1. CASE QueueEnds
  <2>1. codex' \in CodexType
    <3>1. CASE codex.lines < MaxWakes /\ codex' = [codex EXCEPT !.lines = @ + 1]
      <4>1. codex.lines + 1 \in 0 .. MaxWakes
        BY <3>1, FewerLines
      <4> QED BY <3>1, <4>1, CodexLines
    <3>2. CASE codex' = codex
      BY <3>2
    <3> QED BY <1>1, <3>1, <3>2 DEF QueueEnds
  <2> QED BY <1>1, <2>1 DEF QueueEnds
<1>2. ASSUME NEW ok \in BOOLEAN, WindowTypes(ok) PROVE WakeIInv'
  <2>1. RingOK(ring') /\ (ring'.phase = "queueing" <=> ring.phase = "queueing")
    BY <1>2 DEF WindowTypes, Phases, Warnings
  <2>2. codex' \in CodexType
    BY <1>2, FewerLines, CodexLines DEF WindowTypes
  <2> QED BY <1>2, <2>1, <2>2 DEF WindowTypes
<1>3. CASE WindowMisses
  BY ZenonT(30), <1>3 DEF WindowMisses
<1>4. CASE TimePasses
  <2>1. RingOK(ring') /\ ring'.phase = ring.phase
    BY <1>4 DEF TimePasses
  <2> QED BY <1>4, <2>1 DEF TimePasses
<1>5. CASE Restarts
  <2>1. codex' \in CodexType
    BY <1>5, CodexAnew DEF Restarts
  <2> QED BY <1>5, <2>1, NewRingOK DEF Restarts
<1> QED BY <1>1, <1>2, <1>3, <1>4, <1>5

\* wake.rs: a ring counts as delivered only when the codex acked it, whatever codex queue
\* or the window answered and whenever they did, and codex queue runs only for a ring that
\* waits for it.
THEOREM DeliveredIsAcked == WakeSpec => []WakeInv
<1>1. WakeIInv /\ [WakeNext]_wakeVars => WakeIInv'
  <2> SUFFICES ASSUME WakeIInv, [WakeNext]_wakeVars PROVE WakeIInv'
    OBVIOUS
  <2>1. CASE UNCHANGED wakeVars
    BY <2>1 DEF wakeVars, appVars, WakeIInv
  <2> QED BY <2>1, TickRings, CodexWakes, LineWakes DEF WakeNext
<1>2. WakeIInv => WakeInv
  BY DEF WakeIInv, WakeInv, WakeTypeOK, DeliveredWasAcked, RingOK, RingType, CodexType
<1> QED BY <1>1, <1>2, WakeStart, PTL DEF WakeSpec

-----------------------------------------------------------------------------
(* The list of the phone.                                                   *)

StatusWord == {"working", "waiting", "needs"}

\* What the phone has seen is not unseen, and waits still in the last view; nothing was said
\* before the first view.
NotesIInv ==
    /\ words \in [PhoneClaudes -> StatusWord]
    /\ lastStatus \in [PhoneClaudes -> StatusWord \cup {"none"}]
    /\ unseen \subseteq CountedRows /\ last.needs \cup last.done \subseteq CountedRows
    /\ last = [needs |-> last.needs, done |-> last.done]
    /\ toldWords = [needs |-> toldWords.needs, done |-> toldWords.done]
    /\ skipped = [needs |-> skipped.needs, done |-> skipped.done]
    /\ seat \in [open : BOOLEAN, watch : BOOLEAN, visible : BOOLEAN]
    /\ seat.watch \/ seat.visible => seat.open
    /\ seat.open => phoneLinked
    /\ phoneSeen \cap unseen = {}
    /\ \A c \in phoneSeen : c \in CountedRows /\ lastStatus[c] = "waiting"
    /\ SaidWasTold

LEMMA NotesStart == NotesInit => NotesIInv
BY DEF NotesInit, NotesIInv, StatusWord, NoView, NoSeat, NothingSaid, SaidWasTold

\* summary_for: what counts as said after a tick was sent, shown or skipped then, or is what
\* was told or skipped before and still holds.
LEMMA SummaryTold ==
    ASSUME NotesIInv, TickSummary, ~FirstView
    PROVE  SaidWasTold'
<1>1. last' = Summary /\ Summary.needs = NeedsNow /\ Summary.done = DoneNow
  BY DEF TickSummary, Summary
<1>2. CASE SummaryIsDue
  <2>1. CASE viewing
    <3>1. skipped' = Summary
      BY <1>2, <2>1 DEF TickSummary
    <3> QED BY <1>1, <3>1 DEF SaidWasTold
  <2>2. CASE ~viewing
    <3>1. toldWords' = Summary
      BY <1>2, <2>2 DEF TickSummary
    <3> QED BY <1>1, <3>1 DEF SaidWasTold
  <2> QED BY <2>1, <2>2
<1>3. CASE ~SummaryIsDue
  <2>1. Summary = last \/ Summary = NothingSaid
    BY <1>3 DEF SummaryIsDue
  <2>2. skipped' = Still(skipped, Summary)
    BY <1>3 DEF TickSummary
  <2>3. toldWords' = Summary \/ toldWords' = Still(toldWords, Summary)
    BY <1>3 DEF TickSummary
  <2>4. CASE Summary = NothingSaid
    BY <1>1, <2>4 DEF NothingSaid, SaidWasTold
  <2>5. CASE Summary = last
    <3>1. /\ last'.needs = last.needs /\ last'.done = last.done
          /\ skipped'.needs = skipped.needs \cap last.needs
          /\ skipped'.done = skipped.done \cap last.done
      BY <1>1, <2>2, <2>5 DEF Still
    <3>2. \/ toldWords' = last
          \/ /\ toldWords'.needs = toldWords.needs \cap last.needs
             /\ toldWords'.done = toldWords.done \cap last.done
      BY <2>3, <2>5 DEF Still
    <3> QED BY <3>1, <3>2 DEF NotesIInv, SaidWasTold
  <2> QED BY <2>1, <2>4, <2>5
<1> QED BY <1>2, <1>3

\* One pass of the poll loop: what has finished since the last view was at work in it, so
\* the phone had not seen it.
LEMMA TickNotes ==
    ASSUME NotesIInv, TickSummary
    PROVE  NotesIInv'
<1>1. lastStatus' = words /\ UNCHANGED <<words, seat, phoneLinked, viewing, eyes>>
  BY DEF TickSummary
<1>2. CASE FirstView
  <2>1. unseen' = {} /\ UNCHANGED <<last, toldWords, skipped, phoneSeen>>
    BY <1>2 DEF TickSummary
  <2>2. phoneSeen = {}
    BY <1>2 DEF NotesIInv, FirstView, NoView, CountedRows
  <2> QED BY <1>1, <2>1, <2>2 DEF NotesIInv, SaidWasTold
<1>3. CASE ~FirstView
  <2>1. /\ unseen' = DoneNow /\ last' = Summary
        /\ phoneSeen' = {c \in phoneSeen : words[c] = "waiting"}
    BY <1>3 DEF TickSummary
  <2>2. phoneSeen' \cap unseen' = {}
    BY <2>1 DEF NotesIInv, DoneNow, Finishes, StillDone
  <2>3. \A c \in phoneSeen' : c \in CountedRows /\ lastStatus'[c] = "waiting"
    BY <1>1, <2>1 DEF NotesIInv
  <2>4. /\ unseen' \subseteq CountedRows /\ last'.needs \cup last'.done \subseteq CountedRows
        /\ last' = [needs |-> last'.needs, done |-> last'.done]
    BY <2>1 DEF Summary, NeedsNow, DoneNow
  <2>5. /\ toldWords' = [needs |-> toldWords'.needs, done |-> toldWords'.done]
        /\ skipped' = [needs |-> skipped'.needs, done |-> skipped'.done]
    BY <1>3 DEF TickSummary, Summary, Still, NothingSaid
  <2>6. lastStatus' \in [PhoneClaudes -> StatusWord \cup {"none"}]
    BY <1>1 DEF NotesIInv
  <2> QED BY <1>1, <1>3, <2>2, <2>3, <2>4, <2>5, <2>6, SummaryTold DEF NotesIInv, CountedRows
<1> QED BY <1>2, <1>3

\* The claudes, the phone and its connection.
LEMMA PhoneNotesStep ==
    ASSUME NotesIInv,
           \/ \E c \in PhoneClaudes : WordTurns(c)
           \/ SyncViewing \/ PhoneConnects \/ LooksAtChat \/ LeavesChat \/ PutAway \/ BackInFront
           \/ PhoneLeaves \/ RelayBreaks \/ PutAwayOffline \/ RelayReturns \/ Switched
    PROVE  NotesIInv'
<1> USE DEF NotesIInv, SaidWasTold, CountedRows
<1>1. ASSUME NEW c \in PhoneClaudes, WordTurns(c) PROVE NotesIInv'
  <2>1. words' \in [PhoneClaudes -> StatusWord]
    BY <1>1 DEF WordTurns, StatusWord
  <2> QED BY <1>1, <2>1 DEF WordTurns
<1>2. CASE SyncViewing
  BY <1>2 DEF SyncViewing
<1>3. CASE PhoneConnects
  BY <1>3 DEF PhoneConnects
<1>4. CASE LooksAtChat
  BY <1>4 DEF LooksAtChat
<1>5. CASE LeavesChat
  BY <1>5 DEF LeavesChat
<1>6. CASE PutAway
  BY <1>6 DEF PutAway
<1>7. CASE BackInFront
  BY <1>7 DEF BackInFront
<1>8. CASE PhoneLeaves
  BY <1>8 DEF PhoneLeaves, NoSeat
<1>9. CASE RelayBreaks
  BY <1>9 DEF RelayBreaks, NoSeat
<1>10. CASE PutAwayOffline
  BY <1>10 DEF PutAwayOffline
<1>11. CASE RelayReturns
  BY <1>11 DEF RelayReturns
<1>12. CASE Switched
  BY <1>12 DEF Switched, NoSeat, NoView, NothingSaid
<1> QED BY <1>1, <1>2, <1>3, <1>4, <1>5, <1>6, <1>7, <1>8, <1>9, <1>10, <1>11, <1>12

\* remote/mod.rs summary_for: a finished claude the phone has seen is not announced again
\* before it works again, and what counts as said has reached the phone or was kept from one
\* that was taken to be looking, whenever it connects, looks, leaves or is cut off.
THEOREM SeenIsNotToldAgain == NotesSpec => []NotesInv
<1>1. NotesIInv /\ [NotesNext]_noteVars => NotesIInv'
  <2> SUFFICES ASSUME NotesIInv, [NotesNext]_noteVars PROVE NotesIInv'
    OBVIOUS
  <2>1. CASE UNCHANGED noteVars
    BY <2>1 DEF noteVars, NotesIInv, SaidWasTold, CountedRows
  <2> QED BY <2>1, TickNotes, PhoneNotesStep DEF NotesNext
<1>2. NotesIInv => NotesInv
  BY DEF NotesIInv, StatusWord, NotesInv, NotesTypeOK, SeenIsNotRetold
<1> QED BY <1>1, <1>2, NotesStart, PTL DEF NotesSpec

-----------------------------------------------------------------------------
(* The chat of the phone.                                                   *)

\* A set of numbers has a least one.
LEMMA LeastNumber ==
    ASSUME NEW S \in SUBSET Nat, S # {} PROVE \E x \in S : \A y \in S : x <= y
<1>1. PICK m \in S : \A k \in S : ~ (<<k, m>> \in OpToRel(<, Nat))
  BY NatLessThanWellFounded, WFMin
<1>2. \A k \in S : ~(k < m)
  BY <1>1 DEF OpToRel
<1> QED BY <1>2

Hears(f, h, ls, k) == f = [n \in 0 .. k |-> IF n = 0 THEN h ELSE Heard(f[n - 1], ls[n])]

\* What a reader has after each line is a function.
LEMMA HearsExist ==
    ASSUME NEW h, NEW ls, NEW k \in Nat
    PROVE  \E f : Hears(f, h, ls, k)
<1> DEFINE S == {l \in Nat : ~\E f : Hears(f, h, ls, l)}
<1>1. SUFFICES ASSUME S # {} PROVE FALSE
  BY <1>1
<1>2. PICK l \in S : \A m \in S : l <= m
  BY <1>1, LeastNumber
<1>3. l # 0
  <2>1. Hears([n \in 0 .. 0 |-> h], h, ls, 0)
    BY DEF Hears
  <2> QED BY <2>1
<1>4. l \in Nat /\ l - 1 \in Nat /\ l - 1 \notin S
  BY <1>2, <1>3
<1>5. PICK g : Hears(g, h, ls, l - 1)
  BY <1>4
<1> DEFINE f == [n \in 0 .. l |-> IF n < l THEN g[n] ELSE Heard(g[l - 1], ls[l])]
<1>6. DOMAIN f = 0 .. l /\ f = [n \in 0 .. l |-> f[n]]
  OBVIOUS
<1>7. \A n \in 0 .. l : f[n] = IF n = 0 THEN h ELSE Heard(f[n - 1], ls[n])
  <2> SUFFICES ASSUME NEW n \in 0 .. l
               PROVE  f[n] = IF n = 0 THEN h ELSE Heard(f[n - 1], ls[n])
    OBVIOUS
  <2>1. \A j \in 0 .. (l - 1) : f[j] = g[j]
    BY <1>4
  <2>2. f[l] = Heard(g[l - 1], ls[l])
    BY <1>4
  <2>3. \A j \in 0 .. (l - 1) : g[j] = IF j = 0 THEN h ELSE Heard(g[j - 1], ls[j])
    BY <1>5 DEF Hears
  <2> HIDE DEF f
  <2>4. CASE n = l
    BY <1>3, <1>4, <2>1, <2>2, <2>4
  <2>5. CASE n = 0
    BY <1>3, <1>4, <2>1, <2>3, <2>5
  <2>6. CASE n # l /\ n # 0
    <3>1. n \in 0 .. (l - 1) /\ n - 1 \in 0 .. (l - 1)
      BY <1>4, <2>6
    <3>2. f[n] = g[n] /\ f[n - 1] = g[n - 1]
      BY <2>1, <3>1
    <3> QED BY <2>3, <2>6, <3>1, <3>2
  <2> QED BY <2>4, <2>5, <2>6
<1> HIDE DEF f
<1>8. Hears(f, h, ls, l)
  BY <1>6, <1>7 DEF Hears
<1> QED BY <1>2, <1>8

Steps(h, ls) == CHOOSE f : Hears(f, h, ls, Len(ls))

\* It begins with what the reader had, and each line adds to it.
LEMMA HeardSteps ==
    ASSUME NEW h, NEW ls, Len(ls) \in Nat
    PROVE  /\ HeardAll(h, ls) = Steps(h, ls)[Len(ls)]
           /\ Steps(h, ls)[0] = h
           /\ \A n \in 1 .. Len(ls) : Steps(h, ls)[n] = Heard(Steps(h, ls)[n - 1], ls[n])
<1> DEFINE f == Steps(h, ls)
<1>1. HeardAll(h, ls) = f[Len(ls)]
  BY DEF HeardAll, Steps, Hears
<1>2. Hears(f, h, ls, Len(ls))
  BY HearsExist DEF Steps
<1> HIDE DEF f
<1>3. \A n \in 0 .. Len(ls) : f[n] = IF n = 0 THEN h ELSE Heard(f[n - 1], ls[n])
  BY <1>2 DEF Hears
<1>4. f[0] = h /\ \A n \in 1 .. Len(ls) : f[n] = Heard(f[n - 1], ls[n])
  BY <1>3
<1> QED BY <1>1, <1>4 DEF f

\* It is items and a queue.
LEMMA HeardRecord ==
    ASSUME NEW ls, Len(ls) \in Nat, NEW h, h = [items |-> h.items, queue |-> h.queue]
    PROVE  HeardAll(h, ls) = [items |-> HeardAll(h, ls).items, queue |-> HeardAll(h, ls).queue]
<1>1. CASE Len(ls) = 0
  <2>1. HeardAll(h, ls) = h
    BY <1>1, HeardSteps
  <2> QED BY <2>1
<1>2. CASE Len(ls) # 0
  <2>1. PICK g : HeardAll(h, ls) = Heard(g, ls[Len(ls)])
    <3>1. Len(ls) \in 1 .. Len(ls)
      BY <1>2
    <3>2. HeardAll(h, ls) = Steps(h, ls)[Len(ls)]
      BY HeardSteps
    <3>3. Steps(h, ls)[Len(ls)] = Heard(Steps(h, ls)[Len(ls) - 1], ls[Len(ls)])
      BY <3>1, HeardSteps
    <3> QED BY <3>2, <3>3
  <2> QED BY <2>1 DEF Heard
<1> QED BY <1>1, <1>2

\* Lines read in two pieces are read as one.
LEMMA HeardConcat ==
    ASSUME NEW T, NEW a \in Seq(T), NEW b \in Seq(T), NEW h
    PROVE  HeardAll(h, a \o b) = HeardAll(HeardAll(h, a), b)
<1> DEFINE c == a \o b
           la == Len(a)
           lb == Len(b)
           f == Steps(h, c)
           g == Steps(h, a)
           k == Steps(g[la], b)
<1>1. /\ la \in Nat /\ lb \in Nat /\ Len(c) = la + lb /\ Len(c) \in Nat
      /\ \A n \in 1 .. la : c[n] = a[n]
      /\ \A n \in 1 .. lb : c[la + n] = b[n]
  BY ConcatProperties, LenProperties
<1>2. /\ HeardAll(h, c) = f[la + lb] /\ f[0] = h
      /\ \A n \in 1 .. la + lb : f[n] = Heard(f[n - 1], c[n])
  <2>1. Len(c) \in Nat /\ Len(c) = la + lb
    BY <1>1
  <2> HIDE DEF c, la, lb
  <2>2. /\ HeardAll(h, c) = f[Len(c)] /\ f[0] = h
        /\ \A n \in 1 .. Len(c) : f[n] = Heard(f[n - 1], c[n])
    BY <2>1, HeardSteps
  <2> HIDE DEF f
  <2> QED BY <2>1, <2>2
<1>3. /\ HeardAll(h, a) = g[la] /\ g[0] = h
      /\ \A n \in 1 .. la : g[n] = Heard(g[n - 1], a[n])
  BY <1>1, HeardSteps
<1>4. /\ HeardAll(g[la], b) = k[lb] /\ k[0] = g[la]
      /\ \A n \in 1 .. lb : k[n] = Heard(k[n - 1], b[n])
  BY <1>1, HeardSteps
<1> HIDE DEF c, la, lb, f, g, k
<1>5. f[la] = g[la]
  <2> DEFINE S == {n \in 0 .. la : f[n] # g[n]}
  <2>1. SUFFICES ASSUME S # {} PROVE FALSE
    BY <1>1, <2>1
  <2>2. PICK l \in S : \A m \in S : l <= m
    <3>1. S \in SUBSET Nat
      BY <1>1
    <3> HIDE DEF S
    <3> QED BY <2>1, <3>1, LeastNumber
  <2>3. l # 0
    BY <1>2, <1>3, <2>2
  <2>4. l \in 1 .. la /\ l \in 1 .. la + lb /\ l - 1 \in 0 .. la /\ ~(l <= l - 1)
    BY <1>1, <2>2, <2>3
  <2>5. f[l - 1] = g[l - 1]
    BY <2>2, <2>4
  <2>6. f[l] = g[l]
    BY <1>1, <1>2, <1>3, <2>4, <2>5
  <2> QED BY <2>2, <2>6
<1>6. f[la + lb] = k[lb]
  <2> DEFINE S == {n \in 0 .. lb : f[la + n] # k[n]}
  <2>1. SUFFICES ASSUME S # {} PROVE FALSE
    BY <1>1, <2>1
  <2>2. PICK l \in S : \A m \in S : l <= m
    <3>1. S \in SUBSET Nat
      BY <1>1
    <3> HIDE DEF S
    <3> QED BY <2>1, <3>1, LeastNumber
  <2>3. l # 0
    <3>1. la + 0 = la
      BY <1>1
    <3> QED BY <1>4, <1>5, <2>2, <3>1
  <2>4. /\ l \in 1 .. lb /\ la + l \in 1 .. la + lb /\ l - 1 \in 0 .. lb /\ ~(l <= l - 1)
        /\ (la + l) - 1 = la + (l - 1)
    BY <1>1, <2>2, <2>3
  <2>5. f[la + (l - 1)] = k[l - 1]
    BY <2>2, <2>4
  <2>6. f[la + l] = Heard(f[la + (l - 1)], c[la + l]) /\ c[la + l] = b[l]
    BY <1>1, <1>2, <2>4
  <2>7. k[l] = Heard(k[l - 1], b[l])
    BY <1>4, <2>4
  <2> QED BY <2>2, <2>5, <2>6, <2>7
<1>7. HeardAll(h, c) = HeardAll(HeardAll(h, a), b)
  BY <1>2, <1>3, <1>4, <1>6
<1> QED BY <1>7 DEF c

-----------------------------------------------------------------------------
FilesOK ==
    /\ text \in [Paths -> Seq(Lines)] /\ half \in [Paths -> BOOLEAN] /\ path \in Paths
    /\ \A p \in Paths : Len(text[p]) <= MaxLines /\ (half[p] => p = path /\ Len(text[p]) < MaxLines)

WatchOK ==
    /\ watch = [open |-> watch.open, tail |-> watch.tail, gone |-> watch.gone]
    /\ watch.tail # NoTail => watch.open
    /\ watch.gone => watch.tail = NoTail
    /\ chat = [items |-> chat.items, queue |-> chat.queue, gone |-> chat.gone]

\* A tail with its chat: the two have read the same lines of the file, from the first one
\* of the history to the last whole one that was read, unless the file was replaced, and
\* then nothing more is written before that is seen.
TailOK ==
    LET t == watch.tail
    IN  t # NoTail =>
            /\ t = [path |-> t.path, offset |-> t.offset, queue |-> t.queue]
            /\ t.path \in Paths /\ t.offset \in Nat
            /\ since \in 1 .. t.offset + 1
            /\ t.path = path /\ half[path] => ~Shrunk(t)
            /\ chat.queue = t.queue
            /\ ~Shrunk(t) => [items |-> chat.items, queue |-> t.queue]
                                 = HeardAll(NothingHeard, SubSeq(text[t.path], since, t.offset))

ChatIInv == FilesOK /\ WatchOK /\ TailOK

LEMMA ChatStarts == ChatInit => ChatIInv
<1> SUFFICES ASSUME ChatInit PROVE ChatIInv
  OBVIOUS
<1>1. FilesOK
  <2>1. <<>> \in Seq(Lines) /\ Len(<<>>) = 0 /\ MaxLines \in Nat
    BY EmptySeq, PhoneChatAssumption
  <2> QED BY <2>1 DEF ChatInit, FilesOK, Paths
<1>2. WatchOK /\ TailOK
  BY DEF ChatInit, WatchOK, TailOK, NoWatch, NoChat
<1> QED BY <1>1, <1>2 DEF ChatIInv

\* A chat that is loaded shows the history of the file.
LEMMA ReloadKeeps ==
    ASSUME ChatIInv, UNCHANGED transcript, NEW p \in Paths, watch.open, Reload(p)
    PROVE  ChatIInv'
<1>1. FilesOK'
  BY DEF ChatIInv, FilesOK, transcript
<1> DEFINE n == Len(text[p])
           ls == SubSeq(text[p], FromLine(p), n)
           h == HeardAll(NothingHeard, ls)
<1>2. text[p] \in Seq(Lines) /\ n \in Nat /\ FromLine(p) \in 1 .. n + 1
  <2>1. text[p] \in Seq(Lines) /\ n \in Nat
    BY LenProperties DEF ChatIInv, FilesOK
  <2> QED BY <2>1, PhoneChatAssumption DEF FromLine
<1>3. h = [items |-> h.items, queue |-> h.queue]
  <2>1. Len(ls) \in Nat
    BY <1>2, SubSeqProperties, LenProperties
  <2>2. NothingHeard = [items |-> NothingHeard.items, queue |-> NothingHeard.queue]
    BY DEF NothingHeard
  <2> HIDE DEF ls
  <2> QED BY <2>1, <2>2, HeardRecord
<1> DEFINE t == [path |-> p, offset |-> n, queue |-> h.queue]
<1>4. /\ watch' = [open |-> TRUE, tail |-> t, gone |-> FALSE]
      /\ chat' = [items |-> h.items, queue |-> h.queue, gone |-> FALSE]
      /\ since' = FromLine(p) /\ text' = text /\ half' = half /\ path' = path
  BY DEF Reload, Opened, SizeRead, transcript
<1> HIDE DEF h, n
<1>5. /\ watch'.tail = t /\ watch'.open /\ ~watch'.gone /\ chat'.items = h.items /\ chat'.queue = h.queue
      /\ t.path = p /\ t.offset = n /\ t.queue = h.queue
  BY <1>4
<1>6. WatchOK'
  BY <1>4, <1>5 DEF WatchOK
<1>7. TailOK'
  <2>1. ~(Len(text'[t.path]) < t.offset)
    BY <1>2, <1>4, <1>5 DEF n
  <2>2. HeardAll(NothingHeard, SubSeq(text[p], FromLine(p), n)) = h
    BY DEF h, n
  <2> HIDE DEF t, ls
  <2>3. since' \in 1 .. t.offset + 1 /\ t.offset \in Nat
    BY <1>2, <1>4, <1>5
  <2>4. t = [path |-> t.path, offset |-> t.offset, queue |-> t.queue]
    BY DEF t
  <2> DEFINE w == watch'.tail
  <2>5. /\ w = [path |-> w.path, offset |-> w.offset, queue |-> w.queue]
        /\ w.path \in Paths /\ w.offset \in Nat /\ since' \in 1 .. w.offset + 1
        /\ chat'.queue = w.queue
    BY <1>5, <2>3, <2>4
  <2>6. [items |-> chat'.items, queue |-> w.queue] = h
    BY <1>3, <1>5
  <2>7. SubSeq(text'[w.path], since', w.offset) = SubSeq(text[p], FromLine(p), n)
    BY <1>4, <1>5
  <2>8. ~Shrunk(watch.tail)'
    BY <1>5, <2>1 DEF Shrunk
  <2> HIDE DEF w
  <2>9. [items |-> chat'.items, queue |-> w.queue]
            = HeardAll(NothingHeard, SubSeq(text'[w.path], since', w.offset))
    BY <2>2, <2>6, <2>7
  <2> QED BY <2>5, <2>8, <2>9 DEF TailOK, w
<1> QED BY <1>1, <1>6, <1>7 DEF ChatIInv

\* The lines that came are read after those that were.
LEMMA ReadsKeeps ==
    ASSUME ChatIInv, UNCHANGED <<transcript, chats>>, watch.open, PollReads
    PROVE  ChatIInv'
<1> DEFINE t == watch.tail
           n == Len(text[t.path])
           old == [items |-> chat.items, queue |-> t.queue]
           h == HeardAll(old, NewLines(t))
<1>1. t # NoTail /\ text[t.path] \in Seq(Lines) /\ n \in Nat /\ t.path \in Paths
  BY LenProperties DEF PollReads, ChatIInv, TailOK, FilesOK
<1>2. CASE Shrunk(t)
  <2>1. Reload(t.path)
    BY <1>2 DEF PollReads
  <2> QED BY <1>1, <2>1, ReloadKeeps
<1>3. CASE ~Shrunk(t)
  <2>1. FilesOK'
    BY DEF ChatIInv, FilesOK, transcript
  <2>2. t.offset \in Nat /\ t.offset <= n /\ since \in 1 .. t.offset + 1
        /\ t = [path |-> t.path, offset |-> t.offset, queue |-> t.queue]
    BY <1>1, <1>3 DEF ChatIInv, TailOK, Shrunk
  <2>3. h = HeardAll(NothingHeard, SubSeq(text[t.path], since, n))
    <3>1. old = HeardAll(NothingHeard, SubSeq(text[t.path], since, t.offset))
      BY <1>1, <1>3 DEF ChatIInv, TailOK
    <3>2. NewLines(t) = SubSeq(text[t.path], t.offset + 1, n)
      BY DEF NewLines
    <3>3. since \in 1 .. n + 1 /\ t.offset \in since - 1 .. n /\ n \in t.offset .. n
      BY <1>1, <2>2
    <3> DEFINE s == text[t.path]
               k == t.offset
    <3>4. s \in Seq(Lines) /\ Len(s) = n
      BY <1>1
    <3> HIDE DEF n, s, k
    <3>5. SubSeq(s, since, k) \o SubSeq(s, k + 1, n) = SubSeq(s, since, n)
      BY <3>3, <3>4, ConcatAdjacentSubSeq DEF k
    <3>6. SubSeq(s, since, k) \in Seq(Lines) /\ SubSeq(s, k + 1, n) \in Seq(Lines)
      <4>1. since \in 1 .. n + 1 /\ k \in Nat /\ k <= n /\ n \in Nat /\ k + 1 \in 1 .. n + 1
        BY <1>1, <2>2, <3>3 DEF k
      <4>2. \A i, j \in Int : i >= 1 /\ j <= Len(s) => SubSeq(s, i, j) \in Seq(Lines)
        BY <3>4
      <4> QED BY <3>4, <4>1, <4>2
    <3> DEFINE a == SubSeq(s, since, k)
               b == SubSeq(s, k + 1, n)
    <3>7. HeardAll(NothingHeard, a \o b) = HeardAll(HeardAll(NothingHeard, a), b)
      <4> HIDE DEF a, b
      <4> QED BY <3>6, HeardConcat DEF a, b
    <3>8. old = HeardAll(NothingHeard, a) /\ NewLines(t) = b
      BY <3>1, <3>2 DEF s, k
    <3> HIDE DEF a, b, t, old
    <3> QED BY <3>5, <3>7, <3>8 DEF s, a, b, h
  <2>4. h = [items |-> h.items, queue |-> h.queue]
    <3>1. Len(NewLines(t)) \in Nat
      BY <1>1, <2>2 DEF NewLines
    <3>2. old = [items |-> old.items, queue |-> old.queue]
      OBVIOUS
    <3> HIDE DEF old, t
    <3> QED BY <3>1, <3>2, HeardRecord
  <2> DEFINE u == [path |-> t.path, offset |-> n, queue |-> h.queue]
  <2>5. /\ watch' = [open |-> watch.open, tail |-> u, gone |-> watch.gone]
        /\ chat' = [items |-> h.items, queue |-> h.queue, gone |-> chat.gone]
        /\ since' = since /\ text' = text /\ half' = half /\ path' = path
    <3>1. /\ watch' = [watch EXCEPT !.tail.offset = SizeRead(t.path), !.tail.queue = h.queue]
          /\ chat' = [chat EXCEPT !.items = h.items, !.queue = h.queue]
          /\ since' = since
      BY <1>3 DEF PollReads
    <3>2. /\ watch = [open |-> watch.open, tail |-> t, gone |-> watch.gone]
          /\ chat = [items |-> chat.items, queue |-> chat.queue, gone |-> chat.gone]
      BY DEF ChatIInv, WatchOK
    <3>3. SizeRead(t.path) = n
      BY DEF SizeRead
    <3> HIDE DEF h
    <3> QED BY <2>2, <3>1, <3>2, <3>3 DEF transcript
  <2> HIDE DEF h, n, old
  <2>6. /\ watch'.tail = u /\ watch'.open = watch.open /\ watch'.gone = watch.gone
        /\ chat'.items = h.items /\ chat'.queue = h.queue
        /\ u.path = t.path /\ u.offset = n /\ u.queue = h.queue
    BY <2>5
  <2>7. WatchOK'
    BY <1>1, <2>5, <2>6 DEF WatchOK, ChatIInv
  <2>8. TailOK'
    <3>1. ~(Len(text'[u.path]) < u.offset)
      BY <1>1, <2>5, <2>6 DEF n
    <3>2. u = [path |-> u.path, offset |-> u.offset, queue |-> u.queue]
      OBVIOUS
    <3> HIDE DEF u, t
    <3>3. since' \in 1 .. u.offset + 1 /\ u.offset \in Nat
      BY <1>1, <2>2, <2>5, <2>6
    <3> DEFINE w == watch'.tail
    <3>5. /\ w = [path |-> w.path, offset |-> w.offset, queue |-> w.queue]
          /\ w.path \in Paths /\ w.offset \in Nat /\ since' \in 1 .. w.offset + 1
          /\ chat'.queue = w.queue
      BY <1>1, <2>6, <3>2, <3>3 DEF t
    <3>6. [items |-> chat'.items, queue |-> w.queue] = h
      BY <2>4, <2>6
    <3>7. SubSeq(text'[w.path], since', w.offset) = SubSeq(text[t.path], since, n)
      BY <2>5, <2>6
    <3>8. ~Shrunk(watch.tail)'
      BY <2>6, <3>1 DEF Shrunk
    <3> HIDE DEF w
    <3>9. [items |-> chat'.items, queue |-> w.queue]
              = HeardAll(NothingHeard, SubSeq(text'[w.path], since', w.offset))
      BY <2>3, <3>6, <3>7
    <3> QED BY <3>5, <3>8, <3>9 DEF TailOK, w
  <2> QED BY <2>1, <2>7, <2>8 DEF ChatIInv
<1> QED BY <1>2, <1>3

LEMMA PollKeeps == ASSUME ChatIInv, Poll PROVE ChatIInv'
<1>0. watch.open /\ UNCHANGED transcript /\ UNCHANGED <<transcript, chats>>
  BY DEF Poll
<1>1. CASE PollGone /\ watch.gone
  <2>1. UNCHANGED <<text, half, path, watch, chat, since>>
    BY <1>0, <1>1 DEF PollGone, transcript
  <2> QED BY <2>1 DEF ChatIInv, FilesOK, WatchOK, TailOK, Shrunk
<1>2. CASE PollGone /\ ~watch.gone
  <2>1. /\ watch' = [open |-> watch.open, tail |-> NoTail, gone |-> TRUE]
        /\ chat' = [NoChat EXCEPT !.gone = TRUE] /\ text' = text /\ half' = half /\ path' = path
    BY <1>0, <1>2 DEF PollGone, transcript, ChatIInv, WatchOK
  <2> QED BY <2>1 DEF ChatIInv, FilesOK, WatchOK, TailOK, NoChat
<1>3. CASE PollMoved
  <2>1. Reload(path) /\ path \in Paths
    BY <1>3 DEF PollMoved, ChatIInv, FilesOK
  <2> QED BY <1>0, <2>1, ReloadKeeps
<1>4. CASE PollReads
  BY <1>0, <1>4, ReadsKeeps
<1> QED BY <1>1, <1>2, <1>3, <1>4 DEF Poll

\* What was read of a file stays as it was when the file grows.
LEMMA ReadStays ==
    ASSUME NEW T, NEW s \in Seq(T), NEW e \in T, NEW m \in Nat \ {0}, NEW n \in Nat, n <= Len(s)
    PROVE  SubSeq(Append(s, e), m, n) = SubSeq(s, m, n)
<1>1. Append(s, e) = s \o <<e>> /\ <<e>> \in Seq(T)
  BY AppendIsConcat
<1>2. Len(s) \in Nat
  BY LenProperties
<1>3. CASE m <= n
  <2>1. m \in 1 .. Len(s) /\ n \in 1 .. Len(s)
    BY <1>2, <1>3
  <2>2. SubSeq(s \o <<e>>, m, n) = SubSeq(s, m, n)
    BY <1>1, <2>1, SubSeqOfConcat1
  <2> QED BY <1>1, <2>2
<1>4. CASE m > n
  <2>1. SubSeq(s, m, n) = <<>> /\ SubSeq(Append(s, e), m, n) = <<>>
    BY <1>1, <1>4, SubSeqEmpty, ConcatProperties
  <2> QED BY <2>1
<1> QED BY <1>3, <1>4

\* The claude writes on, in the file that a tail follows too.
LEMMA EndsKeeps == ASSUME ChatIInv, Ends PROVE ChatIInv'
<1>1. PICK l \in Lines : text' = [text EXCEPT ![path] = Append(@, l)]
  BY DEF Ends
<1> DEFINE s == text[path]
<1>2. s \in Seq(Lines) /\ path \in Paths /\ half[path] /\ half' = [half EXCEPT ![path] = FALSE]
      /\ UNCHANGED <<path, watch, chat, since>>
  BY DEF Ends, ChatIInv, FilesOK
<1>3. /\ Append(s, l) \in Seq(Lines) /\ Len(Append(s, l)) = Len(s) + 1 /\ Len(s) \in Nat
      /\ \A i \in 1 .. Len(s) : Append(s, l)[i] = s[i]
  BY <1>2, AppendProperties, LenProperties
<1>4. /\ \A p \in Paths : text'[p] = (IF p = path THEN Append(s, l) ELSE text[p])
      /\ \A p \in Paths : half'[p] = (IF p = path THEN FALSE ELSE half[p])
      /\ text' \in [Paths -> Seq(Lines)] /\ half' \in [Paths -> BOOLEAN]
  BY <1>1, <1>2, <1>3 DEF ChatIInv, FilesOK
<1>5. FilesOK'
  <2>1. Len(s) < MaxLines /\ MaxLines \in Nat
    BY <1>2, PhoneChatAssumption DEF ChatIInv, FilesOK
  <2> QED BY <1>2, <1>3, <1>4, <2>1 DEF ChatIInv, FilesOK
<1>6. WatchOK'
  BY <1>2 DEF ChatIInv, WatchOK
<1>7. TailOK'
  <2>1. SUFFICES ASSUME watch.tail # NoTail PROVE TailOK'
    BY <1>2 DEF TailOK
  <2> DEFINE t == watch.tail
  <2>2. /\ t = [path |-> t.path, offset |-> t.offset, queue |-> t.queue]
        /\ t.path \in Paths /\ t.offset \in Nat /\ since \in 1 .. t.offset + 1 /\ chat.queue = t.queue
        /\ t.path = path => ~Shrunk(t)
    BY <1>2, <2>1 DEF ChatIInv, TailOK
  <2>3. CASE t.path # path
    <3>1. text'[t.path] = text[t.path]
      BY <1>4, <2>2, <2>3
    <3> QED BY <1>2, <2>1, <2>3, <3>1 DEF ChatIInv, TailOK, Shrunk
  <2>4. CASE t.path = path
    <3>1. ~Shrunk(t) /\ t.offset <= Len(s)
      BY <1>3, <2>2, <2>4 DEF Shrunk
    <3>2. SubSeq(Append(s, l), since, t.offset) = SubSeq(s, since, t.offset)
      <4>1. since \in Nat \ {0} /\ t.offset \in Nat /\ t.offset <= Len(s) /\ s \in Seq(Lines)
        BY <1>2, <2>2, <3>1
      <4> HIDE DEF s, t
      <4> QED BY <4>1, ReadStays
    <3>3. text'[t.path] = Append(s, l)
      BY <1>2, <1>4, <2>4
    <3>4. ~Shrunk(t)'
      BY <1>2, <1>3, <2>2, <3>1, <3>3 DEF Shrunk
    <3>5. [items |-> chat.items, queue |-> t.queue] = HeardAll(NothingHeard, SubSeq(s, since, t.offset))
      BY <2>1, <2>4, <3>1 DEF ChatIInv, TailOK
    <3> HIDE DEF s
    <3> QED BY <1>2, <2>2, <3>2, <3>3, <3>4, <3>5 DEF TailOK
  <2> QED BY <2>3, <2>4
<1> QED BY <1>5, <1>6, <1>7 DEF ChatIInv

LEMMA BeginsKeeps == ASSUME ChatIInv, Begins PROVE ChatIInv'
<1>1. /\ half' = [half EXCEPT ![path] = TRUE] /\ UNCHANGED <<text, path, watch, chat, since>>
      /\ Len(text[path]) < MaxLines /\ path \in Paths
      /\ watch.tail.path = path => ~Shrunk(watch.tail)
  BY DEF Begins, ChatIInv, FilesOK
<1>2. FilesOK'
  BY <1>1 DEF ChatIInv, FilesOK
<1>3. WatchOK' /\ TailOK'
  BY <1>1 DEF ChatIInv, WatchOK, TailOK, Shrunk
<1> QED BY <1>2, <1>3 DEF ChatIInv

LEMMA FileReplacedKeeps == ASSUME ChatIInv, FileReplaced PROVE ChatIInv'
<1> DEFINE s == text[path]
           one == <<s[Len(s)]>>
<1>1. /\ text' = [text EXCEPT ![path] = one] /\ UNCHANGED <<half, path, watch, chat, since>>
      /\ path \in Paths /\ s \in Seq(Lines) /\ ~half[path] /\ Len(s) > 1
      /\ watch.tail.path = path /\ watch.tail.offset = Len(s)
  BY DEF FileReplaced, ChatIInv, FilesOK
<1>2. one \in Seq(Lines) /\ Len(one) = 1 /\ Len(s) \in Nat
  <2>1. Len(s) \in Nat /\ Len(s) \in 1 .. Len(s)
    BY <1>1, LenProperties
  <2>2. s[Len(s)] \in Lines
    BY <1>1, <2>1, ElementOfSeq
  <2> QED BY <2>1, <2>2
<1> HIDE DEF one
<1>3. /\ \A p \in Paths : text'[p] = (IF p = path THEN one ELSE text[p])
      /\ text' \in [Paths -> Seq(Lines)]
  BY <1>1, <1>2 DEF ChatIInv, FilesOK
<1>4. FilesOK'
  <2>1. Len(s) <= MaxLines /\ MaxLines \in Nat
    BY <1>1, PhoneChatAssumption DEF ChatIInv, FilesOK
  <2>2. 1 <= MaxLines
    BY <1>1, <1>2, <2>1
  <2> QED BY <1>1, <1>2, <1>3, <2>2 DEF ChatIInv, FilesOK
<1>5. WatchOK'
  BY <1>1 DEF ChatIInv, WatchOK
<1>6. TailOK'
  <2>1. Shrunk(watch.tail)'
    BY <1>1, <1>2, <1>3 DEF Shrunk
  <2> QED BY <1>1, <2>1 DEF ChatIInv, TailOK
<1> QED BY <1>4, <1>5, <1>6 DEF ChatIInv

LEMMA ResumesKeeps == ASSUME ChatIInv, Resumes PROVE ChatIInv'
<1>1. path' = "resumed" /\ path = "first" /\ ~half[path] /\ UNCHANGED <<text, half, watch, chat, since>>
  BY DEF Resumes
<1> QED BY <1>1 DEF ChatIInv, FilesOK, WatchOK, TailOK, Shrunk, Paths

LEMMA ChatSteps == ChatIInv /\ [ChatNext]_chatVars => ChatIInv'
<1> SUFFICES ASSUME ChatIInv, [ChatNext]_chatVars PROVE ChatIInv'
  OBVIOUS
<1>1. CASE Dies \/ ResolveDue \/ UNCHANGED chatVars
  <2>1. UNCHANGED <<text, half, path, watch, chat, since>>
    BY <1>1 DEF Dies, ResolveDue, chatVars, transcript
  <2> QED BY <2>1 DEF ChatIInv, FilesOK, WatchOK, TailOK, Shrunk
<1>2. CASE OpensChat
  <2>1. /\ watch' = [open |-> TRUE, tail |-> NoTail, gone |-> FALSE] /\ UNCHANGED <<text, half, path, chat, since>>
    BY <1>2 DEF OpensChat, transcript, NoWatch
  <2> QED BY <2>1 DEF ChatIInv, FilesOK, WatchOK, TailOK
<1>3. CASE ClosesChat
  <2>1. watch' = NoWatch /\ chat' = NoChat /\ UNCHANGED <<text, half, path>>
    BY <1>3 DEF ClosesChat, transcript
  <2> QED BY <2>1 DEF ChatIInv, FilesOK, WatchOK, TailOK, NoWatch, NoChat
<1> QED BY <1>1, <1>2, <1>3, BeginsKeeps, EndsKeeps, ResumesKeeps, FileReplacedKeeps, PollKeeps DEF ChatNext

LEMMA ChatIsTold == ChatIInv => ChatInv
<1> SUFFICES ASSUME ChatIInv PROVE ChatInv
  OBVIOUS
<1> DEFINE t == watch.tail
<1>1. ChatTypeOK
  <2>1. watch.tail.path \in Paths \cup {"none"}
    BY DEF ChatIInv, TailOK, NoTail
  <2> QED BY <2>1 DEF ChatTypeOK, ChatIInv, FilesOK, WatchOK
<1>2. ASSUME t # NoTail, ~Shrunk(t)
      PROVE  /\ chat.items = HeardAll(NothingHeard, SubSeq(text[t.path], since, t.offset)).items
             /\ chat.queue = HeardAll(NothingHeard, SubSeq(text[t.path], since, t.offset)).queue
  <2> DEFINE h == HeardAll(NothingHeard, SubSeq(text[t.path], since, t.offset))
  <2>1. [items |-> chat.items, queue |-> t.queue] = h /\ chat.queue = t.queue
    BY <1>2 DEF ChatIInv, TailOK
  <2>2. h.items = chat.items /\ h.queue = t.queue
    <3> HIDE DEF h
    <3> QED BY <2>1
  <2> QED BY <2>1, <2>2
<1>3. ChatIsExact /\ QueueIsExact
  BY <1>2 DEF ChatIsExact, QueueIsExact
<1> QED BY <1>1, <1>3 DEF ChatInv

\* The chat on the phone is what the transcript said from where it was opened on, every line
\* once, and its queue that of the claude, however the file grows, moves or is replaced
\* between two looks at it (remote/chat.rs, poll_chat).
THEOREM ChatIsTrue == ChatSpec => []ChatInv
<1>1. ChatIInv /\ [ChatNext]_chatVars => ChatIInv'
  BY ChatSteps
<1> QED BY <1>1, ChatStarts, ChatIsTold, PTL DEF ChatSpec

-----------------------------------------------------------------------------
(* The broadcast rounds.                                                    *)

\* The questions and the markers of the round there is are of its rows, and no round that
\* was given up is the one there is.
RoundOK ==
    /\ round = [bid |-> round.bid, done |-> round.done]
    /\ RowsOf(round) \subseteq Picked /\ round.bid \in 0 .. asks
    /\ round.bid \notin astray /\ astray \subseteq 1 .. asks
    /\ \A d \in open :
          /\ d = <<d[1], d[2]>> /\ d[2] \in 1 .. asks /\ d[2] \in {round.bid} \cup astray
          /\ d[2] = round.bid => d \in DirsOf(round)
    /\ \A c \in Picked :
          /\ question[c] \subseteq {round.bid} \cup astray /\ question[c] \subseteq 1 .. asks
          /\ round.bid \in question[c] => c \in RowsOf(round)

AnswersOK == \A a \in answers : <<Home[a.id], a.bid>> \in open

ClaudesOK ==
    /\ living \subseteq Picked /\ status \in [Picked -> {"waiting", "working"}]
    /\ heard \in [Picked -> SUBSET (1 .. asks)] /\ replying \in [Picked -> 0 .. asks]
    /\ DOMAIN question = Picked

SummaryOK ==
    /\ summaries \in Nat /\ spawned \in 0 .. summaries /\ running \in 0 .. summaries
    /\ children \subseteq 1 .. summaries

BroadcastIInv ==
    /\ asks \in Nat /\ idle \in [Picked -> {"no", "since", "settled"}]
    /\ RoundOK /\ AnswersOK /\ ClaudesOK /\ SummaryOK

LEMMA BroadcastStart == BroadcastInit => BroadcastIInv
BY DEF BroadcastInit, BroadcastIInv, RoundOK, AnswersOK, ClaudesOK, SummaryOK, NoRound, RowsOf

\* What the claudes do with a question, and their rows.
LEMMA ClaudeBroadcast ==
    ASSUME BroadcastIInv, NEW c \in Picked,
           \/ StatusChanges(c) \/ ReadsQuestions(c) \/ ReplySeesMarker(c) \/ ReplyLands(c)
           \/ RowGoes(c) \/ RowReturns(c) \/ SettleEnds(c)
    PROVE  BroadcastIInv'
<1> USE DEF BroadcastIInv, roundVars, summaryVars
<1>1. CASE StatusChanges(c)
  BY <1>1 DEF StatusChanges, RoundOK, AnswersOK, ClaudesOK, SummaryOK, RowsOf, DirsOf
<1>2. CASE ReadsQuestions(c)
  <2>1. question[c] \subseteq 1 .. asks
    BY DEF RoundOK
  <2>2. ClaudesOK'
    BY <1>2, <2>1 DEF ReadsQuestions, ClaudesOK
  <2>3. RoundOK'
    BY <1>2 DEF ReadsQuestions, RoundOK, RowsOf, DirsOf, ClaudesOK
  <2> QED BY <1>2, <2>2, <2>3 DEF ReadsQuestions, AnswersOK, SummaryOK
<1>3. CASE ReplySeesMarker(c)
  <2>1. ClaudesOK'
    BY <1>3 DEF ReplySeesMarker, ClaudesOK
  <2> QED BY <1>3, <2>1 DEF ReplySeesMarker, RoundOK, AnswersOK, SummaryOK, RowsOf, DirsOf
<1>4. CASE ReplyLands(c)
  <2>1. AnswersOK'
    BY <1>4 DEF ReplyLands, AnswersOK
  <2>2. ClaudesOK'
    BY <1>4 DEF ReplyLands, ClaudesOK
  <2> QED BY <1>4, <2>1, <2>2 DEF ReplyLands, RoundOK, SummaryOK, RowsOf, DirsOf
<1>5. CASE RowGoes(c)
  <2>1. RoundOK'
    BY <1>5 DEF RowGoes, RoundOK, RowsOf, DirsOf, ClaudesOK
  <2>2. ClaudesOK'
    BY <1>5 DEF RowGoes, ClaudesOK
  <2> QED BY <1>5, <2>1, <2>2 DEF RowGoes, AnswersOK, SummaryOK
<1>6. CASE RowReturns(c)
  BY <1>6 DEF RowReturns, RoundOK, AnswersOK, ClaudesOK, SummaryOK, RowsOf, DirsOf
<1>7. CASE SettleEnds(c)
  BY <1>7 DEF SettleEnds, RoundOK, AnswersOK, ClaudesOK, SummaryOK, RowsOf, DirsOf
<1> QED BY <1>1, <1>2, <1>3, <1>4, <1>5, <1>6, <1>7

\* What broadcast_cancel takes back is all there is of the round it ends: what stays is of
\* rounds that were given up.
LEMMA ClosedRound ==
    ASSUME BroadcastIInv
    PROVE  /\ \A d \in ClosedDirs : d \in open /\ d[2] \in astray
           /\ \A c \in Picked : ClosedQuestions[c] \subseteq astray
           /\ \A a \in ClosedAnswers : <<Home[a.id], a.bid>> \in ClosedDirs
           /\ DOMAIN ClosedQuestions = Picked
<1>1. \A d \in ClosedDirs : d \in open /\ d[2] \in astray
  BY DEF BroadcastIInv, RoundOK, ClosedDirs
<1>2. \A c \in Picked : ClosedQuestions[c] \subseteq astray
  BY DEF BroadcastIInv, RoundOK, ClosedQuestions, TakenBack
<1>3. \A a \in ClosedAnswers : <<Home[a.id], a.bid>> \in ClosedDirs
  BY DEF BroadcastIInv, AnswersOK, ClosedAnswers, ClosedDirs, DirsOf
<1> QED BY <1>1, <1>2, <1>3 DEF ClosedQuestions

LEMMA KilledSummary ==
    ASSUME SummaryOK, SummaryKilled, UNCHANGED <<spawned, summaries>>
    PROVE  SummaryOK'
BY DEF SummaryOK, SummaryKilled

\* broadcast_cancel and broadcast_send.
LEMMA CancelBroadcast ==
    ASSUME BroadcastIInv, BroadcastCancel
    PROVE  BroadcastIInv'
<1>1. /\ round' = NoRound /\ open' = ClosedDirs /\ question' = ClosedQuestions
      /\ answers' = ClosedAnswers
      /\ UNCHANGED <<living, status, heard, replying, astray, asks>>
  BY DEF BroadcastCancel
<1>2. RoundOK'
  BY <1>1, ClosedRound DEF BroadcastIInv, RoundOK, NoRound, RowsOf
<1>3. AnswersOK'
  BY <1>1, ClosedRound DEF AnswersOK
<1>4. ClaudesOK'
  BY <1>1, ClosedRound DEF BroadcastIInv, ClaudesOK
<1>5. SummaryOK'
  BY KilledSummary DEF BroadcastIInv, BroadcastCancel
<1>6. asks' \in Nat /\ idle' \in [Picked -> {"no", "since", "settled"}]
  BY DEF BroadcastIInv, BroadcastCancel
<1> QED BY <1>2, <1>3, <1>4, <1>5, <1>6 DEF BroadcastIInv

LEMMA SendBroadcast ==
    ASSUME BroadcastIInv, BroadcastSend
    PROVE  BroadcastIInv'
<1> DEFINE b == asks + 1
<1>1. PICK picks \in SUBSET living \ {{}}, failed \in BOOLEAN :
          /\ question' = [c \in Picked |-> ClosedQuestions[c] \cup (IF c \in picks THEN {b} ELSE {})]
          /\ open' = ClosedDirs \cup {<<Home[c], b>> : c \in picks}
          /\ round' = IF failed THEN NoRound ELSE [bid |-> b, done |-> [c \in picks |-> "asked"]]
          /\ astray' = IF failed THEN astray \cup {b} ELSE astray
  BY DEF BroadcastSend
<1>2. /\ asks' = b /\ answers' = ClosedAnswers
      /\ UNCHANGED <<living, status, heard, replying, spawned, summaries>>
  BY DEF BroadcastSend
<1>3. asks \in Nat /\ astray \subseteq 1 .. asks /\ picks \subseteq Picked
  BY DEF BroadcastIInv, RoundOK, ClaudesOK
<1>4. b \in 1 .. asks' /\ astray' \subseteq 1 .. asks' /\ b \notin astray
  <2>1. asks' = b /\ b \in 1 .. b /\ b \notin 1 .. asks /\ 1 .. asks \subseteq 1 .. b
    BY <1>2, <1>3
  <2> QED BY <1>1, <1>3, <2>1
<1>5. \A d \in open' : /\ d = <<d[1], d[2]>>
                       /\ d[2] \in astray \/ (d[2] = b /\ \E c \in picks : d = <<Home[c], b>>)
  BY <1>1, ClosedRound DEF BroadcastIInv, RoundOK
<1>6. \A c \in Picked : question'[c] \subseteq astray \cup (IF c \in picks THEN {b} ELSE {})
  BY <1>1, ClosedRound
<1>7. RoundOK'
  <2>1. CASE failed
    <3>1. round' = NoRound /\ astray' = astray \cup {b}
      BY <1>1, <2>1
    <3>2. 0 \notin astray'
      BY <1>4
    <3> QED BY <1>2, <1>4, <1>5, <1>6, <3>1, <3>2 DEF RoundOK, NoRound, RowsOf
  <2>2. CASE ~failed
    <3>1. round' = [bid |-> b, done |-> [c \in picks |-> "asked"]] /\ astray' = astray
      BY <1>1, <2>2
    <3>2. round'.bid = b /\ RowsOf(round') = picks
      BY <3>1 DEF RowsOf
    <3>3. DirsOf(round') = {<<Home[c], b>> : c \in picks}
      BY <3>2 DEF DirsOf
    <3>4. b \in 0 .. asks' /\ astray' \subseteq 1 .. asks' /\ b \notin astray'
      BY <1>4, <3>1
    <3> QED BY <1>3, <1>4, <1>5, <1>6, <3>1, <3>2, <3>3, <3>4 DEF RoundOK
  <2> QED BY <2>1, <2>2
<1>8. AnswersOK'
  BY <1>1, <1>2, ClosedRound DEF AnswersOK
<1>9. ClaudesOK'
  <2>1. 1 .. asks \subseteq 1 .. asks' /\ 0 .. asks \subseteq 0 .. asks'
    BY <1>2, <1>3
  <2> QED BY <1>1, <1>2, <2>1 DEF BroadcastIInv, ClaudesOK
<1>10. SummaryOK'
  BY KilledSummary DEF BroadcastIInv, BroadcastSend
<1>11. asks' \in Nat /\ idle' \in [Picked -> {"no", "since", "settled"}]
  BY <1>2, <1>3 DEF BroadcastSend
<1> QED BY <1>7, <1>8, <1>9, <1>10, <1>11 DEF BroadcastIInv

\* broadcast_progress, and the summary: the round keeps its rows, and RUNNING is of a
\* summary that was spawned.
LEMMA ProgressBroadcast ==
    ASSUME BroadcastIInv, ProgressReads \/ ProgressJudges
    PROVE  BroadcastIInv'
<1> USE DEF BroadcastIInv
<1>1. CASE ProgressReads
  BY <1>1 DEF ProgressReads, roundVars, summaryVars, RoundOK, AnswersOK, ClaudesOK, SummaryOK,
     RowsOf, DirsOf
<1>2. CASE ProgressJudges
  <2>1. PICK verdict \in [RowsOf(round) -> {"asked", "replied", "gone", "fallback", "noanswer"}] :
           round' = [round EXCEPT !.done = verdict]
    BY <1>2 DEF ProgressJudges
  <2>2. /\ round'.bid = round.bid /\ RowsOf(round') = RowsOf(round)
        /\ round' = [bid |-> round'.bid, done |-> round'.done]
    BY <2>1 DEF RoundOK, RowsOf
  <2>3. DirsOf(round') = DirsOf(round)
    BY <2>2 DEF DirsOf
  <2>4. RoundOK'
    BY <1>2, <2>2, <2>3 DEF ProgressJudges, RoundOK
  <2>5. idle' \in [Picked -> {"no", "since", "settled"}]
    BY <1>2 DEF ProgressJudges, Since
  <2> QED BY <1>2, <2>4, <2>5 DEF ProgressJudges, summaryVars, AnswersOK, ClaudesOK, SummaryOK
<1> QED BY <1>1, <1>2

LEMMA SummaryBroadcast ==
    ASSUME BroadcastIInv,
           \/ SummarySpawns \/ SummaryRuns
           \/ \E r \in 1 .. MaxSummaries : ChildEnds(r) \/ SummaryAnnounced(r)
    PROVE  BroadcastIInv'
<1>1. UNCHANGED <<living, status, heard, replying, roundVars>>
  BY DEF SummarySpawns, SummaryRuns, ChildEnds, SummaryAnnounced
<1>2. RoundOK' /\ AnswersOK' /\ ClaudesOK'
  BY <1>1 DEF BroadcastIInv, roundVars, RoundOK, AnswersOK, ClaudesOK, RowsOf, DirsOf
<1>3. SummaryOK'
  BY DEF BroadcastIInv, SummaryOK, SummarySpawns, SummaryRuns, ChildEnds, SummaryAnnounced
<1> QED BY <1>1, <1>2, <1>3 DEF BroadcastIInv, roundVars

LEMMA BroadcastStep == BroadcastIInv /\ [BroadcastNext]_broadcastVars => BroadcastIInv'
<1> SUFFICES ASSUME BroadcastIInv, [BroadcastNext]_broadcastVars PROVE BroadcastIInv'
  OBVIOUS
<1>1. CASE UNCHANGED broadcastVars
  BY <1>1 DEF broadcastVars, roundVars, summaryVars, BroadcastIInv, RoundOK, AnswersOK,
     ClaudesOK, SummaryOK, RowsOf, DirsOf
<1> QED BY <1>1, ClaudeBroadcast, CancelBroadcast, SendBroadcast, ProgressBroadcast,
           SummaryBroadcast DEF BroadcastNext

\* broadcast.rs: however often a question is asked, closed and asked again while claudes
\* read, answer, close and come back, no question waits and no marker invites an answer of a
\* round that is over, but for the rounds broadcast_send gave up half-way.
THEOREM NothingIsLeft == BroadcastSpec => []BroadcastInv
<1>1. BroadcastIInv => BroadcastInv
  BY DEF BroadcastIInv, RoundOK, AnswersOK, ClaudesOK, SummaryOK, BroadcastInv, BroadcastTypeOK,
     NothingIsLeftOver
<1> QED BY <1>1, BroadcastStart, BroadcastStep, PTL DEF BroadcastSpec

\* Only before the first question, and after a close, there is no round.
RoundStands == round.bid = 0 => round = NoRound

OverlookedNone ==
    round.bid = round'.bid => \A c \in RowsOf(round) :
        /\ round'.done[c] \in {"gone", "fallback", "noanswer"} /\ round.done[c] = "asked"
              => [id |-> c, bid |-> round.bid] \notin found
        /\ round.done[c] # "asked" => round'.done[c] = round.done[c]

LEMMA RoundGoesOn ==
    ASSUME BroadcastIInv, RoundStands, [BroadcastNext]_broadcastVars
    PROVE  RoundStands' /\ OverlookedNone
<1>1. CASE UNCHANGED round
  <2>1. \A c \in RowsOf(round) : ~(round.done[c] \in {"gone", "fallback", "noanswer"} /\ round.done[c] = "asked")
    OBVIOUS
  <2> QED BY <1>1, <2>1 DEF RoundStands, OverlookedNone
<1>2. CASE BroadcastCancel
  <2>1. round # NoRound /\ round' = NoRound
    BY <1>2 DEF BroadcastCancel
  <2> QED BY <2>1 DEF RoundStands, OverlookedNone, NoRound
<1>3. CASE BroadcastSend
  <2>1. /\ asks \in Nat /\ round.bid \in 0 .. asks
        /\ round' = NoRound \/ round'.bid = asks + 1
    BY <1>3 DEF BroadcastIInv, RoundOK, BroadcastSend
  <2>2. NoRound.bid = 0 /\ RowsOf(NoRound) = {} /\ asks + 1 # 0 /\ round.bid # asks + 1
    BY <2>1 DEF NoRound, RowsOf
  <2> QED BY <2>1, <2>2 DEF RoundStands, OverlookedNone
<1>4. CASE ProgressJudges
  <2>1. PICK verdict \in [RowsOf(round) -> {"asked", "replied", "gone", "fallback", "noanswer"}] :
           /\ \A c \in RowsOf(round) :
                 verdict[c] \in IF round.done[c] = "asked" THEN Verdict(c) ELSE {round.done[c]}
           /\ round' = [round EXCEPT !.done = verdict]
    BY <1>4 DEF ProgressJudges
  <2>2. round'.bid = round.bid /\ round'.done = verdict
    BY <2>1 DEF BroadcastIInv, RoundOK
  <2>3. RoundStands'
    <3> SUFFICES ASSUME round.bid = 0 PROVE round' = NoRound
      BY <2>2 DEF RoundStands
    <3>1. round = NoRound /\ RowsOf(round) = {}
      BY DEF RoundStands, NoRound, RowsOf
    <3>2. verdict = [c \in {} |-> "asked"]
      BY <2>1, <3>1
    <3> QED BY <2>1, <3>1, <3>2 DEF NoRound
  <2>4. ASSUME NEW c \in RowsOf(round), round.done[c] = "asked",
               verdict[c] \in {"gone", "fallback", "noanswer"}
        PROVE  [id |-> c, bid |-> round.bid] \notin found
    BY <2>1, <2>4 DEF Verdict
  <2>5. \A c \in RowsOf(round) : round.done[c] # "asked" => verdict[c] = round.done[c]
    BY <2>1
  <2> QED BY <2>2, <2>3, <2>4, <2>5 DEF OverlookedNone
<1>5. ASSUME NEW c \in Picked,
             \/ StatusChanges(c) \/ ReadsQuestions(c) \/ ReplySeesMarker(c) \/ ReplyLands(c)
             \/ RowGoes(c) \/ RowReturns(c) \/ SettleEnds(c)
      PROVE  UNCHANGED round
  BY <1>5 DEF StatusChanges, ReadsQuestions, ReplySeesMarker, ReplyLands, RowGoes, RowReturns,
     SettleEnds, roundVars
<1>6. ASSUME \/ ProgressReads \/ SummarySpawns \/ SummaryRuns
             \/ \E r \in 1 .. MaxSummaries : ChildEnds(r) \/ SummaryAnnounced(r)
             \/ UNCHANGED broadcastVars
      PROVE  UNCHANGED round
  BY <1>6 DEF ProgressReads, SummarySpawns, SummaryRuns, ChildEnds, SummaryAnnounced,
     broadcastVars, roundVars
<1> QED BY <1>1, <1>2, <1>3, <1>4, <1>5, <1>6 DEF BroadcastNext

\* broadcast_progress reads the answers before the rest of a row: whatever a claude does
\* between the two, a row whose answer the pass found is not given up, and no verdict is
\* taken back, for any claudes, projects and rounds.
THEOREM AnswersAreSeen == BroadcastSpec => NoAnswerOverlooked
<1>1. BroadcastInit => RoundStands
  BY DEF BroadcastInit, RoundStands
<1>2. BroadcastIInv /\ RoundStands /\ [BroadcastNext]_broadcastVars => RoundStands' /\ [OverlookedNone]_broadcastVars
  BY RoundGoesOn
<1> QED BY <1>1, <1>2, BroadcastStart, BroadcastStep, PTL DEF BroadcastSpec, NoAnswerOverlooked, OverlookedNone

-----------------------------------------------------------------------------
(* The update of a host.                                                    *)

Progress == Active \cup Over
ToHost == {"order", "cancel"}
ToMac == {"refused", "welcome"} \cup Progress

UpdateType ==
    [step : {"none", "sent", "done"} \cup Progress, late : BOOLEAN, lost : BOOLEAN, silent : BOOLEAN]

MacType == [state : {"connecting", "connected", "updating", "error"}, upd : UpdateType]

RunType == [step : {"none"} \cup Progress, cancel : BOOLEAN, seq : Nat]

\* The recorded run: what was sent of it is no newer than it is.
RunOK ==
    /\ orderRun \in RunType
    /\ pumped \in 0 .. orderRun.seq
    /\ orderRun.step = "none" => orderRun.seq = 0
    /\ drives = IF orderRun.step \in Active THEN 1 ELSE 0

LinesOK ==
    /\ linked \in BOOLEAN /\ outbound \in Seq(ToHost) /\ inbound \in Seq(ToMac)
    /\ ~linked => outbound = <<>> /\ inbound = <<>>

Carries(line, kinds) == \E i \in 1 .. Len(line) : line[i] \in kinds

\* An order that no loss of a link took is answered: it is on its way, or its progress is.
AnswerComes == Carries(outbound, {"order"}) \/ ToPump \/ Carries(inbound, Progress)

OrderOK(m) ==
    /\ m.upd.step = "sent" /\ ~m.upd.lost => ~m.upd.late
    /\ m.upd.silent => m.upd.lost

UpdateIInv ==
    /\ behind \in BOOLEAN /\ hostNew \in BOOLEAN
    /\ orders \in 0 .. MaxOrders /\ drops \in 0 .. MaxDrops
    /\ RunOK /\ LinesOK /\ mac \in MacType /\ OrderOK(mac)
    /\ mac.upd.step = "sent" /\ ~mac.upd.lost => linked /\ AnswerComes

LEMMA AppendCarries ==
    ASSUME NEW T, NEW s \in Seq(T), NEW e \in T, NEW kinds
    PROVE  /\ Append(s, e) \in Seq(T)
           /\ Carries(s, kinds) => Carries(Append(s, e), kinds)
           /\ e \in kinds => Carries(Append(s, e), kinds)
<1>1. /\ Append(s, e) \in Seq(T) /\ Len(Append(s, e)) = Len(s) + 1 /\ Len(s) \in Nat
      /\ \A i \in 1 .. Len(s) : Append(s, e)[i] = s[i] /\ i \in 1 .. Len(s) + 1
      /\ Append(s, e)[Len(s) + 1] = e
  BY AppendProperties, LenProperties
<1> QED BY <1>1 DEF Carries

LEMMA TailCarries ==
    ASSUME NEW T, NEW s \in Seq(T), s # <<>>, NEW kinds
    PROVE  /\ Tail(s) \in Seq(T) /\ Head(s) \in T
           /\ Carries(s, kinds) /\ Head(s) \notin kinds => Carries(Tail(s), kinds)
<1>1. /\ Tail(s) \in Seq(T) /\ Head(s) \in T /\ Len(Tail(s)) = Len(s) - 1 /\ Head(s) = s[1]
      /\ Len(s) \in Nat /\ \A i \in 1 .. Len(Tail(s)) : Tail(s)[i] = s[i + 1]
  BY HeadTailProperties, LenProperties, ElementOfSeq
<1>2. ASSUME NEW i \in 1 .. Len(s), s[i] \in kinds, Head(s) \notin kinds
      PROVE  i - 1 \in 1 .. Len(Tail(s)) /\ Tail(s)[i - 1] = s[i]
  <2>1. i # 1
    BY <1>1, <1>2
  <2>2. i - 1 \in 1 .. Len(Tail(s)) /\ (i - 1) + 1 = i
    BY <1>1, <2>1
  <2> QED BY <1>1, <2>2
<1> QED BY <1>1, <1>2 DEF Carries

\* A link that is down carries nothing.
LEMMA DownCarries ==
    ASSUME linked' = FALSE, outbound' = <<>>, inbound' = <<>>
    PROVE  LinesOK'
<1>1. \A T : <<>> \in Seq(T)
  BY EmptySeq
<1> QED BY <1>1 DEF LinesOK

LEMMA NoUpdateOK ==
    /\ NoUpdate \in UpdateType /\ NewUpdate \in UpdateType
    /\ NoUpdate.step = "none" /\ ~NoUpdate.silent /\ ~NewUpdate.silent /\ ~NewUpdate.late
BY DEF NoUpdate, NewUpdate, UpdateType

LEMMA HostUpdateStart == HostUpdateInit => UpdateIInv
<1> SUFFICES ASSUME HostUpdateInit PROVE UpdateIInv
  OBVIOUS
<1>1. LinesOK
  <2>1. \A T : <<>> \in Seq(T)
    BY EmptySeq
  <2> QED BY <2>1 DEF HostUpdateInit, LinesOK
<1>2. RunOK
  BY DEF HostUpdateInit, RunOK, RunType, NoOrder, Active
<1>3. mac \in MacType /\ OrderOK(mac) /\ mac.upd.step = "none"
  BY NoUpdateOK DEF HostUpdateInit, MacType, OrderOK
<1>4. orders \in 0 .. MaxOrders /\ drops \in 0 .. MaxDrops
  BY HostUpdateAssumption DEF HostUpdateInit
<1> QED BY <1>1, <1>2, <1>3, <1>4 DEF HostUpdateInit, UpdateIInv

\* A link that is lost takes the order and its answer with it, and the Mac knows.
LEMMA GoneLoses ==
    ASSUME NEW m \in MacType, OrderOK(m), LinkGone(m)
    PROVE  /\ LinesOK' /\ mac' \in MacType /\ OrderOK(mac')
           /\ mac'.upd.step = "sent" => mac'.upd.lost
<1>1. LinesOK'
  BY DownCarries DEF LinkGone
<1>2. \A w \in {"error", "connecting"}, l \in BOOLEAN :
         LET n == [m EXCEPT !.state = w, !.upd.lost = l]
         IN  /\ n \in MacType /\ n.upd.step = m.upd.step /\ n.upd.late = m.upd.late
             /\ n.upd.silent = m.upd.silent /\ n.upd.lost = l
  BY DEF MacType, UpdateType
<1>3. mac' = [m EXCEPT !.state = IF m.state = "error" THEN m.state ELSE "connecting",
                       !.upd.lost = m.upd.lost \/ m.upd.step = "sent"]
  BY DEF LinkGone, Unlinked
<1>4. (m.upd.lost \/ m.upd.step = "sent") \in BOOLEAN
  BY DEF MacType, UpdateType
<1>5. /\ mac' \in MacType /\ mac'.upd.step = m.upd.step /\ mac'.upd.late = m.upd.late
      /\ mac'.upd.silent = m.upd.silent /\ mac'.upd.lost = (m.upd.lost \/ m.upd.step = "sent")
  BY <1>2, <1>3, <1>4
<1> QED BY <1>1, <1>5 DEF OrderOK

\* The link and the host.
LEMMA HostUpdates ==
    ASSUME UpdateIInv,
           \/ HostLinkUp \/ (\E relay \in BOOLEAN : LinkDrops(relay))
           \/ HostHearsOrder \/ HostHearsCancel \/ HostSets \/ HostRestarts \/ HostPumps
    PROVE  UpdateIInv'
<1> USE DEF UpdateIInv, hostVars
<1>1. CASE HostLinkUp
  <2>1. LinesOK'
    BY <1>1 DEF HostLinkUp, LinesOK, ToMac
  <2> QED BY <1>1, <2>1 DEF HostLinkUp, RunOK, OrderOK
<1>2. ASSUME NEW relay \in BOOLEAN, LinkDrops(relay) PROVE UpdateIInv'
  <2>1. LinesOK' /\ mac' \in MacType /\ OrderOK(mac') /\ (mac'.upd.step = "sent" => mac'.upd.lost)
    BY <1>2, GoneLoses DEF LinkDrops
  <2>2. RunOK'
    BY <1>2 DEF LinkDrops, RunOK, RunType
  <2>3. drops' \in 0 .. MaxDrops
    BY <1>2, HostUpdateAssumption DEF LinkDrops
  <2> QED BY <1>2, <2>1, <2>2, <2>3 DEF LinkDrops
<1>3. CASE HostHearsOrder
  <2>1. RunOK' /\ orderRun'.seq > 0 /\ pumped' = 0
    <3>1. CASE HostIdle
      <4>1. orderRun' = [step |-> "checking", cancel |-> FALSE, seq |-> 1] /\ drives' = drives + 1
        BY <1>3, <3>1 DEF HostHearsOrder, NoOrder
      <4>2. drives = 0
        BY <3>1 DEF HostIdle, RunOK, Active, Over
      <4>3. orderRun' \in RunType /\ orderRun'.step = "checking" /\ orderRun'.seq = 1
        BY <4>1 DEF RunType, Active, Progress
      <4>4. drives' = IF orderRun'.step \in Active THEN 1 ELSE 0
        BY <4>1, <4>2, <4>3 DEF Active
      <4>5. pumped' = 0 /\ 0 \in 0 .. 1
        BY <1>3 DEF HostHearsOrder, PumpedAfterOrder
      <4> QED BY <4>3, <4>4, <4>5 DEF RunOK
    <3>2. CASE ~HostIdle
      <4>1. orderRun' = [orderRun EXCEPT !.seq = @ + 1] /\ drives' = drives
        BY <1>3, <3>2 DEF HostHearsOrder
      <4>2. orderRun.step # "none"
        BY <3>2 DEF HostIdle
      <4> QED BY <1>3, <4>1, <4>2 DEF HostHearsOrder, PumpedAfterOrder, RunOK, RunType
    <3> QED BY <3>1, <3>2
  <2>2. LinesOK'
    BY <1>3, TailCarries DEF HostHearsOrder, LinesOK
  <2>3. AnswerComes'
    BY <2>1 DEF AnswerComes, ToPump
  <2> QED BY <1>3, <2>1, <2>2, <2>3 DEF HostHearsOrder, OrderOK
<1>4. CASE HostHearsCancel
  <2>1. RunOK' /\ orderRun'.seq = orderRun.seq
    BY <1>4 DEF HostHearsCancel, RunOK, RunType
  <2>2. LinesOK' /\ (Carries(outbound, {"order"}) => Carries(outbound', {"order"}))
    BY <1>4, TailCarries DEF HostHearsCancel, LinesOK
  <2>3. AnswerComes => AnswerComes'
    BY <1>4, <2>1, <2>2 DEF HostHearsCancel, AnswerComes, ToPump
  <2> QED BY <1>4, <2>1, <2>2, <2>3 DEF HostHearsCancel, OrderOK
<1>5. CASE HostSets
  <2>1. RunOK' /\ orderRun'.seq = orderRun.seq + 1 /\ pumped' = pumped
    <3>1. PICK s \in NextSteps :
             /\ orderRun' = [orderRun EXCEPT !.step = s, !.seq = @ + 1]
             /\ drives' = IF s \in Over THEN drives - 1 ELSE drives
      BY <1>5 DEF HostSets
    <3>2. s \in Progress /\ orderRun.step \in Active
      BY DEF NextSteps, Active, Over, Progress
    <3>3. /\ orderRun'.step = s /\ orderRun'.seq = orderRun.seq + 1
          /\ orderRun' \in RunType
      <4>1. PICK n \in Nat : n = orderRun.seq + 1
        BY DEF RunOK, RunType
      <4>2. orderRun \in RunType
        BY DEF RunOK
      <4>3. orderRun' = [orderRun EXCEPT !.step = s, !.seq = n]
        BY <3>1, <4>1
      <4>4. orderRun' \in RunType /\ orderRun'.step = s /\ orderRun'.seq = n
        BY <3>2, <4>2, <4>3 DEF RunType
      <4> QED BY <4>1, <4>4
    <3>4. drives' = IF s \in Active THEN 1 ELSE 0
      BY <3>1, <3>2 DEF RunOK, Active, Over, Progress
    <3>5. s # "none"
      BY <3>2 DEF Active, Over, Progress
    <3>6. pumped' = pumped /\ orderRun.seq \in Nat /\ pumped \in 0 .. orderRun.seq
      BY <1>5 DEF HostSets, RunOK, RunType
    <3>7. pumped' \in 0 .. orderRun'.seq
      BY <3>3, <3>6
    <3> QED BY <3>3, <3>4, <3>5, <3>6, <3>7 DEF RunOK
  <2>2. AnswerComes'
    BY <2>1 DEF RunOK, RunType, AnswerComes, ToPump
  <2> QED BY <1>5, <2>1, <2>2 DEF HostSets, LinesOK, OrderOK
<1>6. CASE HostRestarts
  <2>1. LinesOK' /\ mac' \in MacType /\ OrderOK(mac') /\ (mac'.upd.step = "sent" => mac'.upd.lost)
    BY <1>6, GoneLoses DEF HostRestarts
  <2>2. RunOK'
    BY <1>6 DEF HostRestarts, RunOK, RunType, NoOrder, Active
  <2> QED BY <1>6, <2>1, <2>2 DEF HostRestarts
<1>7. CASE HostPumps
  <2>1. orderRun.step \in Progress
    BY <1>7 DEF HostPumps, ToPump, RunOK, RunType
  <2>2. LinesOK' /\ Carries(inbound', Progress)
    BY <1>7, <2>1, AppendCarries DEF HostPumps, LinesOK, ToMac
  <2>3. RunOK'
    BY <1>7 DEF HostPumps, RunOK, RunType
  <2> QED BY <1>7, <2>2, <2>3 DEF HostPumps, AnswerComes, OrderOK
<1> QED BY <1>1, <1>2, <1>3, <1>4, <1>5, <1>6, <1>7

\* What the Mac hears.
LEMMA MacHears ==
    ASSUME UpdateIInv, MacWelcomed \/ MacRefused \/ MacIsBehind \/ MacHearsProgress
    PROVE  UpdateIInv'
<1> USE DEF UpdateIInv, hostVars
<1>0. RunOK'
  BY DEF RunOK, MacWelcomed, MacRefused, MacIsBehind, MacHearsProgress
<1>1. CASE MacWelcomed
  <2>1. LinesOK' /\ (Carries(inbound, Progress) => Carries(inbound', Progress))
    <3>1. "welcome" \notin Progress
      BY DEF Progress, Active, Over
    <3>2. inbound' = Tail(inbound) /\ inbound # <<>> /\ Head(inbound) \notin Progress
      BY <1>1, <3>1 DEF MacWelcomed
    <3>3. /\ inbound' \in Seq(ToMac)
          /\ Carries(inbound, Progress) => Carries(inbound', Progress)
      BY <3>2, TailCarries DEF LinesOK
    <3> QED BY <1>1, <3>3 DEF MacWelcomed, LinesOK, Unchanged
  <2>2. AnswerComes => AnswerComes'
    BY <1>1, <2>1 DEF MacWelcomed, Unchanged, AnswerComes, ToPump
  <2>3. mac' \in MacType /\ mac'.upd.step \in {mac.upd.step, "done"}
    BY <1>1 DEF MacWelcomed, MacType, UpdateType, NoUpdate
  <2>4. mac'.upd = mac.upd \/ (mac'.upd.step = "done" /\ ~mac'.upd.silent)
    BY <1>1 DEF MacWelcomed, NoUpdate
  <2> QED BY <1>0, <1>1, <2>1, <2>2, <2>3, <2>4 DEF MacWelcomed, Unchanged, OrderOK
<1>2. CASE MacRefused
  <2>1. CASE OrderEnded(mac.upd)
    <3>1. mac' \in MacType /\ mac'.upd = mac.upd /\ mac'.upd.step # "sent"
      <4>1. mac' = [state |-> "error", upd |-> mac.upd]
        BY <1>2, <2>1 DEF MacRefused, OrderStopped
      <4> QED BY <2>1, <4>1 DEF MacType, OrderEnded, Over
    <3>2. LinesOK'
      BY <1>2, <2>1, DownCarries DEF MacRefused, LinkClosed
    <3> QED BY <1>0, <1>2, <2>1, <3>1, <3>2 DEF MacRefused, OrderOK
  <2>2. CASE ~OrderEnded(mac.upd)
    <3>1. /\ inbound' \in Seq(ToMac)
          /\ Carries(inbound, Progress) => Carries(inbound', Progress)
      <4>1. "refused" \notin Progress
        BY DEF Progress, Active, Over
      <4>2. inbound' = Tail(inbound) /\ inbound # <<>> /\ Head(inbound) \notin Progress
        BY <1>2, <2>2, <4>1 DEF MacRefused
      <4> QED BY <4>2, TailCarries DEF LinesOK
    <3>2. CASE mac.upd.step = "none"
      <4>1. outbound' \in Seq(ToHost) /\ Carries(outbound', {"order"})
        <5>1. outbound' = Append(outbound, "order")
          BY <1>2, <2>2, <3>2 DEF MacRefused
        <5> QED BY <5>1, AppendCarries DEF LinesOK, ToHost
      <4>2. mac' = [state |-> "updating", upd |-> NewUpdate]
        BY <1>2, <2>2, <3>2 DEF MacRefused
      <4>3. mac' \in MacType /\ OrderOK(mac')
        BY <4>2 DEF MacType, UpdateType, NewUpdate, NoUpdate, OrderOK
      <4>4. orders' \in 0 .. MaxOrders
        BY <1>2, <2>2, <3>2, HostUpdateAssumption DEF MacRefused
      <4> QED BY <1>0, <1>2, <2>2, <3>1, <4>1, <4>3, <4>4 DEF MacRefused, LinesOK, AnswerComes
    <3>3. CASE mac.upd.step # "none"
      <4>1. mac' = [state |-> "updating", upd |-> mac.upd] /\ UNCHANGED <<outbound, orders, linked>>
        BY <1>2, <2>2, <3>3 DEF MacRefused
      <4>2. mac' \in MacType /\ mac'.upd = mac.upd
        BY <4>1 DEF MacType
      <4>3. AnswerComes => AnswerComes'
        BY <1>2, <3>1, <4>1 DEF MacRefused, AnswerComes, ToPump
      <4> QED BY <1>0, <1>2, <3>1, <4>1, <4>2, <4>3 DEF MacRefused, LinesOK, OrderOK
    <3> QED BY <3>2, <3>3
  <2> QED BY <2>1, <2>2
<1>3. CASE MacIsBehind
  <2>1. /\ mac' \in MacType /\ mac'.upd.step \in {"done", "none"}
        /\ mac'.upd.silent => mac'.upd.lost
    BY <1>3 DEF MacIsBehind, OrderStopped, DoneBy, MacType, UpdateType, NoUpdate, OrderOK
  <2>2. LinesOK'
    BY <1>3, DownCarries DEF MacIsBehind, LinkClosed
  <2> QED BY <1>0, <1>3, <2>1, <2>2 DEF MacIsBehind, OrderOK
<1>4. CASE MacHearsProgress
  <2> DEFINE u == [mac.upd EXCEPT !.step = Head(inbound), !.silent = FALSE]
  <2>1. u \in UpdateType /\ u.step \in Progress /\ ~u.silent
    BY <1>4 DEF MacHearsProgress, MacType, UpdateType, Progress
  <2>2. u.step # "sent"
    BY <2>1 DEF Progress, Active, Over
  <2> HIDE DEF u
  <2>3. \/ LinkGone([mac EXCEPT !.upd = u])
        \/ OrderStopped(u) /\ LinkClosed
        \/ mac' = [mac EXCEPT !.upd = u] /\ inbound' = Tail(inbound) /\ Unchanged
    BY <1>4 DEF MacHearsProgress, u
  <2>4. /\ [mac EXCEPT !.upd = u] \in MacType /\ [mac EXCEPT !.upd = u].upd = u
        /\ [state |-> "error", upd |-> u] \in MacType
    BY <2>1 DEF MacType
  <2>5. /\ LinesOK' /\ mac' \in MacType /\ OrderOK(mac')
        /\ mac'.upd.step = "sent" => mac'.upd.lost
    <3>1. CASE LinkGone([mac EXCEPT !.upd = u])
      <4>1. OrderOK([mac EXCEPT !.upd = u])
        BY <2>1, <2>2, <2>4 DEF OrderOK
      <4> QED BY <2>4, <3>1, <4>1, GoneLoses
    <3>2. CASE OrderStopped(u) /\ LinkClosed
      <4>1. LinesOK'
        BY <3>2, DownCarries DEF LinkClosed
      <4> QED BY <2>1, <2>2, <2>4, <3>2, <4>1 DEF OrderStopped, OrderOK
    <3>3. CASE mac' = [mac EXCEPT !.upd = u] /\ inbound' = Tail(inbound) /\ Unchanged
      <4>1. LinesOK'
        BY <1>4, <3>3, TailCarries DEF MacHearsProgress, LinesOK, Unchanged
      <4> QED BY <2>1, <2>2, <2>4, <3>3, <4>1 DEF OrderOK
    <3> QED BY <2>3, <3>1, <3>2, <3>3
  <2> QED BY <1>0, <1>4, <2>5 DEF MacHearsProgress
<1> QED BY <1>1, <1>2, <1>3, <1>4

\* What the Mac does.
LEMMA MacUpdates ==
    ASSUME UpdateIInv, MacOrders \/ MacCancels \/ MacReconnects \/ AnswerIsLate \/ MacGivesUp
    PROVE  UpdateIInv'
<1> USE DEF UpdateIInv, hostVars
<1>0. RunOK'
  BY DEF RunOK, MacOrders, MacCancels, MacReconnects, AnswerIsLate, MacGivesUp
<1>1. CASE MacOrders
  <2>1. LinesOK' /\ Carries(outbound', {"order"})
    BY <1>1, AppendCarries DEF MacOrders, LinesOK, ToHost
  <2>2. NewUpdate \in UpdateType /\ ~NewUpdate.late /\ ~NewUpdate.silent
    BY DEF NewUpdate, NoUpdate, UpdateType
  <2>3. mac' \in MacType /\ OrderOK(mac')
    BY <1>1, <2>2 DEF MacOrders, MacType, OrderOK
  <2>4. orders' \in 0 .. MaxOrders
    BY <1>1, HostUpdateAssumption DEF MacOrders
  <2> QED BY <1>0, <1>1, <2>1, <2>3, <2>4 DEF MacOrders, AnswerComes
<1>2. CASE MacCancels
  <2>1. LinesOK' /\ (Carries(outbound, {"order"}) => Carries(outbound', {"order"}))
    BY <1>2, AppendCarries DEF MacCancels, LinesOK, ToHost
  <2>2. AnswerComes => AnswerComes'
    BY <1>2, <2>1 DEF MacCancels, AnswerComes, ToPump
  <2> QED BY <1>0, <1>2, <2>1, <2>2 DEF MacCancels, OrderOK
<1>3. CASE MacReconnects
  <2>1. mac' \in MacType /\ mac'.upd.step = "none" /\ ~mac'.upd.silent
    BY <1>3 DEF MacReconnects, MacType, UpdateType, NoUpdate
  <2>2. drops' \in 0 .. MaxDrops
    BY <1>3, HostUpdateAssumption DEF MacReconnects
  <2>3. LinesOK'
    BY <1>3, DownCarries DEF MacReconnects, LinkClosed
  <2> QED BY <1>0, <1>3, <2>1, <2>2, <2>3 DEF MacReconnects, OrderOK
<1>4. CASE AnswerIsLate
  <2>1. mac.upd.lost
    <3>1. SUFFICES ASSUME ~mac.upd.lost PROVE FALSE
      OBVIOUS
    <3>2. linked /\ AnswerComes /\ outbound = <<>> /\ inbound = <<>> /\ ~ToPump
      BY <1>4, <3>1 DEF AnswerIsLate
    <3> QED BY <3>2 DEF AnswerComes, Carries
  <2>2. /\ mac' \in MacType /\ mac'.upd.lost /\ (mac'.upd.silent <=> mac.upd.silent)
    BY <1>4, <2>1 DEF AnswerIsLate, MacType, UpdateType
  <2> QED BY <1>0, <1>4, <2>2 DEF AnswerIsLate, LinesOK, OrderOK
<1>5. CASE MacGivesUp
  <2> DEFINE u == [mac.upd EXCEPT !.step = "error", !.silent = TRUE]
  <2>1. u \in UpdateType /\ u.step = "error" /\ u.lost
    BY <1>5 DEF MacGivesUp, MacType, UpdateType, OrderOK, Progress, Over
  <2> HIDE DEF u
  <2>2. \/ OrderStopped(u) /\ LinkClosed
        \/ mac' = [mac EXCEPT !.upd = u] /\ Unchanged /\ UNCHANGED inbound
    BY <1>5 DEF MacGivesUp, u
  <2>3. mac' \in MacType /\ mac'.upd = u
    BY <2>1, <2>2 DEF OrderStopped, MacType
  <2>4. LinesOK'
    BY <2>2, DownCarries DEF LinkClosed, Unchanged, LinesOK
  <2> QED BY <1>0, <1>5, <2>1, <2>3, <2>4 DEF MacGivesUp, OrderOK
<1> QED BY <1>1, <1>2, <1>3, <1>4, <1>5

\* client.rs: a host that knows remote updates is never said not to answer unless the order
\* or its answer went with a link, however the order, its progress, the waits and the losses
\* interleave; and one thread drives the one run that is recorded.
THEOREM SilenceMeansLoss == HostUpdateSpec => []HostUpdateInv
<1>1. UpdateIInv /\ [HostUpdateNext]_hostUpdateVars => UpdateIInv'
  <2> SUFFICES ASSUME UpdateIInv, [HostUpdateNext]_hostUpdateVars PROVE UpdateIInv'
    OBVIOUS
  <2>1. CASE UNCHANGED hostUpdateVars
    BY <2>1 DEF hostUpdateVars, hostVars, UpdateIInv, RunOK, LinesOK, OrderOK, AnswerComes, ToPump
  <2> QED BY <2>1, HostUpdates, MacHears, MacUpdates DEF HostUpdateNext
<1>2. UpdateIInv => HostUpdateInv
  BY DEF UpdateIInv, RunOK, RunType, LinesOK, OrderOK, MacType, UpdateType, Progress, HostUpdateInv,
     HostUpdateTypeOK, SilenceIsLoss
<1> QED BY <1>1, <1>2, HostUpdateStart, PTL DEF HostUpdateSpec
=============================================================================
