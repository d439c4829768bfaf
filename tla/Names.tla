------------------------------- MODULE Names -------------------------------
(***************************************************************************)
(* Who names a row: the user, the instance with hub_set_name, its spawner  *)
(* or Mulpex (state.rs, mcp.rs, hook.rs). A request to be renamed crosses  *)
(* from the helper to the app in a file that the poll loop reads and then  *)
(* removes, and the names that last live in the session store.             *)
(***************************************************************************)
EXTENDS Naturals, FiniteSets

CONSTANTS
    NamedRows,   \* the rows
    RowNames,    \* the names
    MaxRenames,  \* bound: what the user types
    MaxCalls,    \* bound: the calls of hub_set_name
    MaxNameRuns  \* bound: the starts of the app

VARIABLES
    rowNames,   \* names, name_by, manual_names and fallback_names, by row
    stored,     \* the session store
    flags,      \* named/<id>
    published,  \* the registry: the name and who gave it, as of the last tick
    requests,   \* namereq/<id>
    call,       \* the hub_set_name under way
    tick,       \* what the tick has read and not removed yet
    userGave,       \* row |-> the name the user gave it last
    wanted,     \* row |-> the name its instance asked for last
    lost,       \* the rows whose request went without being read in full
    renames, calls, nameRuns
nameVars == <<rowNames, stored, flags, published, requests, call, tick, userGave, wanted, lost, renames, calls, nameRuns>>

Nothing == "no name"
Half == "a file that was opened and not written yet"

\* A name is neither of the two.
ASSUME NamesAssumption ==
    {MaxRenames, MaxCalls, MaxNameRuns} \subseteq Nat /\ IsFiniteSet(NamedRows) /\ RowNames \cap {Nothing, Half} = {}

Unnamed == [name |-> Nothing, by |-> "nobody", manual |-> FALSE, guess |-> Nothing]
NoCall == [at |-> "idle", name |-> Nothing]
NoRead == [row |-> Nothing, name |-> Nothing]

\* name_row and its callers: a row of the user's, of a guide, spawned, or unnamed.
\* "nobody" is a name of a store that did not record who gave it.
NamedBy(n, b) == [Unnamed EXCEPT !.name = n, !.by = b, !.manual = b \in {"user", "nobody"}]
Born == {Unnamed} \cup {NamedBy(n, b) : n \in RowNames, b \in {"user", "auto", "spawn", "nobody"}}
Saved(r) == [name |-> r.name, by |-> r.by]

NamesInit ==
    /\ rowNames \in [NamedRows -> Born]
    /\ stored = [r \in NamedRows |-> Saved(rowNames[r])]
    /\ flags = {} /\ published = [r \in NamedRows |-> [name |-> Nothing, by |-> "nobody"]]
    /\ requests = [r \in NamedRows |-> Nothing] /\ call = [r \in NamedRows |-> NoCall] /\ tick = NoRead
    /\ userGave = [r \in NamedRows |-> IF rowNames[r].manual THEN rowNames[r].name ELSE Nothing]
    /\ wanted = [r \in NamedRows |-> Nothing] /\ lost = {}
    /\ renames = 0 /\ calls = 0 /\ nameRuns = 0

-----------------------------------------------------------------------------
DisplayName(r) == IF r.name # Nothing THEN r.name ELSE r.guess

\* name_source: a name nobody is recorded for is the user's.
NameSource(r) ==
    IF r.name # Nothing THEN IF r.by = "nobody" THEN "user" ELSE r.by
    ELSE IF r.guess # Nothing THEN "auto" ELSE "nobody"

Persisted == stored' = [r \in NamedRows |-> Saved(rowNames'[r])]

\* rename: clearing a name hands the row back to its instance.
Rename(i, n) ==
    /\ tick = NoRead /\ renames < MaxRenames /\ renames' = renames + 1
    /\ rowNames' = [rowNames EXCEPT ![i] =
                       IF n = Nothing THEN Unnamed
                       ELSE [name |-> n, by |-> "user", manual |-> TRUE, guess |-> Nothing]]
    /\ flags' = IF n = Nothing THEN flags \ {i} ELSE flags \cup {i}
    /\ userGave' = [userGave EXCEPT ![i] = n] /\ wanted' = [wanted EXCEPT ![i] = Nothing] /\ Persisted
    /\ UNCHANGED <<published, requests, call, tick, lost, calls, nameRuns>>

\* hub_set_name looks at the registry: a row the user named is refused, and flagged.
SetNameLooks(i, n) ==
    /\ call[i] = NoCall /\ calls < MaxCalls /\ calls' = calls + 1
    /\ IF published[i].by = "user" THEN flags' = flags \cup {i} /\ UNCHANGED call
       ELSE call' = [call EXCEPT ![i] = [at |-> "open", name |-> n]] /\ UNCHANGED flags
    /\ UNCHANGED <<rowNames, stored, published, requests, tick, userGave, wanted, lost, renames, nameRuns>>

\* fs::write opens and truncates the file, and then fills it, if it is still there.
SetNameOpens(i) ==
    /\ call[i].at = "open" /\ call' = [call EXCEPT ![i].at = "write"]
    /\ requests' = [requests EXCEPT ![i] = Half] /\ lost' = lost \ {i}
    /\ wanted' = [wanted EXCEPT ![i] = call[i].name]
    /\ UNCHANGED <<rowNames, stored, flags, published, tick, userGave, renames, calls, nameRuns>>
SetNameWrites(i) ==
    /\ call[i].at = "write" /\ call' = [call EXCEPT ![i].at = "mark"]
    /\ requests' = [requests EXCEPT ![i] = IF @ = Half THEN call[i].name ELSE @]
    /\ lost' = IF requests[i] = Half THEN lost ELSE lost \cup {i}
    /\ UNCHANGED <<rowNames, stored, flags, published, tick, userGave, wanted, renames, calls, nameRuns>>

\* mark_named, and the answer: "Your sidebar row is renamed."
SetNameMarks(i) ==
    /\ call[i].at = "mark" /\ call' = [call EXCEPT ![i] = NoCall] /\ flags' = flags \cup {i}
    /\ UNCHANGED <<rowNames, stored, published, requests, tick, userGave, wanted, lost, renames, calls, nameRuns>>

-----------------------------------------------------------------------------
(* The poll loop, under the workspace's lock.                               *)

TickReads(i) ==
    /\ tick = NoRead /\ requests[i] # Nothing
    /\ tick' = [row |-> i, name |-> requests[i]]
    /\ UNCHANGED <<rowNames, stored, flags, published, requests, call, userGave, wanted, lost, renames, calls, nameRuns>>

\* Mutant: the instance's name replaces the user's.
Refused_Never(r, n) == n = Half \/ r.name = n

\* name_verdict: the user's name stays, and a name the row has is no change.
Refused(r, n) == r.manual \/ n = Half \/ r.name = n

\* process_name_requests: the request is removed whatever it asks for.
TickApplies ==
    /\ tick # NoRead /\ requests' = [requests EXCEPT ![tick.row] = Nothing] /\ tick' = NoRead
    /\ rowNames' = IF Refused(rowNames[tick.row], tick.name) THEN rowNames
                   ELSE [rowNames EXCEPT ![tick.row] =
                            [@ EXCEPT !.name = tick.name, !.by = "instance", !.guess = Nothing]]
    /\ lost' = IF requests[tick.row] = tick.name /\ tick.name # Half THEN lost ELSE lost \cup {tick.row}
    /\ Persisted
    /\ UNCHANGED <<flags, published, call, userGave, wanted, renames, calls, nameRuns>>

Unlabelled(r) == DisplayName(r) = Nothing

\* apply_fallback_names: a row that is not working and has a task gets a label of it.
TickGuesses(i, n) ==
    /\ tick = NoRead /\ Unlabelled(rowNames[i])
    /\ rowNames' = [rowNames EXCEPT ![i].guess = n]
    /\ UNCHANGED <<stored, flags, published, requests, call, tick, userGave, wanted, lost, renames, calls, nameRuns>>

TickTells ==
    /\ tick = NoRead
    /\ published' = [r \in NamedRows |-> [name |-> DisplayName(rowNames[r]), by |-> NameSource(rowNames[r])]]
    /\ published' # published
    /\ UNCHANGED <<rowNames, stored, flags, requests, call, tick, userGave, wanted, lost, renames, calls, nameRuns>>

-----------------------------------------------------------------------------
Manual(s) == s.name # Nothing /\ s.by \in {"user", "nobody"}

\* The app ends and restores the rows: a new state dir, so no request and no flag is left,
\* and the names the user gave are flagged again.
Relaunches ==
    /\ nameRuns < MaxNameRuns /\ nameRuns' = nameRuns + 1
    /\ rowNames' = [r \in NamedRows |-> [name |-> stored[r].name, by |-> stored[r].by,
                                         manual |-> Manual(stored[r]), guess |-> Nothing]]
    /\ flags' = {r \in NamedRows : Manual(stored[r])}
    /\ requests' = [r \in NamedRows |-> Nothing] /\ call' = [r \in NamedRows |-> NoCall] /\ tick' = NoRead
    /\ published' = [r \in NamedRows |-> [name |-> Nothing, by |-> "nobody"]]
    /\ wanted' = [r \in NamedRows |-> Nothing] /\ lost' = {} /\ Persisted
    /\ UNCHANGED <<userGave, renames, calls>>

NamesNext ==
    \/ \E i \in NamedRows, n \in RowNames \cup {Nothing} : Rename(i, n)
    \/ \E i \in NamedRows, n \in RowNames : SetNameLooks(i, n) \/ TickGuesses(i, n)
    \/ \E i \in NamedRows : SetNameOpens(i) \/ SetNameWrites(i) \/ SetNameMarks(i) \/ TickReads(i)
    \/ TickApplies \/ TickTells \/ Relaunches

NamesSpec == NamesInit /\ [][NamesNext]_nameVars

\* The poll loop runs, and a helper that was called answers.
NamesFair ==
    /\ WF_nameVars(TickApplies) /\ WF_nameVars(TickTells)
    /\ \A i \in NamedRows : WF_nameVars(TickReads(i))
    /\ \A i \in NamedRows : WF_nameVars(SetNameOpens(i)) /\ WF_nameVars(SetNameWrites(i)) /\ WF_nameVars(SetNameMarks(i))

NamesFairSpec == NamesSpec /\ NamesFair

-----------------------------------------------------------------------------
\* Every variable keeps its type, a row the user named has a name and is flagged, and a
\* guess stands only where there is no name.
NamesTypeOK ==
    /\ \A i \in NamedRows :
          LET r == rowNames[i]
          IN  /\ r.name \in RowNames \cup {Nothing} /\ r.guess \in RowNames \cup {Nothing}
              /\ r.manual => r.name # Nothing /\ r.by \in {"user", "nobody"}
              /\ r.guess # Nothing => r.name = Nothing
    /\ renames \in 0 .. MaxRenames /\ calls \in 0 .. MaxCalls /\ nameRuns \in 0 .. MaxNameRuns

\* state.rs rename "This also claims the row on the user's behalf": what the user called a
\* row is what it is called until the user renames or clears it, whichever requests were on
\* their way and however often the app was restarted.
UserNameStays == \A i \in NamedRows : userGave[i] # Nothing => DisplayName(rowNames[i]) = userGave[i]

\* state.rs rename "Clearing the name hands it back": a row the user does not name is not
\* locked against the instance in it.
NobodyElseLocks == \A i \in NamedRows : rowNames[i].manual => userGave[i] # Nothing

\* mcp.rs "Your sidebar row is renamed": the name of the last call becomes the row's own
\* name, unless the user names the row, or the file was removed before it was read.
RequestLands ==
    \A i \in NamedRows : []<>(wanted[i] \in {Nothing, rowNames[i].name} \/ userGave[i] # Nothing \/ i \in lost)

\* The name the user gave a row is the one it keeps, and nobody but the user locks a name
\* (name_row, hub_set_name).
NamesInv == NamesTypeOK /\ UserNameStays /\ NobodyElseLocks
=============================================================================
