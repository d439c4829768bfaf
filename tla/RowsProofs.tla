----------------------------- MODULE RowsProofs -----------------------------
(***************************************************************************)
(* What holds of the rows for any number of rows, conversations, launches  *)
(* and events: the types; that the published peers can answer; that no     *)
(* conversation gets a second row, unless the app died with its manifest   *)
(* out of date; and that the store forgets no conversation before its row  *)
(* has left it.                                                            *)
(***************************************************************************)
EXTENDS Rows, TLAPS

\* What the poll loop and the app's end write has the type of a store.
LEMMA StoredType ==
    ASSUME NEW S \in SUBSET Id, NEW W \in SUBSET Id,
           NEW cv \in [Id -> Conv \cup {Empty}], NEW kept \in SUBSET SessionRecord
    PROVE  Stored(S, W, cv, kept) \in SUBSET SessionRecord
BY DEF Stored, SessionRecord, Id

\* So has what it writes to the manifest.
LEMMA RowsType ==
    ASSUME RowsTypeOK
    PROVE  Rows \subseteq [id : Id, conv : Conv \cup {Empty}, worked : BOOLEAN]
<1> SUFFICES ASSUME NEW i \in sessions
             PROVE  [id |-> i, conv |-> conv[i], worked |-> i \in worked]
                      \in [id : Id, conv : Conv \cup {Empty}, worked : BOOLEAN]
  BY Zenon DEF Rows
<1>1. i \in Id /\ conv[i] \in Conv \cup {Empty}
  BY DEF RowsTypeOK
<1>2. (i \in worked) \in BOOLEAN
  OBVIOUS
<1> QED BY <1>1, <1>2, Zenon

\* Conversations and kinds that are started are of their types.
LEMMA StartType ==
    ASSUME RowsAssumption
    PROVE  /\ \A k \in AgentKind : FreshId(k) \subseteq Conv \cup {Empty}
           /\ \A c \in Conv : AgentOf(c) \in AgentKind
           /\ AgentKind \subseteq Kind /\ "shell" \in Kind
BY DEF RowsAssumption, AgentKind, FreshId, Conv, AgentOf, Kind

\* Starting, or respawning, keeps the types of what it sets.
LEMMA StartTypes ==
    ASSUME RowsTypeOK, NEW i \in Id, NEW k \in Kind, NEW c \in Conv \cup {Empty},
           Start(i, k, c)
    PROVE  /\ kind' \in [Id -> Kind]
           /\ conv' \in [Id -> Conv \cup {Empty}] /\ on' \in [Id -> Conv \cup {Empty}]
           /\ alive' \in SUBSET Id /\ lost' \in SUBSET Id
BY DEF RowsTypeOK, Start

LEMMA RespawnTypes ==
    ASSUME RowsTypeOK, NEW i \in Id, NEW k \in Kind, NEW c \in Conv \cup {Empty},
           NEW resume, NEW starts,
           Respawn(i, k, c, resume, starts)
    PROVE  /\ kind' \in [Id -> Kind]
           /\ conv' \in [Id -> Conv \cup {Empty}] /\ on' \in [Id -> Conv \cup {Empty}]
           /\ alive' \in SUBSET Id /\ lost' \in SUBSET Id
           /\ young' \in SUBSET Id /\ restored' \in SUBSET Id
           /\ status' \in SUBSET Id /\ sid' \in [Id -> Conv \cup {Empty}]
           /\ failed' \in SUBSET Id /\ list' \in SUBSET Id
<1>1. /\ young' \in SUBSET Id /\ restored' \in SUBSET Id
      /\ status' \in SUBSET Id /\ sid' \in [Id -> Conv \cup {Empty}]
  BY DEF RowsTypeOK, Respawn
<1>2. CASE starts
  <2>1. Start(i, k, c) /\ failed' = failed \ {i}
        /\ list' = Peers(sessions, kind', failed', saving')
    BY <1>2, Zenon DEF Respawn
  <2> QED BY <1>1, <2>1, StartTypes DEF RowsTypeOK, Peers
<1>3. CASE ~starts
  <2>1. Stopped({i}) /\ UNCHANGED <<kind, conv, lost, failed, list>>
    BY <1>3, Zenon DEF Respawn
  <2> QED BY <1>1, <2>1 DEF RowsTypeOK, Stopped
<1> QED BY <1>2, <1>3

\* Every step keeps the types.
LEMMA TypeStep ==
    ASSUME RowsAssumption, RowsTypeOK, [RowsNext]_rowsVars
    PROVE  RowsTypeOK'
<1> USE RowsAssumption, StartType DEF RowsTypeOK, memory, daemon, scratch, Id
<1>1. ASSUME NEW k \in AgentKind, SpawnAgent(k), events' \in 0 .. MaxEvents  PROVE RowsTypeOK'
  <2>1. PICK c \in FreshId(k) : Start(nextId, k, c)
    BY <1>1 DEF SpawnAgent
  <2>2. c \in Conv \cup {Empty} /\ nextId \in Id /\ nextId' \in 1 .. MaxId + 1
    BY <1>1, <2>1 DEF SpawnAgent, RowsAssumption
  <2>3. sessions' \in SUBSET Id /\ list' \in SUBSET Id
    BY <1>1, <2>2 DEF SpawnAgent, Peers
  <2> QED BY <1>1, <2>1, <2>2, <2>3 DEF SpawnAgent, Start
<1>2. ASSUME SpawnTerminal, events' \in 0 .. MaxEvents  PROVE RowsTypeOK'
  BY <1>2 DEF SpawnTerminal, Start
<1>3. ASSUME NEW c \in Conv, Continue(c), events' \in 0 .. MaxEvents  PROVE RowsTypeOK'
  <2>0. nextId \in Id /\ nextId' \in 1 .. MaxId + 1 /\ AgentOf(c) \in Kind
    BY <1>3 DEF Continue, RowsAssumption, AgentOf, Kind, AgentKind
  <2>1. sessions' \in SUBSET Id /\ list' \in SUBSET Id
    BY <1>3, <2>0 DEF Continue, Peers
  <2>2. c \in Conv \cup {Empty}
    OBVIOUS
  <2>3. Start(nextId, AgentOf(c), c)
    BY <1>3 DEF Continue
  <2> QED BY <1>3, <2>0, <2>1, <2>2, <2>3, StartTypes DEF Continue
<1>4. ASSUME NEW i \in Id, CloseRow(i), events' \in 0 .. MaxEvents  PROVE RowsTypeOK'
  BY <1>4 DEF CloseRow, Stopped
<1>5. ASSUME NEW i \in Id, BeginSave(i), events' \in 0 .. MaxEvents  PROVE RowsTypeOK'
  <2>1. list' \in SUBSET Id
    BY <1>5 DEF BeginSave, Peers
  <2> QED BY <1>5, <2>1 DEF BeginSave, Stopped
<1>6. ASSUME NEW i \in Id, SaveSucceeded(i), events' \in 0 .. MaxEvents  PROVE RowsTypeOK'
  <2>1. store' \in SUBSET SessionRecord
    BY <1>6, StoredType DEF SaveSucceeded
  <2> QED BY <1>6, <2>1 DEF SaveSucceeded
<1>7. ASSUME NEW i \in Id, RestartRow(i), events' \in 0 .. MaxEvents  PROVE RowsTypeOK'
  <2>1. PICK c \in Conv \cup {Empty}, starts \in BOOLEAN, resume \in BOOLEAN :
          Respawn(i, kind[i], c, resume, starts)
    BY <1>7, Zenon DEF RestartRow, IsAgent
  <2>2. kind[i] \in Kind
    OBVIOUS
  <2>3. /\ kind' \in [Id -> Kind]
        /\ conv' \in [Id -> Conv \cup {Empty}] /\ on' \in [Id -> Conv \cup {Empty}]
        /\ alive' \in SUBSET Id /\ lost' \in SUBSET Id
        /\ young' \in SUBSET Id /\ restored' \in SUBSET Id
        /\ status' \in SUBSET Id /\ sid' \in [Id -> Conv \cup {Empty}]
        /\ failed' \in SUBSET Id /\ list' \in SUBSET Id
    BY <2>1, <2>2, RespawnTypes, Zenon
  <2> QED BY <1>7, <2>3 DEF RestartRow
<1>8. ASSUME NEW i \in Id, Replace(i), events' \in 0 .. MaxEvents  PROVE RowsTypeOK'
  <2>1. CASE UNCHANGED <<young, restored, status, kind, conv, on, alive, lost, failed, list>>
             /\ sid' = [sid EXCEPT ![i] = Empty]
    BY <1>8, <2>1 DEF Replace
  <2>2. ASSUME NEW other \in AgentKind, NEW c \in FreshId(other), NEW starts \in BOOLEAN,
               Respawn(i, other, c, FALSE, starts)
        PROVE  RowsTypeOK'
    <3>1. other \in Kind /\ c \in Conv \cup {Empty}
      OBVIOUS
    <3>2. /\ kind' \in [Id -> Kind]
          /\ conv' \in [Id -> Conv \cup {Empty}] /\ on' \in [Id -> Conv \cup {Empty}]
          /\ alive' \in SUBSET Id /\ lost' \in SUBSET Id
          /\ young' \in SUBSET Id /\ restored' \in SUBSET Id
          /\ status' \in SUBSET Id /\ sid' \in [Id -> Conv \cup {Empty}]
          /\ failed' \in SUBSET Id /\ list' \in SUBSET Id
      BY <2>2, <3>1, RespawnTypes, Zenon
    <3> QED BY <1>8, <3>2 DEF Replace
  <2> QED BY ZenonT(30), <1>8, <2>1, <2>2 DEF Replace, AgentKind
<1>9. ASSUME NEW i \in Id, NEW c \in Conv, Switch(i, c), events' \in 0 .. MaxEvents
      PROVE  RowsTypeOK'
  BY <1>9 DEF Switch, AppUnaware
<1>10. ASSUME Crash, events' \in 0 .. MaxEvents  PROVE RowsTypeOK'
  BY <1>10 DEF Crash, Gone
<1>11. ASSUME DaemonDies, events' \in 0 .. MaxEvents  PROVE RowsTypeOK'
  BY <1>11 DEF DaemonDies, Stopped
<1>12. ASSUME Reap, UNCHANGED events  PROVE RowsTypeOK'
  <2> DEFINE removed == {i \in sessions : Removable(i)}
             marked == {i \in sessions : NeedsFailureMark(i)}
             kept == {[id |-> i, conv |-> conv[i]] : i \in {j \in removed : LostRestore(j)}}
  <2>1. CASE removed \cup marked = {}
    BY <1>12, <2>1 DEF Reap
  <2>2. CASE removed \cup marked # {}
    <3>1. kept \in SUBSET SessionRecord
      BY DEF LostRestore, SessionRecord
    <3>2. /\ sessions' \in SUBSET Id /\ worked' \in SUBSET Id /\ saving' \in SUBSET Id
          /\ closing' \in SUBSET Id /\ young' \in SUBSET Id /\ failed' \in SUBSET Id
          /\ lost' \in SUBSET Id
      BY <1>12, <2>2 DEF Reap
    <3>3. sticky' \in SUBSET SessionRecord
      BY <1>12, <2>2, <3>1 DEF Reap
    <3>4. store' \in SUBSET SessionRecord
      BY <1>12, <2>2, <3>2, <3>3, StoredType DEF Reap
    <3>5. list' \in SUBSET Id
      BY <1>12, <2>2, <3>2 DEF Reap, Peers
    <3>6. conv' \in [Id -> Conv \cup {Empty}] /\ sid' \in [Id -> Conv \cup {Empty}]
          /\ status' \in SUBSET Id
      BY <1>12, <2>2 DEF Reap, Forget
    <3> QED BY <1>12, <2>2, <3>2, <3>3, <3>4, <3>5, <3>6 DEF Reap
  <2> QED BY <2>1, <2>2
<1>13. ASSUME RefreshWorked, UNCHANGED events  PROVE RowsTypeOK'
  <2>1. store' \in SUBSET SessionRecord
    BY <1>13, StoredType DEF RefreshWorked
  <2> QED BY <1>13, <2>1 DEF RefreshWorked
<1>14. ASSUME ReadReports, UNCHANGED events  PROVE RowsTypeOK'
  BY <1>14 DEF ReadReports, SessionRecord
<1>15. ASSUME Reconciled, UNCHANGED events  PROVE RowsTypeOK'
  <2>1. store' \in SUBSET SessionRecord
    BY <1>15, StoredType DEF Reconciled
  <2> QED BY <1>15, <2>1 DEF Reconciled
<1>16. ASSUME SyncManifest, UNCHANGED events  PROVE RowsTypeOK'
  <2>1. Rows \subseteq [id : Id, conv : Conv \cup {Empty}, worked : BOOLEAN]
    BY RowsType
  <2> QED BY <1>16, <2>1 DEF SyncManifest
<1>17. ASSUME NEW r \in todo, Reconcile(r), UNCHANGED events  PROVE RowsTypeOK'
  BY <1>17 DEF Reconcile, SessionRecord
<1>18. ASSUME Opened, UNCHANGED events  PROVE RowsTypeOK'
  <2>1. store' \in SUBSET SessionRecord
    BY <1>18, StoredType DEF Opened
  <2>2. list' \in SUBSET Id
    BY <1>18 DEF Opened, Peers
  <2> QED BY <1>18, <2>1, <2>2 DEF Opened
<1>19. ASSUME NEW r \in todo, Resume(r), UNCHANGED events  PROVE RowsTypeOK'
  <2>1. r.id \in Id /\ r.conv \in Conv
    BY DEF SessionRecord
  <2>2. PICK i \in Id :
          \/ /\ Start(i, AgentOf(r.conv), r.conv)
             /\ sessions' = sessions \cup {i}
             /\ worked' = worked \cup {i}
             /\ restored' = restored \cup {i}
             /\ young' = young \cup {i}
             /\ UNCHANGED sticky
          \/ /\ sticky' = sticky \cup {[id |-> i, conv |-> r.conv]}
             /\ UNCHANGED <<sessions, worked, restored, young, kind, conv, alive,
                            lost, on>>
    BY <1>19 DEF Resume
  <2>3. [id |-> i, conv |-> r.conv] \in SessionRecord
    BY <2>1 DEF SessionRecord
  <2>4. AgentOf(r.conv) \in Kind
    BY DEF AgentOf, Kind, AgentKind
  <2>5. CASE Start(i, AgentOf(r.conv), r.conv) /\ UNCHANGED sticky
             /\ sessions' = sessions \cup {i} /\ worked' = worked \cup {i}
             /\ restored' = restored \cup {i} /\ young' = young \cup {i}
    BY <1>19, <2>1, <2>4, <2>5, StartTypes DEF Resume
  <2>6. CASE /\ sticky' = sticky \cup {[id |-> i, conv |-> r.conv]}
             /\ UNCHANGED <<sessions, worked, restored, young, kind, conv, alive,
                            lost, on>>
    BY <1>19, <2>3, <2>6 DEF Resume
  <2> QED BY <2>2, <2>5, <2>6, Zenon
<1>20. ASSUME Launch, UNCHANGED events  PROVE RowsTypeOK'
  <2>1. \A i \in Id : AdoptedConv(i) \in Conv \cup {Empty}
    <3> TAKE i \in Id
    <3>1. CASE Adopted(i) = {}
      BY <3>1 DEF AdoptedConv
    <3>2. CASE Adopted(i) # {}
      <4>1. (CHOOSE r \in Adopted(i) : TRUE) \in Adopted(i)
        BY <3>2
      <4> QED BY <3>2, <4>1 DEF AdoptedConv, Adopted
    <3> QED BY <3>1, <3>2
  <2>2. conv' \in [Id -> Conv \cup {Empty}] /\ on' \in [Id -> Conv \cup {Empty}]
    BY <1>20, <2>1 DEF Launch, Stopped
  <2>3. sid' \in [Id -> Conv \cup {Empty}]
    <3>1. sid' = sid \/ sid' = [i \in Id |-> Empty]
      BY <1>20, Zenon DEF Launch
    <3> QED BY <3>1
  <2>4. /\ sessions' \in SUBSET Id /\ worked' \in SUBSET Id /\ alive' \in SUBSET Id
        /\ todo' \in SUBSET SessionRecord
    BY <1>20 DEF Launch, Stopped
  <2>5. status' \in SUBSET Id /\ list' \in SUBSET Id
        /\ manifest' \subseteq [id : Id, conv : Conv \cup {Empty}, worked : BOOLEAN]
    <3>1. UNCHANGED <<status, list, manifest>> \/ (status' = {} /\ list' = {} /\ manifest' = {})
      BY <1>20, Zenon DEF Launch
    <3> QED BY <3>1
  <2> QED BY <1>20, <2>2, <2>3, <2>4, <2>5 DEF Launch
<1>21. ASSUME Quit, UNCHANGED events  PROVE RowsTypeOK'
  <2>1. /\ conv' \in [Id -> Conv \cup {Empty}] /\ on' \in [Id -> Conv \cup {Empty}]
        /\ sid' \in [Id -> Conv \cup {Empty}]
    BY <1>21 DEF Quit, Gone, Stopped
  <2>2. nextId' \in 1 .. MaxId + 1
    BY <1>21 DEF Quit, Gone, RowsAssumption
  <2> QED BY <1>21, <2>1, <2>2 DEF Quit, Gone, Stopped
<1>22. ASSUME Detach, UNCHANGED events  PROVE RowsTypeOK'
  <2>1. store' \in SUBSET SessionRecord
    BY <1>22, StoredType DEF Detach
  <2>2. manifest' \subseteq [id : Id, conv : Conv \cup {Empty}, worked : BOOLEAN]
    BY <1>22, RowsType DEF Detach
  <2>3. nextId' \in 1 .. MaxId + 1
    BY <1>22 DEF Detach, Gone, RowsAssumption
  <2> QED BY <1>22, <2>1, <2>2, <2>3 DEF Detach, Gone
<1>23. ASSUME NEW i \in Id, Prompt(i), UNCHANGED events  PROVE RowsTypeOK'
  BY <1>23 DEF Prompt, AppUnaware, Conv
<1>24. ASSUME NEW i \in Id, Report(i) \/ Exit(i) \/ Lapse(i), events' \in 0 .. MaxEvents
       PROVE  RowsTypeOK'
  BY <1>24 DEF Report, Exit, Lapse, Stopped, AppUnaware
<1>25. CASE UNCHANGED rowsVars
  BY <1>25 DEF rowsVars
<1>26. Operate \/ Accident => (events < MaxEvents /\ events' = events + 1 => events' \in 0 .. MaxEvents)
  OBVIOUS
<1> QED
  BY <1>1, <1>2, <1>3, <1>4, <1>5, <1>6, <1>7, <1>8, <1>9, <1>10, <1>11, <1>12, <1>13,
     <1>14, <1>15, <1>16, <1>17, <1>18, <1>19, <1>20, <1>21, <1>22, <1>23, <1>24, <1>25,
     <1>26
  DEF RowsNext, Operate, Accident, Poll, Restore

\* The state of the rows is always of its type.
THEOREM TypeCorrect == RowsSpec => []RowsTypeOK
<1>1. RowsInit => RowsTypeOK
  <2> SUFFICES ASSUME RowsInit PROVE RowsTypeOK
    OBVIOUS
  <2>1. /\ kind \in [Id -> Kind] /\ conv \in [Id -> Conv \cup {Empty}]
        /\ on \in [Id -> Conv \cup {Empty}] /\ sid \in [Id -> Conv \cup {Empty}]
    BY StartType, RowsAssumption DEF RowsInit
  <2>2. nextId \in 1 .. MaxId + 1 /\ launches \in 0 .. MaxLaunches /\ events \in 0 .. MaxEvents
    BY RowsAssumption DEF RowsInit, RowsAssumption
  <2> QED BY <2>1, <2>2 DEF RowsInit, RowsTypeOK
<1>2. RowsTypeOK /\ [RowsNext]_rowsVars => RowsTypeOK'
  BY RowsAssumption, TypeStep
<1> QED BY <1>1, <1>2, PTL DEF RowsSpec

-----------------------------------------------------------------------------
(* The published peers can answer.  While the app is up its list holds     *)
(* agents of open rows only, and no new row takes the number of an old     *)
(* one: a shell must not turn up under the number of a listed agent.       *)

PeersInv ==
    tick \notin {"down", "restoring"} =>
      /\ list \subseteq Peers(sessions, kind, failed, saving)
      /\ \A i \in sessions : i < nextId

\* Starting a row keeps a peer list that is written right after it.
LEMMA PeersRespawn ==
    ASSUME RowsTypeOK, PeersInv, tick = "idle", UNCHANGED <<tick, sessions, nextId>>,
           NEW i, NEW k, NEW c, NEW resume, NEW starts,
           Respawn(i, k, c, resume, starts),
           saving' \subseteq saving
    PROVE  PeersInv'
<1>1. CASE starts
  <2>1. list' = Peers(sessions, kind', failed', saving')
    BY <1>1, Zenon DEF Respawn
  <2> QED BY <2>1 DEF PeersInv
<1>2. CASE ~starts
  <2>1. UNCHANGED <<kind, failed, list>>
    BY <1>2, Zenon DEF Respawn
  <2> QED BY <2>1 DEF PeersInv, Peers
<1> QED BY <1>1, <1>2

LEMMA PeersStep ==
    ASSUME RowsAssumption, RowsTypeOK, PeersInv, [RowsNext]_rowsVars
    PROVE  PeersInv'
<1> USE DEF PeersInv, memory, daemon, scratch
<1>1. ASSUME NEW k \in AgentKind, SpawnAgent(k)  PROVE PeersInv'
  <2>1. list' = Peers(sessions', kind', failed', saving') /\ tick' = tick
        /\ tick \notin {"down", "restoring"}
    BY <1>1 DEF SpawnAgent
  <2>2. \A i \in sessions' : i < nextId'
    BY <1>1, <2>1 DEF SpawnAgent, RowsTypeOK, Id
  <2> QED BY <2>1, <2>2
<1>2. CASE SpawnTerminal
  <2>1. \A i \in list : i \in Id /\ i < nextId /\ kind'[i] = kind[i]
    BY <1>2 DEF SpawnTerminal, Start, RowsTypeOK, Peers, Id
  <2>2. \A i \in sessions' : i < nextId'
    BY <1>2 DEF SpawnTerminal, RowsTypeOK, Id
  <2> QED BY <1>2, <2>1, <2>2 DEF SpawnTerminal, Peers
<1>3. ASSUME NEW c \in Conv, Continue(c)  PROVE PeersInv'
  <2>1. list' = Peers(sessions', kind', failed', saving') /\ tick' = tick /\ tick = "idle"
    BY <1>3 DEF Continue, UserMayAct
  <2>2. \A i \in sessions' : i < nextId'
    BY <1>3, <2>1 DEF Continue, RowsTypeOK, Id
  <2> QED BY <2>1, <2>2
<1>4. ASSUME NEW i \in Id, CloseRow(i)  PROVE PeersInv'
  BY <1>4 DEF CloseRow, Peers
<1>5. ASSUME NEW i \in Id, BeginSave(i)  PROVE PeersInv'
  BY <1>5 DEF BeginSave, UserMayAct, Peers
<1>6. ASSUME NEW i \in Id, SaveSucceeded(i)  PROVE PeersInv'
  BY <1>6 DEF SaveSucceeded
<1>7. ASSUME NEW i \in Id, RestartRow(i)  PROVE PeersInv'
  <2>1. PICK c \in Conv \cup {Empty}, starts \in BOOLEAN, resume \in BOOLEAN :
          Respawn(i, kind[i], c, resume, starts)
    BY <1>7, StartType, Zenon DEF RestartRow, IsAgent, RowsAssumption, RowsTypeOK
  <2>2. /\ tick = "idle" /\ UNCHANGED <<tick, sessions, nextId>>
        /\ saving' \subseteq saving
    BY <1>7 DEF RestartRow, UserMayAct, IsAgent
  <2> QED BY <2>1, <2>2, PeersRespawn, Zenon
<1>8. ASSUME NEW i \in Id, Replace(i)  PROVE PeersInv'
  <2>1. /\ tick = "idle" /\ UNCHANGED <<tick, sessions, nextId>>
        /\ saving' \subseteq saving
    BY <1>8 DEF Replace, UserMayAct
  <2>2. CASE UNCHANGED <<kind, failed, list>>
    BY <1>8, <2>1, <2>2 DEF Peers
  <2>3. ASSUME NEW other \in AgentKind, NEW c \in FreshId(other), NEW starts \in BOOLEAN,
               Respawn(i, other, c, FALSE, starts)
        PROVE  PeersInv'
    BY <2>1, <2>3, PeersRespawn, Zenon
  <2> QED BY <1>8, <2>2, <2>3 DEF Replace, AgentKind
<1>9. ASSUME NEW i \in Id, NEW c \in Conv, Switch(i, c)  PROVE PeersInv'
  BY <1>9 DEF Switch, AppUnaware
<1>10. CASE Crash \/ Quit \/ Detach
  BY <1>10 DEF Crash, Quit, Detach, Gone
<1>11. CASE DaemonDies
  BY <1>11 DEF DaemonDies
<1>12. CASE Reap
  BY <1>12 DEF Reap, RowsTypeOK
<1>13. CASE RefreshWorked \/ ReadReports \/ Reconciled \/ SyncManifest
  BY <1>13 DEF RefreshWorked, ReadReports, Reconciled, SyncManifest
<1>14. ASSUME NEW r \in todo, Reconcile(r)  PROVE PeersInv'
  BY <1>14 DEF Reconcile
<1>15. CASE Opened
  BY <1>15 DEF Opened, Used, RowsTypeOK
<1>16. ASSUME NEW r \in todo, Resume(r)  PROVE PeersInv'
  BY <1>16 DEF Resume
<1>17. CASE Launch
  BY <1>17 DEF Launch
<1>18. ASSUME NEW i \in Id, Prompt(i) \/ Report(i) \/ Exit(i) \/ Lapse(i)  PROVE PeersInv'
  BY <1>18 DEF Prompt, Report, Exit, Lapse, AppUnaware
<1>19. CASE UNCHANGED rowsVars
  BY <1>19 DEF rowsVars
<1> QED
  BY <1>1, <1>2, <1>3, <1>4, <1>5, <1>6, <1>7, <1>8, <1>9, <1>10, <1>11, <1>12, <1>13,
     <1>14, <1>15, <1>16, <1>17, <1>18, <1>19
  DEF RowsNext, Operate, Accident, Poll, Restore

\* No listed peer failed to start, is held for a save, is gone or is a shell.
THEOREM PeersAnswer == RowsSpec => []PeersCanAnswer
<1>1. RowsInit => PeersInv
  BY DEF RowsInit, PeersInv
<1>2. RowsTypeOK /\ PeersInv /\ [RowsNext]_rowsVars => PeersInv'
  BY RowsAssumption, PeersStep
<1>3. PeersInv => PeersCanAnswer
  BY DEF PeersInv, PeersCanAnswer, Peers, IsAgent
<1> QED BY <1>1, <1>2, <1>3, TypeCorrect, PTL DEF RowsSpec

-----------------------------------------------------------------------------
(* No conversation has two rows, or two records.                           *)

OneHolder(S) ==
    \A i, j \in S : i # j /\ IsAgent(i) /\ IsAgent(j) /\ conv[i] # Empty => conv[i] # conv[j]

OneRecord(R) == \A r, q \in R : r.conv = q.conv => r = q

\* Nobody holds the record's conversation, and no other record keeps it.
Free(r) ==
    /\ r.conv \notin Convs(sticky)
    /\ \A i \in sessions : IsAgent(i) => conv[i] # r.conv

\* What the next app adopts is as distinct as what this one left, because the
\* manifest agrees with it; what it resumes is what it has not adopted.
HolderInv ==
    ~torn =>
      /\ OneHolder(sessions) /\ OneRecord(store) /\ OneRecord(sticky)
      /\ saving \subseteq sessions
      /\ tick = "down" =>
           /\ sessions = {} /\ sticky = {} /\ OneHolder(alive)
           /\ \A r \in manifest : r.id \in alive => r.conv \in {Empty, conv[r.id]}
      /\ tick # "down" => alive \subseteq sessions
      /\ tick = "restoring" => OneRecord(todo) /\ \A r \in todo : Free(r)

\* What is written to the store is distinct if the rows and what is kept are.
LEMMA StoredDistinct ==
    ASSUME NEW S, NEW W, NEW cv, NEW kept,
           \A i, j \in S : i # j /\ IsAgent(i) /\ IsAgent(j) /\ cv[i] # Empty => cv[i] # cv[j],
           OneRecord(kept)
    PROVE  OneRecord(Stored(S, W, cv, kept))
BY DEF Stored, OneRecord, Convs

\* A fresh conversation is nobody's.
LEMMA FreshIsNew ==
    ASSUME RowsAssumption, RowsTypeOK, NEW k \in AgentKind, NEW c \in FreshId(k)
    PROVE  c = Empty \/ \A i \in Id : conv[i] # c
BY DEF FreshId, Unused

\* Putting an agent on a conversation that no other row holds.
LEMMA StartDistinct ==
    ASSUME RowsTypeOK, OneHolder(sessions), NEW i \in Id, NEW k, NEW c,
           Start(i, k, c),
           c = Empty \/ \A j \in sessions \ {i} : IsAgent(j) => conv[j] # c
    PROVE  \A p, q \in sessions \cup {i} :
             p # q /\ IsAgent(p)' /\ IsAgent(q)' /\ conv'[p] # Empty => conv'[p] # conv'[q]
<1>1. \A p \in Id : p # i => kind'[p] = kind[p] /\ conv'[p] = conv[p]
  BY DEF Start, RowsTypeOK
<1>2. conv'[i] = c
  BY DEF Start, RowsTypeOK
<1>3. sessions \subseteq Id
  BY DEF RowsTypeOK
<1> QED BY <1>1, <1>2, <1>3 DEF OneHolder, IsAgent

\* What HolderInv asks of an open app, idle or in a tick.
HolderUp ==
    /\ OneHolder(sessions) /\ OneRecord(store) /\ OneRecord(sticky)
    /\ alive \subseteq sessions /\ saving \subseteq sessions

\* A respawn keeps the rows' conversations distinct.
LEMMA RespawnDistinct ==
    ASSUME RowsTypeOK, HolderUp, UNCHANGED <<sessions, store, sticky>>, saving' \subseteq saving,
           NEW i \in sessions, NEW k, NEW c, NEW resume, NEW starts,
           Respawn(i, k, c, resume, starts),
           c = Empty \/ \A j \in sessions \ {i} : IsAgent(j) => conv[j] # c
    PROVE  HolderUp'
<1>1. CASE starts
  <2>1. Start(i, k, c)
    BY <1>1, Zenon DEF Respawn
  <2>2. i \in Id /\ sessions \cup {i} = sessions
    BY DEF RowsTypeOK
  <2>3. OneHolder(sessions)'
    BY <2>1, <2>2, StartDistinct DEF HolderUp, OneHolder
  <2>4. alive' \subseteq sessions
    BY <2>1 DEF Start, HolderUp
  <2> QED BY <2>3, <2>4 DEF HolderUp, OneRecord
<1>2. CASE ~starts
  <2>1. Stopped({i}) /\ UNCHANGED <<kind, conv>>
    BY <1>2, Zenon DEF Respawn
  <2> QED BY <2>1 DEF HolderUp, OneHolder, OneRecord, IsAgent, Stopped
<1> QED BY <1>1, <1>2

LEMMA HolderStep ==
    ASSUME RowsAssumption, RowsTypeOK, HolderInv, [RowsNext]_rowsVars
    PROVE  HolderInv'
<1> USE DEF memory, daemon, scratch
<1>0. CASE torn
  <2>1. torn'
    BY <1>0 DEF RowsNext, Operate, Accident, Poll, Restore, SpawnAgent, SpawnTerminal, Continue,
       CloseRow, BeginSave, SaveSucceeded, RestartRow, Replace, Switch, Crash, DaemonDies, Reap,
       RefreshWorked, ReadReports, Reconciled, SyncManifest, Reconcile, Opened, Resume,
       Launch, Quit, Detach, Prompt, Report, Exit, Lapse, AppUnaware, rowsVars
  <2> QED BY <2>1 DEF HolderInv
<1> SUFFICES ASSUME ~torn  PROVE HolderInv'
  BY <1>0
<1>up. ASSUME tick \notin {"down", "restoring"}  PROVE HolderUp
  BY <1>up, Zenon DEF HolderInv, HolderUp
<1>ok. ASSUME tick' \notin {"down", "restoring"}, HolderUp'  PROVE HolderInv'
  BY <1>ok, Zenon DEF HolderInv, HolderUp
<1>1. ASSUME NEW k \in AgentKind, SpawnAgent(k)  PROVE HolderInv'
  <2>1. PICK c \in FreshId(k) : Start(nextId, k, c)
    BY <1>1 DEF SpawnAgent
  <2>2. /\ tick' = tick /\ tick \notin {"down", "restoring"} /\ nextId \in Id
        /\ sessions' = sessions \cup {nextId} /\ UNCHANGED <<store, sticky, saving>>
    BY <1>1 DEF SpawnAgent, RowsTypeOK, Id
  <2>3. c = Empty \/ \A j \in Id : conv[j] # c
    BY FreshIsNew
  <2>4. OneHolder(sessions)'
    BY <1>up, <2>1, <2>2, <2>3, StartDistinct DEF OneHolder, HolderUp, RowsTypeOK
  <2> QED BY <1>up, <1>ok, <2>1, <2>2, <2>4 DEF HolderUp, Start, OneRecord
<1>2. CASE SpawnTerminal
  <2>1. /\ tick' = tick /\ tick \notin {"down", "restoring"} /\ nextId \in Id
        /\ sessions' = sessions \cup {nextId} /\ UNCHANGED <<store, sticky, saving>>
        /\ Start(nextId, "shell", Empty)
    BY <1>2 DEF SpawnTerminal, RowsTypeOK, Id
  <2>2. OneHolder(sessions)'
    BY <1>up, <2>1, StartDistinct DEF OneHolder, HolderUp
  <2> QED BY <1>up, <1>ok, <2>1, <2>2 DEF HolderUp, Start, OneRecord
<1>3. ASSUME NEW c \in Conv, Continue(c)  PROVE HolderInv'
  <2>1. /\ tick' = tick /\ tick \notin {"down", "restoring"} /\ nextId \in Id
        /\ sessions' = sessions \cup {nextId} /\ UNCHANGED <<store, sticky, saving>>
        /\ Start(nextId, AgentOf(c), c)
        /\ \A j \in sessions : IsAgent(j) => conv[j] # c
    BY <1>3 DEF Continue, UserMayAct, RowsTypeOK, Id
  <2>2. OneHolder(sessions)'
    BY <1>up, <2>1, StartDistinct DEF OneHolder, HolderUp
  <2> QED BY <1>up, <1>ok, <2>1, <2>2 DEF HolderUp, Start, OneRecord
<1>4. ASSUME NEW i \in Id, CloseRow(i) \/ BeginSave(i)  PROVE HolderInv'
  BY <1>4, <1>up, <1>ok DEF CloseRow, BeginSave, UserMayAct, Stopped, HolderUp, OneHolder, OneRecord, IsAgent
<1>6. ASSUME NEW i \in Id, SaveSucceeded(i)  PROVE HolderInv'
  <2>1. OneRecord(store')
    BY <1>6, <1>up, StoredDistinct DEF SaveSucceeded, UserMayAct, HolderUp, OneHolder
  <2> QED BY <1>6, <2>1, <1>up, <1>ok DEF SaveSucceeded, UserMayAct, HolderUp, OneHolder, OneRecord, IsAgent
<1>7. ASSUME NEW i \in Id, RestartRow(i)  PROVE HolderInv'
  <2>1. PICK resume, c, starts :
          /\ c \in IF resume THEN {conv[i]} ELSE FreshId(kind[i])
          /\ Respawn(i, kind[i], c, resume, starts)
    BY <1>7, Zenon DEF RestartRow
  <2>2. /\ i \in sessions /\ kind[i] \in AgentKind /\ UNCHANGED <<tick, sessions, store, sticky>>
        /\ tick \notin {"down", "restoring"} /\ IsAgent(i) /\ saving' \subseteq saving
    BY <1>7 DEF RestartRow, UserMayAct, IsAgent
  <2>3. c = Empty \/ \A j \in sessions \ {i} : IsAgent(j) => conv[j] # c
    <3>1. CASE resume
      BY <1>up, <2>1, <2>2, <3>1 DEF HolderUp, OneHolder
    <3>2. CASE ~resume
      BY <2>1, <2>2, <3>2, FreshIsNew DEF RowsTypeOK
    <3> QED BY <3>1, <3>2
  <2>4. HolderUp'
    BY <1>up, <2>1, <2>2, <2>3, RespawnDistinct, Zenon
  <2> QED BY <1>ok, <2>2, <2>4
<1>8. ASSUME NEW i \in Id, Replace(i)  PROVE HolderInv'
  <2>1. /\ UNCHANGED <<tick, sessions, store, sticky>> /\ tick \notin {"down", "restoring"}
        /\ saving' \subseteq saving /\ i \in sessions
    BY <1>up, <1>8 DEF Replace, UserMayAct, HolderUp
  <2>2. CASE UNCHANGED <<kind, conv, alive>>
    BY <1>up, <1>ok, <2>1, <2>2 DEF HolderUp, OneHolder, OneRecord, IsAgent
  <2>3. ASSUME NEW other \in AgentKind, NEW c \in FreshId(other), NEW starts \in BOOLEAN,
               Respawn(i, other, c, FALSE, starts)
        PROVE  HolderInv'
    <3>1. c = Empty \/ \A j \in sessions \ {i} : IsAgent(j) => conv[j] # c
      BY FreshIsNew DEF RowsTypeOK
    <3>2. HolderUp'
      BY <1>up, <2>1, <2>3, <3>1, RespawnDistinct, Zenon
    <3> QED BY <1>ok, <2>1, <3>2
  <2> QED BY <1>8, <2>2, <2>3 DEF Replace, AgentKind
<1>9. ASSUME NEW i \in Id, NEW c \in Conv, Switch(i, c)  PROVE HolderInv'
  BY <1>9 DEF Switch, AppUnaware, HolderInv, OneHolder, OneRecord, Free, IsAgent
<1>10. CASE Crash
  <2>1. HolderInv /\ tick' = "down" /\ sessions' = {} /\ sticky' = {} /\ saving' = {}
        /\ UNCHANGED <<kind, alive, store, manifest>> /\ tick # "down" /\ torn' = (torn \/ ManifestStale)
        /\ conv' = [i \in Id |-> IF i \in alive THEN conv[i] ELSE Empty]
    BY <1>10 DEF Crash, Gone
  <2>2. ASSUME ~torn'  PROVE \A r \in manifest : r.id \in alive => r.conv \in {Empty, conv[r.id]}
    BY <2>1, <2>2 DEF HolderInv, ManifestStale
  <2>3. alive \subseteq sessions /\ OneHolder(sessions) /\ OneRecord(store)
    BY <2>1 DEF HolderInv
  <2>4. OneHolder(alive)' /\ \A i \in alive : conv'[i] = conv[i]
    BY <2>1, <2>3 DEF OneHolder, IsAgent, RowsTypeOK
  <2> QED BY <2>1, <2>2, <2>3, <2>4 DEF HolderInv, OneHolder, OneRecord
<1>11. CASE DaemonDies
  <2>1. /\ UNCHANGED <<tick, todo, torn, sessions, sticky, saving, kind, store, manifest>>
        /\ alive' = {} /\ (tick # "down" => conv' = conv)
    BY <1>11 DEF DaemonDies, Stopped
  <2> QED BY <2>1 DEF HolderInv, OneHolder, OneRecord, Free, IsAgent
<1>12. CASE Reap
  <2> DEFINE removed == {i \in sessions : Removable(i)}
             marked == {i \in sessions : NeedsFailureMark(i)}
             kept == {[id |-> i, conv |-> conv[i]] : i \in {j \in removed : LostRestore(j)}}
  <2>0. tick' \notin {"down", "restoring"} /\ HolderUp /\ UNCHANGED <<kind, alive>>
    BY <1>12, <1>up DEF Reap
  <2>1. CASE removed \cup marked = {}
    BY <1>12, <1>ok, <2>0, <2>1 DEF Reap, HolderUp, OneHolder, OneRecord, IsAgent
  <2>2. CASE removed \cup marked # {}
    <3>1. /\ sessions' = sessions \ removed /\ saving' = saving \cap sessions'
          /\ sticky' = sticky \cup {r \in kept : r.conv \notin Convs(sticky)}
          /\ conv' = [i \in Id |-> IF i \in removed THEN Empty ELSE conv[i]]
          /\ store' = Stored(sessions', worked', conv, sticky')
      BY <1>12, <2>2 DEF Reap
    <3>2. OneRecord(kept)
      BY <2>0 DEF HolderUp, OneHolder, OneRecord, LostRestore, Removable
    <3>3. OneRecord(sticky')
      BY <2>0, <3>1, <3>2 DEF HolderUp, OneRecord, Convs
    <3>4. OneRecord(store')
      BY <2>0, <3>1, <3>3, StoredDistinct DEF HolderUp, OneHolder
    <3>5. OneHolder(sessions)'
      BY <2>0, <3>1 DEF HolderUp, OneHolder, IsAgent, RowsTypeOK
    <3>6. alive' \subseteq sessions'
      BY <2>0, <3>1 DEF HolderUp, Removable
    <3> QED BY <1>ok, <2>0, <3>1, <3>3, <3>4, <3>5, <3>6 DEF HolderUp, OneRecord
  <2> QED BY <2>1, <2>2
<1>13. CASE RefreshWorked \/ ReadReports \/ Reconciled \/ SyncManifest
  <2>1. /\ UNCHANGED <<sessions, kind, conv, alive, sticky, saving>>
        /\ tick \notin {"down", "restoring"} /\ tick' \notin {"down", "restoring"}
        /\ store' = store \/ \E W : store' = Stored(sessions, W, conv, sticky)
    BY <1>13 DEF RefreshWorked, ReadReports, Reconciled, SyncManifest
  <2>2. HolderUp
    BY <1>up, <2>1
  <2>3. OneRecord(store')
    BY <2>1, <2>2, StoredDistinct DEF HolderUp, OneHolder
  <2> QED BY <1>ok, <2>1, <2>2, <2>3 DEF HolderUp, OneHolder, OneRecord, IsAgent
<1>14. ASSUME NEW r \in todo, Reconcile(r)  PROVE HolderInv'
  <2>1. /\ UNCHANGED <<sessions, kind, alive, sticky, saving, store>>
        /\ tick \notin {"down", "restoring"} /\ tick' \notin {"down", "restoring"}
        /\ conv' = conv \/ (~Taken(r) /\ conv' = [conv EXCEPT ![r.id] = r.conv])
    BY <1>14 DEF Reconcile
  <2>2. HolderUp
    BY <1>up, <2>1
  <2>3. OneHolder(sessions)'
    BY <2>1, <2>2 DEF HolderUp, OneHolder, IsAgent, Taken, RowsTypeOK
  <2> QED BY <1>ok, <2>1, <2>2, <2>3 DEF HolderUp, OneRecord
<1>15. CASE Opened
  <2>1. OneRecord(store')
    BY <1>15, StoredDistinct DEF Opened, HolderInv, OneHolder
  <2> QED BY <1>15, <2>1 DEF Opened, HolderInv, OneHolder, OneRecord, IsAgent
<1>16. ASSUME NEW r \in todo, Resume(r)  PROVE HolderInv'
  <2>1. /\ tick = "restoring" /\ tick' = tick /\ todo' = todo \ {r}
        /\ UNCHANGED <<torn, saving, store>>
    BY <1>16 DEF Resume
  <2>2. /\ HolderUp /\ OneRecord(todo) /\ \A q \in todo : Free(q)
    BY <2>1 DEF HolderInv, HolderUp
  <2>3. PICK i \in Id \ Used :
          \/ /\ Start(i, AgentOf(r.conv), r.conv)
             /\ sessions' = sessions \cup {i}
             /\ UNCHANGED sticky
          \/ /\ sticky' = sticky \cup {[id |-> i, conv |-> r.conv]}
             /\ UNCHANGED <<sessions, kind, conv, alive>>
    BY <1>16 DEF Resume
  <2>4. \A q \in todo' : q.conv # r.conv
    BY <2>1, <2>2 DEF OneRecord
  <2>5. CASE Start(i, AgentOf(r.conv), r.conv) /\ sessions' = sessions \cup {i} /\ UNCHANGED sticky
    <3>1. OneHolder(sessions)'
      BY <2>2, <2>5, StartDistinct DEF OneHolder, HolderUp, Free
    <3>2. \A q \in todo' : Free(q)'
      BY <2>1, <2>2, <2>4, <2>5 DEF Free, Start, IsAgent, RowsTypeOK
    <3>3. alive' \subseteq sessions' /\ saving' \subseteq sessions'
      BY <2>1, <2>2, <2>5 DEF Start, HolderUp
    <3> QED BY <2>1, <2>2, <2>5, <3>1, <3>2, <3>3 DEF HolderInv, HolderUp, OneRecord
  <2>6. CASE /\ sticky' = sticky \cup {[id |-> i, conv |-> r.conv]}
             /\ UNCHANGED <<sessions, kind, conv, alive>>
    <3>1. OneRecord(sticky')
      BY <2>2, <2>6 DEF HolderUp, OneRecord, Free, Convs
    <3>2. \A q \in todo' : Free(q)'
      BY <2>1, <2>2, <2>4, <2>6 DEF Free, IsAgent, Convs
    <3> QED BY <2>1, <2>2, <2>6, <3>1, <3>2 DEF HolderInv, HolderUp, OneRecord, OneHolder, IsAgent
  <2> QED BY <2>3, <2>5, <2>6
<1>17. CASE Launch
  <2> DEFINE adopted == IF root THEN alive ELSE {}
  <2>1. /\ tick = "down" /\ tick' = "restoring" /\ sessions' = adopted
        /\ conv' = [i \in Id |-> IF i \in adopted THEN AdoptedConv(i) ELSE Empty]
        /\ todo' = {r \in store : \A i \in adopted : IsAgent(i) => conv'[i] # r.conv}
        /\ alive' = alive \ (alive \ adopted)
        /\ UNCHANGED <<torn, saving, sticky, kind, store>>
    BY <1>17 DEF Launch, Stopped
  <2>2. /\ saving = {} /\ sticky = {} /\ OneHolder(alive) /\ OneRecord(store)
        /\ \A r \in manifest : r.id \in alive => r.conv \in {Empty, conv[r.id]}
    BY <2>1 DEF HolderInv
  <2>3. \A i \in alive : AdoptedConv(i) = conv[i]
    BY <2>2 DEF AdoptedConv, Adopted
  <2>4. \A i \in adopted : i \in Id /\ conv'[i] = conv[i] /\ i \in alive
    BY <2>1, <2>3 DEF RowsTypeOK
  <2>5. OneHolder(sessions)'
    BY <2>1, <2>2, <2>4 DEF OneHolder, IsAgent
  <2>6. OneRecord(todo') /\ \A r \in todo' : Free(r)'
    BY <2>1, <2>2 DEF OneRecord, Free, Convs, IsAgent
  <2> QED BY <2>1, <2>2, <2>5, <2>6 DEF HolderInv, OneRecord
<1>18. CASE Quit \/ Detach
  <2>1. /\ tick \notin {"down", "restoring"} /\ tick' = "down"
        /\ sessions' = {} /\ sticky' = {} /\ saving' = {} /\ UNCHANGED kind
        /\ conv' = [i \in Id |-> IF i \in alive' THEN conv[i] ELSE Empty]
        /\ alive' \subseteq alive
        /\ alive' = {} \/ manifest' = Rows
        /\ store' = store \/ \E W : store' = Stored(sessions, W, conv, sticky)
    BY <1>18 DEF Quit, Detach, Gone, UserMayAct, Stopped
  <2>2. HolderUp
    BY <1>up, <2>1
  <2>3. OneRecord(store')
    BY <2>1, <2>2, StoredDistinct DEF HolderUp, OneHolder
  <2>4. OneHolder(alive)' /\ \A i \in alive' : conv'[i] = conv[i]
    BY <2>1, <2>2 DEF HolderUp, OneHolder, IsAgent, RowsTypeOK
  <2>5. \A r \in manifest' : r.id \in alive' => r.conv \in {Empty, conv'[r.id]}
    BY <2>1, <2>4 DEF Rows
  <2> QED BY <2>1, <2>3, <2>4, <2>5 DEF HolderInv, OneHolder, OneRecord
<1>19. ASSUME NEW i \in Id, Prompt(i) \/ Report(i) \/ Exit(i) \/ Lapse(i)  PROVE HolderInv'
  BY <1>19 DEF Prompt, Report, Exit, Lapse, AppUnaware, Stopped, HolderInv, OneHolder,
     OneRecord, Free, IsAgent
<1>20. CASE UNCHANGED rowsVars
  BY <1>20 DEF rowsVars, HolderInv, OneHolder, OneRecord, Free, IsAgent
<1> QED
  BY <1>1, <1>2, <1>3, <1>4, <1>6, <1>7, <1>8, <1>9, <1>10, <1>11, <1>12, <1>13, <1>14,
     <1>15, <1>16, <1>17, <1>18, <1>19, <1>20
  DEF RowsNext, Operate, Accident, Poll, Restore

\* As long as no app died with its manifest out of date, a conversation has one
\* row at most, and one record at most in the store.
THEOREM OneRowPerConversation == RowsSpec => []SingleHolder
<1>1. RowsInit => HolderInv
  BY DEF RowsInit, HolderInv, OneHolder, OneRecord
<1>2. RowsTypeOK /\ HolderInv /\ [RowsNext]_rowsVars => HolderInv'
  BY RowsAssumption, HolderStep
<1>3. HolderInv => SingleHolder
  BY DEF HolderInv, SingleHolder, OneHolder, OneRecord
<1> QED BY <1>1, <1>2, <1>3, TypeCorrect, PTL DEF RowsSpec

\* The open rows are safe: one row a conversation, and no peer that cannot answer.
THEOREM RowsAreSafe == RowsSpec => []RowsInv
  BY TypeCorrect, OneRowPerConversation, PeersAnswer, PTL DEF RowsInv

-----------------------------------------------------------------------------
(* The store.  While a launch restores the rows, each record waits, is      *)
(* kept, or has a row; while the app is up it is kept, or has the row of    *)
(* its number, which is on its conversation as long as that row was worked  *)
(* on and no pass is taking up what the hooks reported.                     *)

RecordHeld(r) ==
    \/ r.conv \in Convs(sticky)
    \/ /\ r.id \in sessions
       /\ r.id \in worked => IsAgent(r.id) /\ (conv[r.id] = r.conv \/ tick = "changed")

RecordComing(r) ==
    \/ r \in todo
    \/ \E i \in sessions : IsAgent(i) /\ conv[i] = r.conv
    \/ r.conv \in Convs(sticky)

StoreInv ==
    /\ tick = "restoring" => \A r \in store : RecordComing(r)
    /\ tick \notin {"down", "restoring"} => \A r \in store : RecordHeld(r)

\* What is written to the store: every kept conversation, that of every worked agent,
\* and nothing else.
LEMMA KeptIsStored ==
    ASSUME NEW S, NEW W, NEW cv, NEW kept, NEW c \in Convs(kept)
    PROVE  c \in Convs(Stored(S, W, cv, kept))
<1>1. PICK r \in kept : r.conv = c
  BY DEF Convs
<1> DEFINE live == {[id |-> i, conv |-> cv[i]] : i \in {j \in S \cap W : IsAgent(j) /\ cv[j] # Empty}}
<1>2. Stored(S, W, cv, kept) = live \cup {q \in kept : q.conv \notin Convs(live)}
  BY DEF Stored
<1>3. CASE c \in Convs(live)
  BY <1>2, <1>3 DEF Convs
<1>4. CASE c \notin Convs(live)
  BY <1>1, <1>2, <1>4 DEF Convs
<1> QED BY <1>3, <1>4

LEMMA WorkedIsWritten ==
    ASSUME NEW S, NEW W, NEW cv, NEW kept, NEW i \in S \cap W, IsAgent(i), cv[i] # Empty
    PROVE  cv[i] \in Convs(Stored(S, W, cv, kept))
<1>1. [id |-> i, conv |-> cv[i]] \in Stored(S, W, cv, kept)
  BY DEF Stored
<1> QED BY <1>1 DEF Convs

LEMMA WrittenIsOwned ==
    ASSUME NEW S, NEW W, NEW cv, NEW kept, NEW r \in Stored(S, W, cv, kept)
    PROVE  \/ r.conv \in Convs(kept)
           \/ r.id \in S \cap W /\ IsAgent(r.id) /\ cv[r.id] = r.conv
BY DEF Stored, Convs

\* A store just written from the rows is held by them.
LEMMA WrittenIsHeld ==
    ASSUME store' = Stored(sessions', worked', conv', sticky'), UNCHANGED kind
    PROVE  \A r \in store' : RecordHeld(r)'
<1> SUFFICES ASSUME NEW r \in store' PROVE RecordHeld(r)'
  OBVIOUS
<1>1. \/ r.conv \in Convs(sticky')
      \/ r.id \in sessions' \cap worked' /\ IsAgent(r.id) /\ conv'[r.id] = r.conv
  BY WrittenIsOwned
<1> QED BY <1>1 DEF RecordHeld, IsAgent

\* Starting a process on one row leaves the records of the others held.
LEMMA StartHolds ==
    ASSUME RowsTypeOK, NEW i, NEW k, NEW c, Start(i, k, c),
           NEW r \in store, RecordHeld(r), UNCHANGED <<tick, sticky>>,
           sessions \subseteq sessions', worked' \subseteq worked \cup ({i} \cap sessions'),
           r.id # i
    PROVE  RecordHeld(r)'
<1>1. CASE r.conv \in Convs(sticky)
  BY <1>1 DEF RecordHeld
<1>2. CASE r.id \in sessions
  <2>1. kind'[r.id] = kind[r.id] /\ conv'[r.id] = conv[r.id]
    BY <1>2 DEF Start, RowsTypeOK
  <2>2. r.id \in worked' => r.id \in worked
    OBVIOUS
  <2> QED BY <1>2, <2>1, <2>2 DEF RecordHeld, IsAgent
<1> QED BY <1>1, <1>2 DEF RecordHeld

\* A restart in place or by the other agent: the row resumes what it was on, or was not
\* worked on (any more), or was on nothing.
LEMMA RespawnHolds ==
    ASSUME RowsAssumption, RowsTypeOK, NEW i \in sessions, NEW k \in AgentKind, NEW c,
           NEW resume, NEW starts, Respawn(i, k, c, resume, starts),
           UNCHANGED <<tick, sessions, sticky, store>>, worked' \subseteq worked,
           i \in worked' => c = conv[i] \/ conv[i] = Empty,
           \A r \in store : RecordHeld(r), tick # "changed"
    PROVE  \A r \in store' : RecordHeld(r)'
<1> SUFFICES ASSUME NEW r \in store PROVE RecordHeld(r)'
  OBVIOUS
<1>0. RecordHeld(r) /\ r.conv \in Conv /\ r.conv # Empty
  BY DEF RowsTypeOK, SessionRecord, RowsAssumption, Conv
<1>1. CASE ~starts
  <2>1. UNCHANGED <<kind, conv>>
    BY <1>1, Zenon DEF Respawn
  <2> QED BY <1>0, <2>1 DEF RecordHeld, IsAgent
<1>2. CASE starts
  <2>1. Start(i, k, c)
    BY <1>2, Zenon DEF Respawn
  <2>2. CASE r.id # i
    <3>1. sessions \subseteq sessions' /\ worked' \subseteq worked \cup ({i} \cap sessions')
          /\ UNCHANGED <<tick, sticky>>
      OBVIOUS
    <3> QED BY <1>0, <2>1, <2>2, <3>1, StartHolds
  <2>3. CASE r.id = i
    <3>1. kind'[i] = k /\ conv'[i] = c
      BY <2>1 DEF Start, RowsTypeOK
    <3> QED BY <1>0, <2>3, <3>1 DEF RecordHeld, IsAgent
  <2> QED BY <2>2, <2>3
<1> QED BY <1>1, <1>2

\* Every step keeps each record accounted for.
LEMMA StoreStep ==
    ASSUME RowsAssumption, RowsTypeOK, PeersInv, StoreInv, [RowsNext]_rowsVars
    PROVE  StoreInv'
<1> USE DEF memory, daemon, scratch
<1>up. tick \notin {"down", "restoring"} =>
         (\A r \in store : RecordHeld(r)) /\ \A i \in sessions : i < nextId
  BY DEF StoreInv, PeersInv
<1>ok. (tick' \notin {"down", "restoring"} /\ \A r \in store' : RecordHeld(r)') => StoreInv'
  BY DEF StoreInv
<1>1. ASSUME NEW k \in AgentKind, SpawnAgent(k)  PROVE StoreInv'
  <2>1. PICK c \in FreshId(k) : Start(nextId, k, c)
    BY <1>1 DEF SpawnAgent
  <2>2. /\ UNCHANGED <<tick, sticky, store, worked>> /\ sessions \subseteq sessions'
        /\ tick \notin {"down", "restoring"}
    BY <1>1 DEF SpawnAgent
  <2>3. \A r \in store : RecordHeld(r) /\ (r.conv \in Convs(sticky) \/ r.id # nextId)
    BY <1>up, <2>2 DEF RecordHeld, RowsTypeOK, Id
  <2>4. ASSUME NEW r \in store PROVE RecordHeld(r)'
    <3>1. CASE r.conv \in Convs(sticky)
      BY <2>2, <3>1 DEF RecordHeld
    <3>2. CASE r.id # nextId
      BY <2>1, <2>2, <2>3, <3>2, StartHolds
    <3> QED BY <2>3, <3>1, <3>2
  <2> QED BY <1>ok, <2>2, <2>4
<1>2. CASE SpawnTerminal
  <2>2. /\ UNCHANGED <<tick, sticky, store, worked>> /\ sessions \subseteq sessions'
        /\ tick \notin {"down", "restoring"} /\ Start(nextId, "shell", Empty)
    BY <1>2 DEF SpawnTerminal
  <2>3. \A r \in store : RecordHeld(r) /\ (r.conv \in Convs(sticky) \/ r.id # nextId)
    BY <1>up, <2>2 DEF RecordHeld, RowsTypeOK, Id
  <2>4. ASSUME NEW r \in store PROVE RecordHeld(r)'
    <3>1. CASE r.conv \in Convs(sticky)
      BY <2>2, <3>1 DEF RecordHeld
    <3>2. CASE r.id # nextId
      BY <2>2, <2>3, <3>2, StartHolds
    <3> QED BY <2>3, <3>1, <3>2
  <2> QED BY <1>ok, <2>2, <2>4
<1>3. ASSUME NEW c \in Conv, Continue(c)  PROVE StoreInv'
  <2>2. /\ UNCHANGED <<tick, sticky, store>> /\ sessions' = sessions \cup {nextId}
        /\ worked' = worked \cup {nextId}
        /\ tick \notin {"down", "restoring"} /\ Start(nextId, AgentOf(c), c)
    BY <1>3 DEF Continue, UserMayAct
  <2>3. \A r \in store : RecordHeld(r) /\ (r.conv \in Convs(sticky) \/ r.id # nextId)
    BY <1>up, <2>2 DEF RecordHeld, RowsTypeOK, Id
  <2>4. ASSUME NEW r \in store PROVE RecordHeld(r)'
    <3>1. CASE r.conv \in Convs(sticky)
      BY <2>2, <3>1 DEF RecordHeld
    <3>2. CASE r.id # nextId
      BY <2>2, <2>3, <3>2, StartHolds
    <3> QED BY <2>3, <3>1, <3>2
  <2> QED BY <1>ok, <2>2, <2>4
<1>4. ASSUME NEW i \in Id, CloseRow(i) \/ BeginSave(i)  PROVE StoreInv'
  BY <1>4, <1>up DEF CloseRow, BeginSave, UserMayAct, StoreInv, RecordHeld, IsAgent
<1>5. ASSUME NEW i \in Id, SaveSucceeded(i)  PROVE StoreInv'
  <2>1. /\ store' = Stored(sessions', worked', conv', sticky') /\ UNCHANGED kind
        /\ tick' \notin {"down", "restoring"}
    BY <1>5 DEF SaveSucceeded, UserMayAct
  <2> QED BY <1>ok, <2>1, WrittenIsHeld
<1>6. ASSUME NEW i \in Id, RestartRow(i)  PROVE StoreInv'
  <2>1. PICK resume, starts, c :
          /\ resume \in BOOLEAN /\ starts \in BOOLEAN
          /\ c \in IF resume THEN {conv[i]} ELSE FreshId(kind[i])
          /\ resume <=> (conv[i] # Empty /\ i \in worked)
          /\ Respawn(i, kind[i], c, resume, starts)
    BY <1>6, Zenon DEF RestartRow
  <2>2. /\ i \in sessions /\ kind[i] \in AgentKind /\ worked' = worked
        /\ UNCHANGED <<tick, sessions, store, sticky>> /\ tick = "idle"
    BY <1>6 DEF RestartRow, UserMayAct, IsAgent
  <2>3. i \in worked' => c = conv[i] \/ conv[i] = Empty
    BY <2>1, <2>2
  <2>4. \A r \in store : RecordHeld(r)
    BY <1>up, <2>2
  <2>5. worked' \subseteq worked /\ tick # "changed"
    BY <2>2
  <2>6. \A r \in store' : RecordHeld(r)'
    BY <2>1, <2>2, <2>3, <2>4, <2>5, RespawnHolds, Zenon
  <2> QED BY <1>ok, <2>2, <2>6
<1>7. ASSUME NEW i \in Id, Replace(i)  PROVE StoreInv'
  <2>1. /\ UNCHANGED <<tick, sessions, store, sticky>> /\ tick = "idle"
        /\ worked' = worked \ {i}
    BY <1>7 DEF Replace, UserMayAct
  <2>2. \A r \in store : RecordHeld(r)
    BY <1>up, <2>1
  <2>3. CASE UNCHANGED <<kind, conv>>
    BY <1>ok, <2>1, <2>2, <2>3 DEF RecordHeld, IsAgent
  <2>4. ASSUME NEW other \in AgentKind, NEW c \in FreshId(other), NEW starts \in BOOLEAN,
               Respawn(i, other, c, FALSE, starts)
        PROVE  StoreInv'
    <3>1. CASE i \in sessions
      <4>1. worked' \subseteq worked /\ tick # "changed" /\ i \notin worked'
        BY <2>1
      <4>2. \A r \in store' : RecordHeld(r)'
        BY <2>1, <2>2, <2>4, <3>1, <4>1, RespawnHolds, Zenon
      <4> QED BY <1>ok, <2>1, <4>2
    <3>2. CASE i \notin sessions
      <4>1. ASSUME NEW j \in sessions PROVE kind'[j] = kind[j] /\ conv'[j] = conv[j]
        <5>1. UNCHANGED <<kind, conv>> \/ Start(i, other, c)
          BY <2>4, Zenon DEF Respawn
        <5> QED BY <3>2, <5>1 DEF Start, RowsTypeOK
      <4> QED BY <1>ok, <2>1, <2>2, <4>1 DEF RecordHeld, IsAgent
    <3> QED BY <3>1, <3>2
  <2> QED BY <1>7, <2>3, <2>4 DEF Replace, AgentKind
<1>8. ASSUME NEW i \in Id, NEW c \in Conv, Switch(i, c)  PROVE StoreInv'
  BY <1>8 DEF Switch, AppUnaware, StoreInv, RecordHeld, RecordComing, IsAgent
<1>9. CASE Crash \/ Quit \/ Detach
  BY <1>9 DEF Crash, Quit, Detach, Gone, StoreInv
<1>10. CASE DaemonDies
  BY <1>10 DEF DaemonDies, StoreInv, RecordHeld, RecordComing, IsAgent
<1>11. CASE Reap
  <2> DEFINE removed == {i \in sessions : Removable(i)}
             marked == {i \in sessions : NeedsFailureMark(i)}
  <2>0. tick' \notin {"down", "restoring"} /\ tick = "idle" /\ UNCHANGED kind
    BY <1>11 DEF Reap
  <2>1. CASE removed \cup marked = {}
    BY <1>11, <1>ok, <1>up, <2>0, <2>1 DEF Reap, RecordHeld, IsAgent
  <2>2. CASE removed \cup marked # {}
    <3>1. /\ sessions' = sessions \ removed /\ worked' = worked \cap sessions'
          /\ conv' = [i \in Id |-> IF i \in removed THEN Empty ELSE conv[i]]
          /\ store' = Stored(sessions', worked', conv, sticky')
      BY <1>11, <2>2 DEF Reap
    <3>2. ASSUME NEW r \in store' PROVE RecordHeld(r)'
      <4>1. \/ r.conv \in Convs(sticky')
            \/ r.id \in sessions' \cap worked' /\ IsAgent(r.id) /\ conv[r.id] = r.conv
        BY <3>1, WrittenIsOwned
      <4> QED BY <2>0, <3>1, <4>1 DEF RecordHeld, IsAgent, RowsTypeOK
    <3> QED BY <1>ok, <2>0, <3>2
  <2> QED BY <2>1, <2>2
<1>12. CASE RefreshWorked
  <2>0. /\ tick' \notin {"down", "restoring"} /\ tick = "worked" /\ UNCHANGED <<kind, sessions, conv, sticky>>
        /\ worked \subseteq worked'
        /\ store' = IF worked' = worked THEN store ELSE Stored(sessions, worked', conv, sticky)
    BY <1>12 DEF RefreshWorked
  <2>1. CASE worked' = worked
    BY <1>ok, <1>up, <2>0, <2>1 DEF RecordHeld, IsAgent
  <2>2. CASE worked' # worked
    <3>1. store' = Stored(sessions', worked', conv', sticky')
      BY <2>0, <2>2
    <3> QED BY <1>ok, <2>0, <3>1, WrittenIsHeld
  <2> QED BY <2>1, <2>2
<1>13. CASE ReadReports \/ SyncManifest
  BY <1>13, <1>ok, <1>up DEF ReadReports, SyncManifest, RecordHeld, IsAgent
<1>14. CASE Reconciled
  <2>0. tick' \notin {"down", "restoring"} /\ tick \in {"reconcile", "changed"} /\ UNCHANGED <<kind, sessions, worked, conv, sticky>>
        /\ store' = IF tick = "changed" THEN Stored(sessions, worked, conv, sticky) ELSE store
    BY <1>14 DEF Reconciled
  <2>1. CASE tick = "changed"
    <3>1. store' = Stored(sessions', worked', conv', sticky')
      BY <2>0, <2>1
    <3> QED BY <1>ok, <2>0, <3>1, WrittenIsHeld
  <2>2. CASE tick # "changed"
    BY <1>ok, <1>up, <2>0, <2>2 DEF RecordHeld, IsAgent
  <2> QED BY <2>1, <2>2
<1>15. ASSUME NEW r \in todo, Reconcile(r)  PROVE StoreInv'
  <2>1. /\ tick \in {"reconcile", "changed"} /\ tick' \in {"reconcile", "changed"}
        /\ UNCHANGED <<kind, sessions, worked, sticky, store>>
        /\ tick' = "changed" \/ UNCHANGED <<tick, conv>>
    BY <1>15 DEF Reconcile
  <2> QED BY <1>ok, <1>up, <2>1 DEF RecordHeld, IsAgent
<1>16. CASE Opened
  <2>1. /\ store' = Stored(sessions', worked', conv', sticky') /\ UNCHANGED kind
        /\ tick' \notin {"down", "restoring"}
    BY <1>16 DEF Opened
  <2> QED BY <1>ok, <2>1, WrittenIsHeld
<1>17. ASSUME NEW q \in todo, Resume(q)  PROVE StoreInv'
  <2>1. /\ tick = "restoring" /\ tick' = tick /\ todo' = todo \ {q} /\ store' = store
    BY <1>17 DEF Resume
  <2>2. PICK i \in Id \ Used :
          \/ /\ Start(i, AgentOf(q.conv), q.conv)
             /\ sessions' = sessions \cup {i}
             /\ UNCHANGED sticky
          \/ /\ sticky' = sticky \cup {[id |-> i, conv |-> q.conv]}
             /\ UNCHANGED <<sessions, kind, conv, alive>>
    BY <1>17 DEF Resume
  <2>3. ASSUME NEW r \in store PROVE RecordComing(r)'
    <3>0. RecordComing(r)
      BY <2>1 DEF StoreInv
    <3>1. CASE Start(i, AgentOf(q.conv), q.conv) /\ sessions' = sessions \cup {i} /\ UNCHANGED sticky
      <4>1. \A j \in sessions : j # i /\ kind'[j] = kind[j] /\ conv'[j] = conv[j]
        BY <3>1 DEF Start, RowsTypeOK, Used
      <4>2. i \in sessions' /\ IsAgent(i)' /\ conv'[i] = q.conv
        BY <3>1 DEF Start, RowsTypeOK, IsAgent, AgentOf, AgentKind
      <4> QED BY <2>1, <3>0, <3>1, <4>1, <4>2 DEF RecordComing, IsAgent
    <3>2. CASE /\ sticky' = sticky \cup {[id |-> i, conv |-> q.conv]}
               /\ UNCHANGED <<sessions, kind, conv, alive>>
      <4>1. [id |-> i, conv |-> q.conv] \in sticky'
        BY <3>2
      <4>2. q.conv \in Convs(sticky')
        BY <4>1 DEF Convs
      <4>3. Convs(sticky) \subseteq Convs(sticky')
        BY <3>2 DEF Convs
      <4> QED BY <2>1, <3>0, <3>2, <4>2, <4>3 DEF RecordComing, IsAgent
    <3> QED BY <2>2, <3>1, <3>2
  <2> QED BY <2>1, <2>3 DEF StoreInv
<1>18. CASE Launch
  <2> DEFINE adopted == IF root THEN alive ELSE {}
  <2>1. /\ tick' = "restoring" /\ sessions' = adopted
        /\ todo' = {r \in store : \A i \in adopted : IsAgent(i) => conv'[i] # r.conv}
        /\ UNCHANGED <<kind, store>>
    BY <1>18 DEF Launch
  <2> QED BY <2>1 DEF StoreInv, RecordComing, IsAgent
<1>19. ASSUME NEW i \in Id, Prompt(i) \/ Report(i) \/ Exit(i) \/ Lapse(i)  PROVE StoreInv'
  BY <1>19 DEF Prompt, Report, Exit, Lapse, AppUnaware, Stopped, StoreInv, RecordHeld,
     RecordComing, IsAgent
<1>20. CASE UNCHANGED rowsVars
  BY <1>20 DEF rowsVars, StoreInv, RecordHeld, RecordComing, IsAgent
<1> QED
  BY <1>1, <1>2, <1>3, <1>4, <1>5, <1>6, <1>7, <1>8, <1>9, <1>10, <1>11, <1>12, <1>13,
     <1>14, <1>15, <1>16, <1>17, <1>18, <1>19, <1>20
  DEF RowsNext, Operate, Accident, Poll, Restore

\* A step takes a conversation out of the store only when its row has left it.
LEMMA StoreLoses ==
    ASSUME RowsAssumption, RowsTypeOK, StoreInv, [RowsNext]_rowsVars,
           NEW r \in store, r.conv \notin Convs(store')
    PROVE  \E i \in sessions : Left(i, r.conv) /\ (conv[i] = r.conv \/ i = r.id)
<1> USE DEF memory, daemon, scratch
<1>0. r.conv \in Conv /\ r.conv # Empty /\ r.conv \in Convs(store)
  BY DEF RowsTypeOK, SessionRecord, RowsAssumption, Conv, Convs
<1>up. tick \notin {"down", "restoring"} => RecordHeld(r)
  BY DEF StoreInv
\* The row of the record, when the kept records are still written and that row would
\* have been, had it stayed worked on and on the conversation.
<1>row. ASSUME tick \notin {"down", "restoring"}, r.conv \notin Convs(sticky)
        PROVE  /\ r.id \in sessions
               /\ r.id \notin worked => Left(r.id, r.conv)
               /\ conv[r.id] # r.conv => Left(r.id, r.conv)
               /\ r.id \in worked => IsAgent(r.id)
  BY <1>up, <1>row DEF RecordHeld, Left
<1>1. ASSUME NEW i \in Id, SaveSucceeded(i)
      PROVE  \E j \in sessions : Left(j, r.conv) /\ (conv[j] = r.conv \/ j = r.id)
  <2>1. /\ store' = Stored(sessions, worked', conv, sticky) /\ worked' = worked \ {i}
        /\ tick \notin {"down", "restoring"} /\ i \in saving
    BY <1>1 DEF SaveSucceeded, UserMayAct
  <2>2. r.conv \notin Convs(sticky)
    BY <2>1, KeptIsStored
  <2>3. r.id \in worked' => conv[r.id] # r.conv
    BY <1>0, <1>row, <2>1, <2>2, WorkedIsWritten
  <2>4. r.id = i => Left(r.id, r.conv)
    BY <2>1 DEF Left
  <2> QED BY <1>row, <2>1, <2>2, <2>3, <2>4
<1>2. CASE Reap
  <2> DEFINE removed == {i \in sessions : Removable(i)}
             marked == {i \in sessions : NeedsFailureMark(i)}
             kept == {[id |-> i, conv |-> conv[i]] : i \in {j \in removed : LostRestore(j)}}
  <2>1. removed \cup marked # {}
    BY <1>0, <1>2 DEF Reap
  <2>2. /\ sessions' = sessions \ removed /\ worked' = worked \cap sessions'
        /\ sticky' = sticky \cup {q \in kept : q.conv \notin Convs(sticky)}
        /\ store' = Stored(sessions', worked', conv, sticky')
        /\ tick \notin {"down", "restoring"}
    BY <1>2, <2>1 DEF Reap
  <2>3. r.conv \notin Convs(sticky')
    BY <2>2, KeptIsStored
  <2>4. r.conv \notin Convs(sticky)
    BY <2>2, <2>3 DEF Convs
  <2>5. CASE r.id \notin removed
    <3>1. r.id \in worked => conv[r.id] # r.conv
      BY <1>0, <1>row, <2>2, <2>4, <2>5, WorkedIsWritten DEF IsAgent
    <3> QED BY <1>row, <2>2, <2>4, <3>1
  <2>6. CASE r.id \in removed /\ r.id \in worked /\ conv[r.id] = r.conv
    <3>1. ~LostRestore(r.id)
      <4> SUFFICES ASSUME LostRestore(r.id) PROVE FALSE
        OBVIOUS
      <4>1. [id |-> r.id, conv |-> conv[r.id]] \in kept
        BY <2>6
      <4>2. [id |-> r.id, conv |-> conv[r.id]] \in sticky'
        BY <2>2, <2>4, <2>6, <4>1
      <4>3. conv[r.id] \in Convs(sticky')
        BY <4>2 DEF Convs
      <4> QED BY <2>3, <2>6, <4>3
    <3>2. Removable(r.id) /\ IsAgent(r.id)
      BY <1>row, <2>2, <2>4, <2>6
    <3>3. Left(r.id, r.conv)
      BY <1>0, <2>6, <3>1, <3>2 DEF Left, LostRestore, Removable, FailedToStart
    <3> QED BY <2>6, <3>3
  <2> QED BY <1>row, <2>2, <2>4, <2>5, <2>6
<1>3. CASE RefreshWorked
  <2>1. /\ worked \subseteq worked' /\ tick \notin {"down", "restoring"}
        /\ store' = IF worked' = worked THEN store ELSE Stored(sessions, worked', conv, sticky)
    BY <1>3 DEF RefreshWorked
  <2>2. store' = Stored(sessions, worked', conv, sticky)
    BY <1>0, <2>1
  <2>3. r.conv \notin Convs(sticky)
    BY <2>2, KeptIsStored
  <2>4. r.id \in worked => conv[r.id] # r.conv
    BY <1>0, <1>row, <2>1, <2>2, <2>3, WorkedIsWritten
  <2> QED BY <1>row, <2>1, <2>3, <2>4
<1>4. CASE Reconciled \/ Detach
  <2>1. /\ tick \notin {"down", "restoring"}
        /\ store' = store \/ store' = Stored(sessions, worked, conv, sticky)
    BY <1>4 DEF Reconciled, Detach, UserMayAct
  <2>2. store' = Stored(sessions, worked, conv, sticky)
    BY <1>0, <2>1
  <2>3. r.conv \notin Convs(sticky)
    BY <2>2, KeptIsStored
  <2>4. r.id \in worked => conv[r.id] # r.conv
    BY <1>0, <1>row, <2>1, <2>2, <2>3, WorkedIsWritten
  <2> QED BY <1>row, <2>1, <2>3, <2>4
<1>5. CASE Opened
  <2>1. /\ tick = "restoring" /\ todo = {}
        /\ store' = Stored(sessions, worked, conv, sticky)
    BY <1>5 DEF Opened
  <2>2. r.conv \notin Convs(sticky)
    BY <2>1, KeptIsStored
  <2>3. PICK i \in sessions : IsAgent(i) /\ conv[i] = r.conv
    BY <2>1, <2>2 DEF StoreInv, RecordComing
  <2>4. i \notin worked
    BY <1>0, <2>1, <2>3, WorkedIsWritten
  <2> QED BY <2>3, <2>4 DEF Left
<1>6. CASE UNCHANGED store
  BY <1>0, <1>6
<1>7. (Operate \/ Accident \/ Launch \/ Quit) => UNCHANGED store \/ \E i \in Id : SaveSucceeded(i)
  BY DEF Operate, Accident, Launch, Quit, Crash, DaemonDies, Exit, AppUnaware, SpawnAgent,
     SpawnTerminal, Continue, CloseRow, BeginSave, RestartRow, Replace, Switch
<1>8. ASSUME NEW i \in Id, Prompt(i) \/ Report(i) \/ Lapse(i) PROVE UNCHANGED store
  BY <1>8 DEF Prompt, Report, Lapse, AppUnaware
<1>9. (\E q \in todo : Reconcile(q) \/ Resume(q)) \/ ReadReports \/ SyncManifest
        \/ UNCHANGED rowsVars => UNCHANGED store
  BY DEF Reconcile, Resume, ReadReports, SyncManifest, rowsVars
<1> QED
  BY <1>1, <1>2, <1>3, <1>4, <1>5, <1>6, <1>7, <1>8, <1>9 DEF RowsNext, Poll, Restore

\* The store forgets no conversation whose row has not left it, and remembers none that
\* is nobody's (persist_sessions, reap_exited), whatever is restarted, replaced, lost or
\* relaunched, for any rows and conversations.
THEOREM StoreStays == RowsSpec => StoreIsKept
<1> DEFINE Kept == \A r \in store : r.conv \notin Convs(store') =>
                     \E i \in sessions : Left(i, r.conv) /\ (conv[i] = r.conv \/ i = r.id)
<1>1. RowsInit => PeersInv /\ StoreInv
  BY DEF RowsInit, PeersInv, StoreInv
<1>2. RowsTypeOK /\ PeersInv /\ StoreInv /\ [RowsNext]_rowsVars => PeersInv' /\ StoreInv'
  BY RowsAssumption, PeersStep, StoreStep
<1>3. StoreInv => StoreHasAnOwner
  BY DEF StoreInv, StoreHasAnOwner, RecordHeld
<1>4. RowsTypeOK /\ StoreInv /\ [RowsNext]_rowsVars => [Kept]_rowsVars
  BY RowsAssumption, StoreLoses
<1>5. [][Kept]_rowsVars <=> KeptUntilLeft
  BY DEF KeptUntilLeft
<1> HIDE DEF Kept
<1> QED BY <1>1, <1>2, <1>3, <1>4, <1>5, TypeCorrect, PTL DEF RowsSpec, StoreIsKept
=============================================================================
