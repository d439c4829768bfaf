----------------------------- MODULE HubToolsMC -----------------------------
(* The terminals an agent types into, the transcript it reads, the claudes it spawns  *)
(* and the board it edits; one of them in each behaviour.                             *)
EXTENDS Terminals, Transcript, Workers, Board
LOCAL INSTANCE TLC
VARIABLE which

\* Claudes and callers are only compared.
Symmetry == Permutations(BoardClaudes) \cup Permutations(Calls)

HubToolsInit ==
    /\ which \in {"terminals", "transcript", "workers", "board"}
    /\ TerminalsInit /\ (which = "terminals" \/ ByUser)
    /\ TranscriptInit /\ WorkersInit /\ BoardInit
HubToolsNext ==
    /\ UNCHANGED which
    /\ \/ which = "terminals" /\ TerminalsNext /\ UNCHANGED <<transcriptVars, workersVars, boardVars>>
       \/ which = "transcript" /\ TranscriptNext /\ UNCHANGED <<terminalsVars, workersVars, boardVars>>
       \/ which = "workers" /\ WorkersNext /\ UNCHANGED <<terminalsVars, transcriptVars, boardVars>>
       \/ which = "board" /\ BoardNext /\ UNCHANGED <<terminalsVars, transcriptVars, workersVars>>
hubToolsVars == <<which, terminalsVars, transcriptVars, workersVars, boardVars>>
HubToolsSpec == HubToolsInit /\ [][HubToolsNext]_hubToolsVars
=============================================================================
