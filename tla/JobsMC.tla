------------------------------- MODULE JobsMC -------------------------------
(* What the app does for its claudes and its user until it is done: rings,  *)
(* broadcast rounds, updates of a host, names, the list and the chats of the *)
(* phone, explanations, the link of a desktop; one of them in each behaviour. *)
EXTENDS Wake, Broadcast, HostUpdate, Names, PhoneNotes, PhoneChat, Explain, RemoteLink
VARIABLE which

HomeMC == [c \in Picked |-> c]

JobsInit ==
    /\ which \in {"wake", "round", "update", "names", "notes", "chat", "explain", "link"}
    /\ WakeInit /\ (which = "wake" \/ codex = NewCodex)
    /\ BroadcastInit
    /\ HostUpdateInit /\ (which = "update" \/ ~behind)
    /\ NamesInit /\ (which = "names" \/ \A i \in NamedRows : rowNames[i] = Unnamed)
    /\ NotesInit /\ (which = "notes" \/ \A c \in PhoneClaudes : words[c] = "waiting")
    /\ ChatInit
    /\ ExplainInit
    /\ LinkInit

JobsNext ==
    /\ UNCHANGED which
    /\ \/ /\ which = "wake" /\ WakeNext
          /\ UNCHANGED <<broadcastVars, hostUpdateVars, nameVars, noteVars, chatVars, explainVars, linkVars>>
       \/ /\ which = "round" /\ BroadcastNext
          /\ UNCHANGED <<wakeVars, hostUpdateVars, nameVars, noteVars, chatVars, explainVars, linkVars>>
       \/ /\ which = "update" /\ HostUpdateNext
          /\ UNCHANGED <<wakeVars, broadcastVars, nameVars, noteVars, chatVars, explainVars, linkVars>>
       \/ /\ which = "names" /\ NamesNext
          /\ UNCHANGED <<wakeVars, broadcastVars, hostUpdateVars, noteVars, chatVars, explainVars, linkVars>>
       \/ /\ which = "notes" /\ NotesNext
          /\ UNCHANGED <<wakeVars, broadcastVars, hostUpdateVars, nameVars, chatVars, explainVars, linkVars>>
       \/ /\ which = "chat" /\ ChatNext
          /\ UNCHANGED <<wakeVars, broadcastVars, hostUpdateVars, nameVars, noteVars, explainVars, linkVars>>
       \/ /\ which = "explain" /\ ExplainNext
          /\ UNCHANGED <<wakeVars, broadcastVars, hostUpdateVars, nameVars, noteVars, chatVars, linkVars>>
       \/ /\ which = "link" /\ LinkNext
          /\ UNCHANGED <<wakeVars, broadcastVars, hostUpdateVars, nameVars, noteVars, chatVars, explainVars>>
jobsVars == <<which, wakeVars, broadcastVars, hostUpdateVars, nameVars, noteVars, chatVars, explainVars, linkVars>>

\* The fairness of each component, where it is the one that moves.
JobsFair ==
    /\ WF_wakeVars(which = "wake" /\ TickWakes)
    /\ WF_wakeVars(which = "wake" /\ QueueEnds)
    /\ WF_wakeVars(which = "wake" /\ TimePasses)
    /\ WF_wakeVars(which = "wake" /\ Settles)
    /\ WF_broadcastVars(which = "round" /\ ProgressReads)
    /\ WF_broadcastVars(which = "round" /\ ProgressJudges)
    /\ WF_broadcastVars(which = "round" /\ SummaryRuns)
    /\ \A c \in Picked : WF_broadcastVars(which = "round" /\ SettleEnds(c))
    /\ \A r \in 1 .. MaxSummaries :
          /\ WF_broadcastVars(which = "round" /\ ChildEnds(r))
          /\ WF_broadcastVars(which = "round" /\ SummaryAnnounced(r))
    /\ WF_hostUpdateVars(which = "update" /\ HostLinkUp)
    /\ WF_hostUpdateVars(which = "update" /\ HostHearsOrder)
    /\ WF_hostUpdateVars(which = "update" /\ HostHearsCancel)
    /\ WF_hostUpdateVars(which = "update" /\ HostPumps)
    /\ WF_hostUpdateVars(which = "update" /\ HostRestarts)
    /\ WF_hostUpdateVars(which = "update" /\ MacWelcomed)
    /\ WF_hostUpdateVars(which = "update" /\ MacRefused)
    /\ WF_hostUpdateVars(which = "update" /\ MacIsBehind)
    /\ WF_hostUpdateVars(which = "update" /\ MacHearsProgress)
    /\ WF_hostUpdateVars(which = "update" /\ AnswerIsLate)
    /\ WF_hostUpdateVars(which = "update" /\ MacGivesUp)
    /\ WF_nameVars(which = "names" /\ TickApplies)
    /\ WF_nameVars(which = "names" /\ TickTells)
    /\ \A i \in NamedRows :
          /\ WF_nameVars(which = "names" /\ TickReads(i))
          /\ WF_nameVars(which = "names" /\ SetNameOpens(i))
          /\ WF_nameVars(which = "names" /\ SetNameWrites(i))
          /\ WF_nameVars(which = "names" /\ SetNameMarks(i))
    /\ WF_noteVars(which = "notes" /\ TickSummary)
    /\ WF_noteVars(which = "notes" /\ SyncViewing)
    /\ WF_noteVars(which = "notes" /\ RelayReturns)
    /\ WF_chatVars(which = "chat" /\ Poll)
    /\ WF_chatVars(which = "chat" /\ ResolveDue)
    /\ WF_chatVars(which = "chat" /\ Ends)
    /\ WF_explainVars(which = "explain" /\ WindowHears)
    /\ WF_explainVars(which = "explain" /\ \E r \in Requests : Watchdog(r) \/ ReadsInit(r) \/ ReaderEnds(r))
    /\ \A e \in Epochs :
          WF_linkVars(which = "link" /\ (HostStep(e) \/ (threads[e].conn \notin handlers /\ HostDrops(e))))
    /\ \A d \in Devices :
          WF_linkVars(which = "link" /\ (PeerStep(d) \/ (peer[d].cid \notin DOMAIN room /\ PeerDrops(d))))
    /\ WF_linkVars(which = "link" /\ \E c \in handlers : HostLeft(c))
    /\ WF_linkVars(which = "link" /\ \E c \in DOMAIN room : PeerLeft(c))

JobsSpec == JobsInit /\ [][JobsNext]_jobsVars /\ JobsFair

\* The claudes of the app are rung for, answer their round and get the name they asked for.
AgentsLive == WakeLive /\ BroadcastLive /\ RequestLands

\* The update of a host and an explanation come to an end, the list and the chats of the
\* phone come up to date, and so does the link of a desktop.
PanelsLive == SuccessIsSeen /\ NeedsAreListed /\ ChatCatchesUp /\ TurnsEnd /\ (which # "link" \/ LinkComesUp)
=============================================================================
