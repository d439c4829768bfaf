------------------------------ MODULE Workers ------------------------------
(***************************************************************************)
(* hub_spawn and hub_close: workers that an instance asks for, and the     *)
(* verdict on whether each one received the task it was made for           *)
(* (crates/mulpex-core/src/mcp.rs and hook.rs, src-tauri/src/state.rs and  *)
(* pty.rs).                                                                *)
(*                                                                         *)
(* Four parties write the file delivery/<id> and none takes a lock: the    *)
(* tick that makes the child, the child's own hook, the watchdog thread of *)
(* the app, and the reaping of the row.  The caller only reads it.         *)
(***************************************************************************)
EXTENDS Naturals, Sequences, SequencesExt

CONSTANTS
    Calls,          \* calls of hub_spawn
    MaxTasks,       \* bound: tasks of one call (MAX_SPAWN_PER_CALL is 8)
    MaxKids         \* bound: tasks of all calls

ASSUME WorkersAssumption == MaxTasks \in Nat \ {0} /\ MaxKids \in Nat

VARIABLES
    spawnCall,           \* per call: where it is and what it was answered
    spawnReqs,           \* calls whose request file is in spawn/
    batches,        \* pending_spawns
    done,           \* per call: the file <token>.done, <<>> if there is none
    kids,           \* the children made, in the order of their ids
    verdict,        \* delivery/<id>
    dog             \* per child: its watchdog thread

workersVars == <<spawnCall, spawnReqs, batches, done, kids, verdict, dog>>

Asks == [at: {"idle", "asked", "await", "told", "unconfirmed"}, tasks: 0..MaxTasks,
         ids: Seq(Nat), ok: BOOLEAN]
NotDone == <<0>>      \* no child has the number 0

WorkersInit ==
    /\ spawnCall = [c \in Calls |-> [at |-> "idle", tasks |-> 0, ids |-> <<>>, ok |-> FALSE]]
    /\ spawnReqs = {} /\ batches = <<>>
    /\ done = [c \in Calls |-> NotDone]
    /\ kids = <<>> /\ verdict = <<>> /\ dog = <<>>

Kid == DOMAIN kids

-----------------------------------------------------------------------------
(* The app: requests, one child per SPAWN_STAGGER                          *)

\* The tasks of all calls so far, for the bound.
Asked == FoldFunction(+, 0, [c \in Calls |-> spawnCall[c].tasks])

\* hub_spawn: the request, and a wait for its ids.
Ask(c) ==
    /\ spawnCall[c].at = "idle"
    /\ \E n \in 1..MaxTasks :
        /\ n + Asked <= MaxKids
        /\ spawnCall' = [spawnCall EXCEPT ![c].at = "asked", ![c].tasks = n]
    /\ spawnReqs' = spawnReqs \cup {c}
    /\ UNCHANGED <<batches, done, kids, verdict, dog>>

\* The order is that of the tokens, which are random.
TakenIn == {[i \in DOMAIN s |-> [call |-> s[i], task |-> 1, ids |-> <<>>]] : s \in SetToSeqs(spawnReqs)}

\* The child and what it is told: the verdict is pending before there is a process.
Made(b) == [call |-> b.call, task |-> b.task, alive |-> TRUE, row |-> "listed",
            heard |-> "nothing", expected |-> TRUE]

\* spawn_instance_with_task_as.
KidsSpawned(b) ==
    /\ kids' = Append(kids, Made(b))
    /\ verdict' = Append(verdict, "pending")
    /\ dog' = Append(dog, "watch")

\* What is left of a batch goes back to the front; an empty one answers.
PutBack(b, rest) ==
    IF b.task > spawnCall[b.call].tasks
    THEN /\ batches' = rest
         /\ done' = [done EXCEPT ![b.call] = b.ids]
    ELSE /\ batches' = <<b>> \o rest
         /\ UNCHANGED done

\* process_spawn_requests: a request is removed, its batch waits, and once the stagger
\* is over the next child of the first batch is made, or cannot be.
TickSpawns ==
    \E taken \in TakenIn :
        LET q == batches \o taken
        IN  /\ q # <<>>
            /\ spawnReqs' = {} /\ UNCHANGED spawnCall
            /\ \/ /\ batches' = q /\ taken # <<>>
                  /\ UNCHANGED <<done, kids, verdict, dog>>
               \/ LET b == Head(q)
                      made == [b EXCEPT !.task = @ + 1, !.ids = Append(@, Len(kids) + 1)]
                  IN  KidsSpawned(b) /\ PutBack(made, Tail(q))
               \/ /\ PutBack([Head(q) EXCEPT !.task = @ + 1], Tail(q))
                  /\ UNCHANGED <<kids, verdict, dog>>

-----------------------------------------------------------------------------
(* The child                                                               *)

\* Its first prompt: the status says working, and it is the task or something else.
Begin(k) ==
    /\ kids[k].alive /\ kids[k].heard = "nothing"
    /\ \E h \in {"task", "other"} : kids' = [kids EXCEPT ![k].heard = h]
    /\ UNCHANGED <<spawnCall, spawnReqs, batches, done, verdict, dog>>

\* Mutant: a turn began, so the task has arrived.
Ruling_Any(k) == "none"

Ruling(k) == IF kids[k].heard = "task" THEN "none" ELSE "partial"

\* verify_spawn_delivery: the verdict, then the expected prompt goes.
Rule(k) ==
    /\ kids[k].alive /\ kids[k].heard # "nothing"
    /\ kids[k].expected
    /\ verdict' = [verdict EXCEPT ![k] = Ruling(k)]
    /\ kids' = [kids EXCEPT ![k].expected = FALSE]
    /\ UNCHANGED <<spawnCall, spawnReqs, batches, done, dog>>

KidDies(k) ==
    /\ kids[k].alive
    /\ kids' = [kids EXCEPT ![k].alive = FALSE]
    /\ UNCHANGED <<spawnCall, spawnReqs, batches, done, verdict, dog>>

\* reap_dead and forget_session_files.  A child that died before it was usable keeps
\* its row and its files until it is closed: it is the one this action passes over.
ReapKid(k) ==
    /\ ~kids[k].alive /\ kids[k].row # "gone"
    /\ kids' = [kids EXCEPT ![k].row = "gone", ![k].expected = FALSE]
    /\ verdict' = [verdict EXCEPT ![k] = "none"]
    /\ UNCHANGED <<spawnCall, spawnReqs, batches, done, dog>>

\* The user closes a row, or an instance with `force`.
UserClose(k) ==
    /\ kids[k].row = "listed"
    /\ kids' = [kids EXCEPT ![k].alive = FALSE, ![k].row = "closing"]
    /\ UNCHANGED <<spawnCall, spawnReqs, batches, done, verdict, dog>>

\* close_busy_reason: pending, or working.  A first turn is the only one modelled.
Busy(k) == verdict[k] = "pending" \/ (kids[k].alive /\ kids[k].heard # "nothing")

\* hub_close, the app's half: op close_instance, for one id, unforced.
HubClose(k) ==
    /\ kids[k].row = "listed" /\ ~Busy(k)
    /\ kids' = [kids EXCEPT ![k].alive = FALSE, ![k].row = "hub-closed"]
    /\ UNCHANGED <<spawnCall, spawnReqs, batches, done, verdict, dog>>

-----------------------------------------------------------------------------
(* The watchdog                                                            *)

\* delivery_settled.
Settled(k) == verdict[k] # "pending"

WatchSettled(k) ==
    /\ dog[k] = "watch" /\ Settled(k)
    /\ dog' = [dog EXCEPT ![k] = "off"]
    /\ UNCHANGED <<spawnCall, spawnReqs, batches, done, kids, verdict>>

\* It died before its first turn, or DELIVERY_TIMEOUT is over.
GivesUp(k) == TRUE

WatchGivesUp(k) ==
    /\ dog[k] = "watch" /\ ~Settled(k) /\ GivesUp(k)
    /\ dog' = [dog EXCEPT ![k] = "write"]
    /\ UNCHANGED <<spawnCall, spawnReqs, batches, done, kids, verdict>>

\* The look and the write are two calls.
WatchFails(k) ==
    /\ dog[k] = "write"
    /\ verdict' = [verdict EXCEPT ![k] = "failed"]
    /\ dog' = [dog EXCEPT ![k] = "off"]
    /\ UNCHANGED <<spawnCall, spawnReqs, batches, done, kids>>

-----------------------------------------------------------------------------
(* The caller                                                              *)

\* The ids are there; the file is consumed.
Collect(c) ==
    /\ spawnCall[c].at = "asked" /\ done[c] # NotDone
    /\ spawnCall' = [spawnCall EXCEPT ![c].at = "await", ![c].ids = done[c]]
    /\ done' = [done EXCEPT ![c] = NotDone]
    /\ UNCHANGED <<spawnReqs, batches, kids, verdict, dog>>

\* Six seconds are over.
GiveUp(c) ==
    /\ spawnCall[c].at = "asked" /\ done[c] = NotDone
    /\ spawnCall' = [spawnCall EXCEPT ![c].at = "unconfirmed"]
    /\ UNCHANGED <<spawnReqs, batches, done, kids, verdict, dog>>

With(c, words) == {k \in ToSet(spawnCall[c].ids) : verdict[k] \in words}

\* What keeps an answer from being `ok`: await_delivery's failed, mangled, pending.
Bad(c) == With(c, {"failed", "partial", "pending"})

\* await_delivery ended: nothing is pending, or a minute is over.
TellCaller(c) ==
    /\ spawnCall[c].at = "await"
    /\ spawnCall' = [spawnCall EXCEPT ![c].at = "told", ![c].ok = spawnCall[c].ids # <<>> /\ Bad(c) = {}]
    /\ UNCHANGED <<spawnReqs, batches, done, kids, verdict, dog>>

-----------------------------------------------------------------------------
Child(k) == Begin(k) \/ Rule(k) \/ KidDies(k)
KidRow(k) == ReapKid(k) \/ UserClose(k) \/ HubClose(k)
Watch(k) == WatchSettled(k) \/ WatchGivesUp(k) \/ WatchFails(k)
Caller(c) == Ask(c) \/ Collect(c) \/ GiveUp(c) \/ TellCaller(c)

WorkersNext ==
    \/ \E c \in Calls : Caller(c)
    \/ TickSpawns
    \/ \E k \in Kid : Child(k) \/ KidRow(k) \/ Watch(k)

\* The poll loop ticks and the watchdog thread runs.
WorkersFair ==
    /\ WF_workersVars(TickSpawns)
    /\ \A k \in 1..MaxKids : WF_workersVars(k \in Kid /\ Watch(k))

WorkersSpec == WorkersInit /\ [][WorkersNext]_workersVars
WorkersFairSpec == WorkersSpec /\ WorkersFair

-----------------------------------------------------------------------------
(* Properties                                                              *)

\* Types.
WorkersTypeOK ==
    /\ spawnCall \in [Calls -> Asks] /\ spawnReqs \subseteq Calls
    /\ Len(verdict) = Len(kids) /\ Len(dog) = Len(kids)
    /\ \A k \in Kid : /\ verdict[k] \in {"none", "pending", "failed", "partial"}
                      /\ dog[k] \in {"watch", "write", "off"}
                      /\ kids[k].call \in Calls /\ kids[k].task \in 1..MaxTasks

\* process_spawn_requests: however requests meet in one tick and batches wait for each
\* other, a task is given to one child only, and the ids a caller reads are its own
\* children's, in the order of its tasks.
EachTaskOnce ==
    /\ \A k, l \in Kid : kids[k].call = kids[l].call /\ kids[k].task = kids[l].task => k = l
    /\ \A c \in Calls : \A i \in DOMAIN spawnCall[c].ids :
        /\ kids[spawnCall[c].ids[i]].call = c
        /\ i > 1 => kids[spawnCall[c].ids[i - 1]].task < kids[spawnCall[c].ids[i]].task

\* hub_spawn "each instance was verified to have received the exact task you wrote": so
\* it is for every child that still has its row, whichever of the hook, the watchdog
\* and the reaper wrote the verdict last.
OkIsTrue ==
    \A c \in Calls : spawnCall[c].ok =>
        \A i \in DOMAIN spawnCall[c].ids :
            LET kid == kids[spawnCall[c].ids[i]] IN kid.row = "listed" => kid.heard = "task"

\* close_busy_reason "closing it now would lose the brief": an instance that does not
\* force never closes a child whose task was neither heard nor given up.
NoBriefLost ==
    [][\A k \in Kid : kids[k].alive /\ kids'[k].row = "hub-closed"
                      => kids[k].heard # "nothing" \/ dog[k] = "off"]_workersVars

Unresolved(k) == k \in Kid /\ verdict[k] = "pending"

\* pty.rs "Silence is not success": a delivery does not stay pending.
PendingSettles ==
    \A k \in 1..MaxKids : []<>~Unresolved(k)

\* A task of hub_spawn goes to one claude, and ok is said only when it has arrived
\* (process_spawn_requests).
WorkersInv == WorkersTypeOK /\ EachTaskOnce /\ OkIsTrue

\* No brief is lost to a close, and no delivery stays pending (close_busy_reason, pty.rs).
WorkersLive == NoBriefLost /\ PendingSettles
=============================================================================
