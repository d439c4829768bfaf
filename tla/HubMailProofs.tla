---------------------------- MODULE HubMailProofs ----------------------------
(***************************************************************************)
(* HubMail implements Mailbox, for any rows, projects and numbers of calls *)
(* and row changes.  The invariant says where a message can be: not yet    *)
(* written, in its file, in the hands of its reader, or settled, and that  *)
(* reader and bouncer never have one inbox at the same time.  A second one *)
(* adds where a row can be that something was returned for.  The second    *)
(* part is about RemotePeer, the words between two hubs, and the last      *)
(* about Mirror, a terminal of one seen in a pane of the other.            *)
(***************************************************************************)
EXTENDS HubMail, RemotePeer, Mirror, FiniteSetTheorems, WellFoundedInduction, SequenceTheorems, TLAPS

\* A call that has m still to write, or is writing it.
Unwritten(m) ==
    /\ call[m.from].tool = "send"
    /\ m \in call[m.from].left \/ call[m.from].at = m

\* What a call of i holds: its own messages to write, or others' messages to i.
CallOK(i) ==
    /\ call[i].tool = "send" =>
        /\ call[i].left \subseteq {m \in sent : m.from = i /\ file[m] = "none"}
        /\ call[i].at # None => call[i].at \in {m \in sent : m.from = i /\ file[m] # "full"}
        /\ call[i].at \notin call[i].left
        /\ call[i].got = {}
    /\ call[i].tool = "read" =>
        /\ call[i].left \subseteq {m \in Message : m.to = i}
        /\ call[i].got \subseteq {m \in sent : m.to = i /\ file[m] = "none"}
        /\ call[i].at = None
    /\ call[i].tool = "none" => call[i] = NoCall
    /\ call[i].tool # "none" => row[i] = "up"

\* What the bouncer works on is not live, and all it has listed lies there.
AppOK ==
    /\ app.at # "bounce" => app.dead = {}
    /\ app.at \in {"sweep", "bounce"} => (app.left \cup app.dead) \cap Live = {}
    /\ app.at \in {"rest", "reaped"} => app.left = {}
    /\ \A m \in app.todo : m.to \in app.dead

\* A message in a reader's hands was neither handed over nor returned, nor is it
\* about to be written (again).
HeldOK ==
    \A i \in Instance : \A m \in call[i].got : m \notin returned /\ ~Unwritten(m)

\* A message handed over has no file, now or later.
GivenOK ==
    \A m \in given : m \in sent \ returned /\ file[m] = "none" /\ ~Unwritten(m)

\* A message returned has none either, or it is the bouncer's to remove.
ReturnedOK ==
    \A m \in returned :
        /\ m \in sent /\ ~Unwritten(m)
        /\ file[m] = "none" \/ (m.to \in app.dead /\ m \notin app.todo)

\* A file is of a message that was sent.
FileOK == \A m \in Message : file[m] # "none" => m \in sent

Shape ==
    /\ row \in [Instance -> {"new", "up", "dead", "held", "gone"}]
    /\ call \in [Instance -> Call]
    /\ file \in [Message -> {"none", "open", "full"}]
    /\ sent \subseteq Message /\ given \subseteq Message /\ returned \subseteq Message
    /\ app \in [at : {"rest", "reaped", "sweep", "bounce"}, left : SUBSET Instance,
                dead : SUBSET Instance, todo : SUBSET Message]

Inv ==
    /\ Shape
    /\ \A i \in Instance : CallOK(i)
    /\ AppOK /\ HeldOK /\ GivenOK /\ ReturnedOK /\ FileOK

\* Who a message is from and to.
LEMMA MessageParts ==
    ASSUME NEW m \in Message
    PROVE  m.from \in Instance /\ m.to \in Instance /\ m.from # m.to
BY DEF Message

\* The initial state satisfies the invariant.
LEMMA InvInit == Init => Inv
BY DEF Init, Inv, Shape, CallOK, Call, NoCall, AppOK, Resting, HeldOK, GivenOK, ReturnedOK,
   FileOK, Live, LiveIn, Unwritten

\* Every step leaves the variables in their types.
LEMMA ShapeStep == Inv /\ [Next]_vars => Shape'
<1> SUFFICES ASSUME Inv, [Next]_vars PROVE Shape'
  OBVIOUS
<1> USE DEF Inv, Shape, NoCall, Sending, Reading, Call, Resting, UnchangedButCall,
      UnchangedByTick, rows, Change, Kill
<1>1. ASSUME NEW i \in Instance, Row(i) PROVE Shape'
  BY SMTT(30), <1>1 DEF Row, Open, Exit, Close, BeginSave, Restart, ReplaceWithAgent
<1>2. ASSUME NEW i \in Instance, Helper(i) PROVE Shape'
  <2>1. ASSUME NEW R \in SUBSET Instance, NEW n \in 1..MaxCalls[i], HubSend(i, R, n)
        PROVE  Shape'
    <3>1. [from : {i}, to : R, n : {n}] \subseteq Message
      BY <2>1 DEF HubSend, Reachable, Message
    <3>2. QED
      BY <2>1, <3>1 DEF HubSend
  <2>2. ASSUME NEW m \in Message, WriteOpen(i, m) \/ WriteFull(i, m) \/ TakeOne(i, m)
        PROVE  Shape'
    <3>1. CASE WriteOpen(i, m)
      BY <3>1 DEF WriteOpen
    <3>2. CASE WriteFull(i, m)
      BY <3>2 DEF WriteFull
    <3>3. CASE TakeOne(i, m)
      BY <3>3 DEF TakeOne
    <3>4. QED
      BY <2>2, <3>1, <3>2, <3>3
  <2>3. CASE ListInbox(i) \/ HandOver(i)
    BY <2>3 DEF ListInbox, HandOver, Inbox
  <2>4. QED
    BY <1>2, <2>1, <2>2, <2>3 DEF Helper
<1>3. CASE Tick
  <2>1. CASE Reap
    BY <2>1 DEF Reap
  <2>2. CASE HubSnapshot
    BY <2>2 DEF HubSnapshot
  <2>3. ASSUME NEW i \in Instance, BounceList(i) PROVE Shape'
    BY <2>3 DEF BounceList, Inbox
  <2>4. ASSUME NEW m \in Message, BounceOne(m) PROVE Shape'
    BY <2>4 DEF BounceOne
  <2>5. CASE BounceDone
    BY <2>5 DEF BounceDone
  <2>6. CASE WriteRegistry
    BY <2>6 DEF WriteRegistry
  <2>7. QED
    BY <1>3, <2>1, <2>2, <2>3, <2>4, <2>5, <2>6 DEF Tick
<1>4. CASE UNCHANGED vars
  BY <1>4 DEF vars
<1>5. QED
  BY <1>1, <1>2, <1>3, <1>4 DEF Next

\* A row change: its helper loses what it held, the files stay.
LEMMA OpenStep ==
    ASSUME Inv, Shape', NEW i \in Instance, Open(i) PROVE Inv'
<1> USE MessageParts DEF Inv, Shape, NoCall, Call, Resting, UnchangedButCall,
      UnchangedByTick, rows, Change, Kill, Unlocked, Open
<1>1. \A k \in Instance : CallOK(k)'
  BY DEF CallOK, HeldOK, FileOK, Unwritten, AppOK
<1>2. AppOK'
  BY DEF AppOK, Live, LiveIn
<1>3. HeldOK'
  BY DEF HeldOK, Unwritten, CallOK
<1>4. GivenOK'
  BY DEF GivenOK, Unwritten, CallOK, HeldOK
<1>5. ReturnedOK'
  BY DEF ReturnedOK, Unwritten, CallOK, AppOK, HeldOK, GivenOK
<1>6. FileOK'
  BY DEF FileOK, CallOK
<1>7. QED
  BY <1>1, <1>2, <1>3, <1>4, <1>5, <1>6

\* A row change: its helper loses what it held, the files stay.
LEMMA ExitStep ==
    ASSUME Inv, Shape', NEW i \in Instance, Exit(i) PROVE Inv'
<1> USE MessageParts DEF Inv, Shape, NoCall, Call, Resting, UnchangedButCall,
      UnchangedByTick, rows, Change, Kill, Unlocked, Exit
<1>1. \A k \in Instance : CallOK(k)'
  BY DEF CallOK, HeldOK, FileOK, Unwritten, AppOK
<1>2. AppOK'
  BY DEF AppOK, Live, LiveIn
<1>3. HeldOK'
  BY DEF HeldOK, Unwritten, CallOK
<1>4. GivenOK'
  BY DEF GivenOK, Unwritten, CallOK, HeldOK
<1>5. ReturnedOK'
  BY DEF ReturnedOK, Unwritten, CallOK, AppOK, HeldOK, GivenOK
<1>6. FileOK'
  BY DEF FileOK, CallOK
<1>7. QED
  BY <1>1, <1>2, <1>3, <1>4, <1>5, <1>6

\* A row change: its helper loses what it held, the files stay.
LEMMA CloseStep ==
    ASSUME Inv, Shape', NEW i \in Instance, Close(i) PROVE Inv'
<1> USE MessageParts DEF Inv, Shape, NoCall, Call, Resting, UnchangedButCall,
      UnchangedByTick, rows, Change, Kill, Unlocked, Close
<1>1. \A k \in Instance : CallOK(k)'
  BY DEF CallOK, HeldOK, FileOK, Unwritten, AppOK
<1>2. AppOK'
  BY DEF AppOK, Live, LiveIn
<1>3. HeldOK'
  BY DEF HeldOK, Unwritten, CallOK
<1>4. GivenOK'
  BY DEF GivenOK, Unwritten, CallOK, HeldOK
<1>5. ReturnedOK'
  BY DEF ReturnedOK, Unwritten, CallOK, AppOK, HeldOK, GivenOK
<1>6. FileOK'
  BY DEF FileOK, CallOK
<1>7. QED
  BY <1>1, <1>2, <1>3, <1>4, <1>5, <1>6

\* A row change: its helper loses what it held, the files stay.
LEMMA BeginSaveStep ==
    ASSUME Inv, Shape', NEW i \in Instance, BeginSave(i) PROVE Inv'
<1> USE MessageParts DEF Inv, Shape, NoCall, Call, Resting, UnchangedButCall,
      UnchangedByTick, rows, Change, Kill, Unlocked, BeginSave
<1>1. \A k \in Instance : CallOK(k)'
  BY DEF CallOK, HeldOK, FileOK, Unwritten, AppOK
<1>2. AppOK'
  BY DEF AppOK, Live, LiveIn
<1>3. HeldOK'
  BY DEF HeldOK, Unwritten, CallOK
<1>4. GivenOK'
  BY DEF GivenOK, Unwritten, CallOK, HeldOK
<1>5. ReturnedOK'
  BY DEF ReturnedOK, Unwritten, CallOK, AppOK, HeldOK, GivenOK
<1>6. FileOK'
  BY DEF FileOK, CallOK
<1>7. QED
  BY <1>1, <1>2, <1>3, <1>4, <1>5, <1>6

\* A row change: its helper loses what it held, the files stay.
LEMMA RestartStep ==
    ASSUME Inv, Shape', NEW i \in Instance, Restart(i) PROVE Inv'
<1> USE MessageParts DEF Inv, Shape, NoCall, Call, Resting, UnchangedButCall,
      UnchangedByTick, rows, Change, Kill, Unlocked, Restart
<1>1. \A k \in Instance : CallOK(k)'
  BY DEF CallOK, HeldOK, FileOK, Unwritten, AppOK
<1>2. AppOK'
  BY DEF AppOK, Live, LiveIn
<1>3. HeldOK'
  BY DEF HeldOK, Unwritten, CallOK
<1>4. GivenOK'
  BY DEF GivenOK, Unwritten, CallOK, HeldOK
<1>5. ReturnedOK'
  BY DEF ReturnedOK, Unwritten, CallOK, AppOK, HeldOK, GivenOK
<1>6. FileOK'
  BY DEF FileOK, CallOK
<1>7. QED
  BY <1>1, <1>2, <1>3, <1>4, <1>5, <1>6

\* A row change: its helper loses what it held, the files stay.
LEMMA ReplaceWithAgentStep ==
    ASSUME Inv, Shape', NEW i \in Instance, ReplaceWithAgent(i) PROVE Inv'
<1> USE MessageParts DEF Inv, Shape, NoCall, Call, Resting, UnchangedButCall,
      UnchangedByTick, rows, Change, Kill, Unlocked, ReplaceWithAgent
<1>1. \A k \in Instance : CallOK(k)'
  BY DEF CallOK, HeldOK, FileOK, Unwritten, AppOK
<1>2. AppOK'
  BY DEF AppOK, Live, LiveIn
<1>3. HeldOK'
  BY DEF HeldOK, Unwritten, CallOK
<1>4. GivenOK'
  BY DEF GivenOK, Unwritten, CallOK, HeldOK
<1>5. ReturnedOK'
  BY DEF ReturnedOK, Unwritten, CallOK, AppOK, HeldOK, GivenOK
<1>6. FileOK'
  BY DEF FileOK, CallOK
<1>7. QED
  BY <1>1, <1>2, <1>3, <1>4, <1>5, <1>6

\* A new call: its messages are new, so nothing is known of them.
LEMMA HubSendStep ==
    ASSUME Inv, Shape', NEW i \in Instance, NEW R \in SUBSET Instance,
         NEW n \in 1..MaxCalls[i],
           HubSend(i, R, n) PROVE Inv'
<1>1. call'[i] = Sending([from : {i}, to : R, n : {n}], None)
        /\ \A k \in Instance \ {i} : call'[k] = call[k]
  BY DEF Inv, Shape, HubSend
<1> USE DEF Inv, Shape, NoCall, Call, Resting, UnchangedButCall, UnchangedByTick, rows,
      Change, Kill, Unlocked, Sending, Reading, Idle, HubSend
<1>0. /\ [from : {i}, to : R, n : {n}] \subseteq Message
      /\ \A x \in [from : {i}, to : R, n : {n}] :
            x \in Message \ sent /\ x.from = i /\ file[x] = "none"
  <2>1. [from : {i}, to : R, n : {n}] \subseteq Message
    BY DEF Reachable, Message
  <2>2. \A x \in [from : {i}, to : R, n : {n}] : x.from = i /\ x.n = n /\ x.n \in Nat
    BY HubMailAssumption
  <2>3. \A x \in [from : {i}, to : R, n : {n}] : x \notin sent
    BY <2>2
  <2>4. QED
    BY <2>1, <2>2, <2>3 DEF FileOK
<1>2. \A x \in Message : Unwritten(x)' => Unwritten(x) \/ x \in [from : {i}, to : R,
        n : {n}]
  BY <1>1, MessageParts, HubMailAssumption DEF Unwritten, CallOK
<1>3. \A k \in Instance : CallOK(k)'
  <2>1. CallOK(i)'
    BY <1>1, MessageParts, HubMailAssumption, <1>0 DEF CallOK, HeldOK, FileOK, Inbox,
         Unwritten, AppOK
  <2>2. ASSUME NEW k \in Instance \ {i} PROVE CallOK(k)'
    BY <1>1, <2>2, MessageParts, HubMailAssumption DEF CallOK, HeldOK, FileOK, Inbox,
         Unwritten, AppOK
  <2>3. QED
    BY <2>1, <2>2
<1>4. AppOK'
  BY DEF AppOK, Live, LiveIn
<1>5. HeldOK'
  BY <1>1, <1>2, <1>0 DEF HeldOK, CallOK
<1>6. GivenOK'
  BY <1>1, <1>2, <1>0 DEF GivenOK, CallOK, HeldOK
<1>7. ReturnedOK'
  BY <1>1, <1>2, <1>0 DEF ReturnedOK, CallOK
<1>8. FileOK'
  BY DEF FileOK, CallOK
<1>9. QED
  BY <1>3, <1>4, <1>5, <1>6, <1>7, <1>8

\* A file is created: only of a message nobody holds yet.
LEMMA WriteOpenStep ==
    ASSUME Inv, Shape', NEW i \in Instance, NEW m \in Message, WriteOpen(i, m) PROVE Inv'
<1>1. call'[i] = Sending(call[i].left \ {m}, m)
        /\ \A k \in Instance \ {i} : call'[k] = call[k]
  BY DEF Inv, Shape, WriteOpen
<1> USE DEF Inv, Shape, NoCall, Call, Resting, UnchangedButCall, UnchangedByTick, rows,
      Change, Kill, Unlocked, Sending, Reading, Idle, WriteOpen
<1>0. m \in sent /\ m.from = i /\ Unwritten(m)
  BY DEF CallOK, Unwritten
<1>2. \A x \in Message : Unwritten(x)' => Unwritten(x)
  BY <1>1, MessageParts, HubMailAssumption DEF Unwritten, CallOK
<1>3. \A k \in Instance : CallOK(k)'
  <2>1. CallOK(i)'
    BY <1>1, MessageParts, HubMailAssumption, <1>0 DEF CallOK, HeldOK, FileOK, Inbox,
         Unwritten, AppOK
  <2>2. ASSUME NEW k \in Instance \ {i} PROVE CallOK(k)'
    BY <1>1, <2>2, MessageParts, HubMailAssumption DEF CallOK, HeldOK, FileOK, Inbox,
         Unwritten, AppOK
  <2>3. QED
    BY <2>1, <2>2
<1>4. AppOK'
  BY DEF AppOK, Live, LiveIn
<1>5. HeldOK'
  BY <1>1, <1>2, <1>0 DEF HeldOK, CallOK
<1>6. GivenOK'
  BY <1>1, <1>2, <1>0 DEF GivenOK, CallOK, HeldOK
<1>7. ReturnedOK'
  BY <1>1, <1>2, <1>0 DEF ReturnedOK, CallOK
<1>8. FileOK'
  BY DEF FileOK, CallOK
<1>9. QED
  BY <1>3, <1>4, <1>5, <1>6, <1>7, <1>8

\* A file is filled: the message is written from here on.
LEMMA WriteFullStep ==
    ASSUME Inv, Shape', NEW i \in Instance, NEW m \in Message, WriteFull(i, m) PROVE Inv'
<1>1. call'[i] = (IF call[i].left = {} THEN NoCall ELSE Sending(call[i].left, None))
        /\ \A k \in Instance \ {i} : call'[k] = call[k]
  BY DEF Inv, Shape, WriteFull
<1> USE DEF Inv, Shape, NoCall, Call, Resting, UnchangedButCall, UnchangedByTick, rows,
      Change, Kill, Unlocked, Sending, Reading, Idle, WriteFull
<1>0. m \in sent /\ m.from = i /\ Unwritten(m)
  BY DEF CallOK, Unwritten
<1>2. \A x \in Message : Unwritten(x)' => Unwritten(x)
  BY <1>1, MessageParts, HubMailAssumption DEF Unwritten, CallOK
<1>3. \A k \in Instance : CallOK(k)'
  <2>1. CallOK(i)'
    BY <1>1, MessageParts, HubMailAssumption, <1>0 DEF CallOK, HeldOK, FileOK, Inbox,
         Unwritten, AppOK
  <2>2. ASSUME NEW k \in Instance \ {i} PROVE CallOK(k)'
    BY <1>1, <2>2, MessageParts, HubMailAssumption DEF CallOK, HeldOK, FileOK, Inbox,
         Unwritten, AppOK
  <2>3. QED
    BY <2>1, <2>2
<1>4. AppOK'
  BY DEF AppOK, Live, LiveIn
<1>5. HeldOK'
  BY <1>1, <1>2, <1>0 DEF HeldOK, CallOK
<1>6. GivenOK'
  BY <1>1, <1>2, <1>0 DEF GivenOK, CallOK, HeldOK
<1>7. ReturnedOK'
  BY <1>1, <1>2, <1>0 DEF ReturnedOK, CallOK
<1>8. FileOK'
  BY DEF FileOK, CallOK
<1>9. QED
  BY <1>3, <1>4, <1>5, <1>6, <1>7, <1>8

\* A reader lists its inbox.
LEMMA ListInboxStep ==
    ASSUME Inv, Shape', NEW i \in Instance, ListInbox(i) PROVE Inv'
<1>1. call'[i] = Reading(Inbox(i), {}) /\ \A k \in Instance \ {i} : call'[k] = call[k]
  BY DEF Inv, Shape, ListInbox
<1> USE DEF Inv, Shape, NoCall, Call, Resting, UnchangedButCall, UnchangedByTick, rows,
      Change, Kill, Unlocked, Sending, Reading, Idle, ListInbox
<1>2. \A x \in Message : Unwritten(x)' => Unwritten(x)
  BY <1>1, MessageParts, HubMailAssumption DEF Unwritten, CallOK
<1>3. \A k \in Instance : CallOK(k)'
  <2>1. CallOK(i)'
    BY <1>1, MessageParts, HubMailAssumption DEF CallOK, HeldOK, FileOK, Inbox,
         Unwritten, AppOK
  <2>2. ASSUME NEW k \in Instance \ {i} PROVE CallOK(k)'
    BY <1>1, <2>2, MessageParts, HubMailAssumption DEF CallOK, HeldOK, FileOK, Inbox,
         Unwritten, AppOK
  <2>3. QED
    BY <2>1, <2>2
<1>4. AppOK'
  BY DEF AppOK, Live, LiveIn
<1>5. HeldOK'
  BY <1>1, <1>2 DEF HeldOK, CallOK
<1>6. GivenOK'
  BY <1>1, <1>2 DEF GivenOK, CallOK, HeldOK
<1>7. ReturnedOK'
  BY <1>1, <1>2 DEF ReturnedOK, CallOK
<1>8. FileOK'
  BY DEF FileOK, CallOK
<1>9. QED
  BY <1>3, <1>4, <1>5, <1>6, <1>7, <1>8

\* A reader takes one file; it is up, so the bouncer is not at its inbox.
LEMMA TakeOneStep ==
    ASSUME Inv, Shape', NEW i \in Instance, NEW m \in Message, TakeOne(i, m) PROVE Inv'
<1>1. call'[i] = Reading(call[i].left \ {m},
        IF file[m] = "full" THEN call[i].got \cup {m} ELSE call[i].got)
             /\ \A k \in Instance \ {i} : call'[k] = call[k]
  BY DEF Inv, Shape, TakeOne
<1> USE DEF Inv, Shape, NoCall, Call, Resting, UnchangedButCall, UnchangedByTick, rows,
      Change, Kill, Unlocked, Sending, Reading, Idle, TakeOne
<1>2. \A x \in Message : Unwritten(x)' => Unwritten(x)
  BY <1>1, MessageParts, HubMailAssumption DEF Unwritten, CallOK
<1>3. \A k \in Instance : CallOK(k)'
  <2>1. CallOK(i)'
    BY <1>1, MessageParts, HubMailAssumption DEF CallOK, HeldOK, FileOK, Inbox,
         Unwritten, AppOK
  <2>2. ASSUME NEW k \in Instance \ {i} PROVE CallOK(k)'
    BY <1>1, <2>2, MessageParts, HubMailAssumption DEF CallOK, HeldOK, FileOK, Inbox,
         Unwritten, AppOK
  <2>3. QED
    BY <2>1, <2>2
<1>4. AppOK'
  BY DEF AppOK, Live, LiveIn
<1>5. HeldOK'
  <2>1. file[m] = "full" => ~Unwritten(m)
    BY MessageParts, HubMailAssumption DEF CallOK, Unwritten
  <2>2. m.to = i /\ row[i] = "up"
    BY DEF CallOK
  <2>3. i \notin app.dead
    BY <2>2 DEF AppOK, Live, LiveIn
  <2>4. file[m] = "full" => m \notin returned
    BY <2>2, <2>3 DEF ReturnedOK
  <2>5. QED
    BY <1>1, <1>2, <2>1, <2>4 DEF HeldOK, CallOK
<1>6. GivenOK'
  BY <1>1, <1>2 DEF GivenOK, CallOK, HeldOK
<1>7. ReturnedOK'
  BY <1>1, <1>2 DEF ReturnedOK, CallOK
<1>8. FileOK'
  BY DEF FileOK, CallOK
<1>9. QED
  BY <1>3, <1>4, <1>5, <1>6, <1>7, <1>8

\* The reader hands over what nobody has returned.
LEMMA HandOverStep ==
    ASSUME Inv, Shape', NEW i \in Instance, HandOver(i) PROVE Inv'
<1> USE MessageParts DEF Inv, Shape, NoCall, Call, Resting, UnchangedButCall,
      UnchangedByTick, rows, Change, Kill, Unlocked, HandOver
<1>1. \A k \in Instance : CallOK(k)'
  BY DEF CallOK, HeldOK, FileOK, Unwritten, AppOK
<1>2. AppOK'
  BY DEF AppOK, Live, LiveIn
<1>3. HeldOK'
  BY DEF HeldOK, Unwritten, CallOK
<1>4. GivenOK'
  BY DEF GivenOK, Unwritten, CallOK, HeldOK
<1>5. ReturnedOK'
  BY DEF ReturnedOK, Unwritten, CallOK, AppOK, HeldOK, GivenOK
<1>6. FileOK'
  BY DEF FileOK, CallOK
<1>7. QED
  BY <1>1, <1>2, <1>3, <1>4, <1>5, <1>6

\* Rows without a process leave the list.
LEMMA ReapStep ==
    ASSUME Inv, Shape', Reap PROVE Inv'
<1> USE MessageParts DEF Inv, Shape, NoCall, Call, Resting, UnchangedButCall,
      UnchangedByTick, rows, Change, Kill, Unlocked, Reap
<1>1. \A k \in Instance : CallOK(k)'
  BY DEF CallOK, Removable
<1>2. AppOK'
  BY DEF AppOK, Live, LiveIn
<1>3. HeldOK'
  BY DEF HeldOK, Unwritten, CallOK
<1>4. GivenOK'
  BY DEF GivenOK, Unwritten, CallOK, HeldOK
<1>5. ReturnedOK'
  BY DEF ReturnedOK, Unwritten, CallOK, AppOK, HeldOK, GivenOK
<1>6. FileOK'
  BY DEF FileOK, CallOK
<1>7. QED
  BY <1>1, <1>2, <1>3, <1>4, <1>5, <1>6

\* The dead inboxes are found.
LEMMA HubSnapshotStep ==
    ASSUME Inv, Shape', HubSnapshot PROVE Inv'
<1>1. UNCHANGED <<row, call, file, sent, given, returned>>
  BY DEF HubSnapshot, UnchangedByTick, rows
<1>2. \A k \in Instance : CallOK(k)'
  BY <1>1 DEF Inv, CallOK
<1>3. HeldOK' /\ GivenOK' /\ FileOK'
  BY <1>1 DEF Inv, HeldOK, GivenOK, FileOK, Unwritten
<1>4. AppOK' /\ ReturnedOK'
  BY <1>1 DEF Inv, Shape, HubSnapshot, AppOK, ReturnedOK, Unwritten, Live, LiveIn
<1>5. QED
  BY <1>2, <1>3, <1>4 DEF Inv

\* One dead inbox is listed.
LEMMA BounceListStep ==
    ASSUME Inv, Shape', NEW i \in Instance, BounceList(i) PROVE Inv'
<1>1. UNCHANGED <<row, call, file, sent, given, returned>>
  BY DEF BounceList, UnchangedByTick, rows
<1>2. \A k \in Instance : CallOK(k)'
  BY <1>1 DEF Inv, CallOK
<1>3. HeldOK' /\ GivenOK' /\ FileOK'
  BY <1>1 DEF Inv, HeldOK, GivenOK, FileOK, Unwritten
<1>4. AppOK'
  <2>1. /\ app'.at = "bounce" /\ app'.dead = {i} /\ app'.left = app.left \ {i}
        /\ app'.todo = Inbox(i) /\ app.at = "sweep" /\ i \in app.left
    BY DEF Inv, Shape, BounceList
  <2>2. QED
    BY <1>1, <2>1 DEF Inv, AppOK, Live, LiveIn, Inbox
<1>5. ReturnedOK'
  <2>1. app.dead = {} /\ \A m \in Message : (Unwritten(m)' <=> Unwritten(m))
    BY <1>1 DEF Inv, AppOK, BounceList, Unwritten
  <2>2. QED
    BY <1>1, <2>1 DEF Inv, Shape, ReturnedOK
<1>6. QED
  BY <1>2, <1>3, <1>4, <1>5 DEF Inv

\* One message is answered: it is in its file, so nobody was handed it.
LEMMA BounceOneStep ==
    ASSUME Inv, Shape', NEW m \in Message, BounceOne(m) PROVE Inv'
<1>1. /\ UNCHANGED <<row, call, file, sent, given>>
      /\ app' = [app EXCEPT !.todo = @ \ {m}] /\ m \in app.todo
      /\ returned' \subseteq returned \cup {x \in {m} : file[x] = "full"}
  BY DEF BounceOne, UnchangedByTick, rows
<1>2. \A k \in Instance : CallOK(k)'
  BY <1>1 DEF Inv, CallOK
<1>3. AppOK' /\ FileOK'
  BY <1>1 DEF Inv, Shape, AppOK, FileOK, Live, LiveIn
<1>4. \A x \in Message : Unwritten(x)' <=> Unwritten(x)
  BY <1>1 DEF Unwritten
<1>5. file[m] = "full" => m \in sent /\ ~Unwritten(m)
  BY MessageParts, HubMailAssumption DEF Inv, Shape, FileOK, CallOK, Unwritten
<1>6. HeldOK' /\ GivenOK'
  <2>1. \A i \in Instance : \A x \in call[i].got : x \in Message /\ file[x] = "none"
    BY DEF Inv, Shape, CallOK, Call, NoCall
  <2>2. QED
    BY <1>1, <1>4, <2>1 DEF Inv, Shape, HeldOK, GivenOK
<1>7. ReturnedOK'
  BY <1>1, <1>4, <1>5 DEF Inv, Shape, ReturnedOK, AppOK
<1>8. QED
  BY <1>2, <1>3, <1>6, <1>7 DEF Inv

\* The dead inbox goes.
LEMMA BounceDoneStep ==
    ASSUME Inv, Shape', BounceDone PROVE Inv'
<1> USE MessageParts DEF Inv, Shape, NoCall, Call, Resting, UnchangedButCall,
      UnchangedByTick, rows, Change, Kill, Unlocked, BounceDone
<1>1. \A k \in Instance : CallOK(k)'
  BY DEF CallOK, HeldOK, FileOK, Unwritten, AppOK
<1>2. AppOK'
  BY DEF AppOK, Live, LiveIn
<1>3. HeldOK'
  BY DEF HeldOK, Unwritten, CallOK
<1>4. GivenOK'
  BY DEF GivenOK, Unwritten, CallOK, HeldOK
<1>5. ReturnedOK'
  BY DEF ReturnedOK, Unwritten, CallOK, AppOK, HeldOK, GivenOK
<1>6. FileOK'
  BY DEF FileOK, CallOK
<1>7. QED
  BY <1>1, <1>2, <1>3, <1>4, <1>5, <1>6

\* The tick ends.
LEMMA WriteRegistryStep ==
    ASSUME Inv, Shape', WriteRegistry PROVE Inv'
<1> USE MessageParts DEF Inv, Shape, NoCall, Call, Resting, UnchangedButCall,
      UnchangedByTick, rows, Change, Kill, Unlocked, WriteRegistry
<1>1. \A k \in Instance : CallOK(k)'
  BY DEF CallOK, HeldOK, FileOK, Unwritten, AppOK
<1>2. AppOK'
  BY DEF AppOK, Live, LiveIn
<1>3. HeldOK'
  BY DEF HeldOK, Unwritten, CallOK
<1>4. GivenOK'
  BY DEF GivenOK, Unwritten, CallOK, HeldOK
<1>5. ReturnedOK'
  BY DEF ReturnedOK, Unwritten, CallOK, AppOK, HeldOK, GivenOK
<1>6. FileOK'
  BY DEF FileOK, CallOK
<1>7. QED
  BY <1>1, <1>2, <1>3, <1>4, <1>5, <1>6


\* Every step keeps the invariant.
LEMMA InvStep == Inv /\ [Next]_vars => Inv'
<1> SUFFICES ASSUME Inv, [Next]_vars PROVE Inv'
  OBVIOUS
<1>1. Shape'
  BY ShapeStep
<1>2. ASSUME NEW i \in Instance, Row(i) PROVE Inv'
  BY <1>1, <1>2, OpenStep, ExitStep, CloseStep, BeginSaveStep, RestartStep,
     ReplaceWithAgentStep DEF Row
<1>3. ASSUME NEW i \in Instance, Helper(i) PROVE Inv'
  BY <1>1, <1>3, HubSendStep, WriteOpenStep, WriteFullStep, TakeOneStep, ListInboxStep,
     HandOverStep DEF Helper
<1>4. CASE Tick
  BY <1>1, <1>4, ReapStep, HubSnapshotStep, BounceListStep, BounceOneStep, BounceDoneStep,
     WriteRegistryStep DEF Tick
<1>5. CASE UNCHANGED vars
  BY <1>5 DEF vars, rows, Inv, Shape, CallOK, AppOK, HeldOK, GivenOK, ReturnedOK, FileOK,
     Unwritten, Live, LiveIn
<1>6. QED
  BY <1>2, <1>3, <1>4, <1>5 DEF Next

\* In every state the invariant holds.
THEOREM MailInvariant == Spec => []Inv
BY InvInit, InvStep, PTL DEF Spec

\* A step of the hub accepts, hands over or returns messages as Mailbox allows, or
\* is no step of it.
LEMMA StepKeepsPromise == Inv /\ [Next]_vars => [Promise!Next]_(Promise!mbox)
<1> SUFFICES ASSUME Inv, [Next]_vars PROVE [Promise!Next]_(Promise!mbox)
  OBVIOUS
<1> USE DEF Promise!Next, Promise!mbox
<1>1. CASE UNCHANGED <<sent, given, returned>>
  BY <1>1
<1>2. ASSUME NEW i \in Instance, NEW R \in SUBSET Instance, NEW n \in 1..MaxCalls[i],
             HubSend(i, R, n)
      PROVE  [Promise!Next]_(Promise!mbox)
  <2>1. [from : {i}, to : R, n : {n}] \in SUBSET Message
    BY <1>2 DEF HubSend, Reachable, Message
  <2>2. Promise!Accept([from : {i}, to : R, n : {n}])
    BY <1>2 DEF HubSend, Promise!Accept
  <2>3. QED
    BY <2>1, <2>2
<1>3. ASSUME NEW i \in Instance, HandOver(i) PROVE [Promise!Next]_(Promise!mbox)
  <2>1. call[i].got \in SUBSET Message /\ call[i].got \subseteq sent \ returned
    BY <1>3 DEF Inv, Shape, Call, CallOK, HeldOK, HandOver
  <2>2. Promise!Give(call[i].got)
    BY <1>3, <2>1 DEF HandOver, Promise!Give
  <2>3. QED
    BY <2>1, <2>2
<1>4. ASSUME NEW m \in Message, BounceOne(m) PROVE [Promise!Next]_(Promise!mbox)
  <2>1. CASE file[m] = "full" /\ Returnable(m)
    <3>1. m \in sent \ given
      BY <2>1 DEF Inv, FileOK, GivenOK
    <3>2. Promise!Return(m)
      BY <1>4, <2>1, <3>1 DEF BounceOne, UnchangedByTick, Promise!Return
    <3>3. QED
      BY <3>2
  <2>2. CASE ~(file[m] = "full" /\ Returnable(m))
    BY <1>4, <2>2, <1>1 DEF BounceOne, UnchangedByTick
  <2>3. QED
    BY <2>1, <2>2
<1>5. ASSUME NEW i \in Instance, Row(i) PROVE UNCHANGED <<sent, given, returned>>
  BY <1>5 DEF Row, Open, Exit, Close, BeginSave, Restart, ReplaceWithAgent
<1>6. ASSUME NEW i \in Instance, Helper(i) PROVE [Promise!Next]_(Promise!mbox)
  <2>1. CASE ListInbox(i) \/ \E m \in Message : WriteOpen(i, m) \/ WriteFull(i,
          m) \/ TakeOne(i, m)
    BY <1>1, <2>1 DEF ListInbox, WriteOpen, WriteFull, TakeOne, UnchangedButCall
  <2>2. QED
    BY <1>2, <1>3, <1>6, <2>1 DEF Helper
<1>7. CASE Tick
  <2>1. CASE Reap \/ HubSnapshot \/ BounceDone \/ WriteRegistry \/ \E i \in Instance : BounceList(i)
    BY <1>1, <2>1 DEF Reap, HubSnapshot, BounceDone, WriteRegistry, BounceList,
         UnchangedByTick
  <2>2. QED
    BY <1>4, <1>7, <2>1 DEF Tick
<1>8. CASE UNCHANGED vars
  BY <1>1, <1>8 DEF vars
<1>9. QED
  BY <1>1, <1>5, <1>6, <1>7, <1>8 DEF Next

\* The hub keeps the promise of Mailbox (hub_send, take_inbox, bounce_dead_inbox): no
\* message is both handed over and reported as not delivered, for any number of rows
\* and projects, whoever dies, is held, restarted or replaced at whatever moment.
THEOREM HubKeepsPromise == Spec => KeepsPromise
<1>1. Init => Promise!Init
  BY DEF Init, Promise!Init
<1>2. QED
  BY <1>1, MailInvariant, StepKeepsPromise, PTL DEF Spec, KeepsPromise, Promise!Spec

\* What MailInv needs of the rows: who can be written to was opened once, and what is
\* returned was for a row that is held or gone, or whose number goes on by decision.
KeptOK ==
    /\ closing \subseteq Instance /\ handed \subseteq Instance
    /\ changes \in 0..MaxChanges
    /\ list \subseteq Instance /\ reg \subseteq Instance
    /\ \A i \in list \cup reg : row[i] # "new"
    /\ \A m \in sent : row[m.to] # "new"
    /\ RestartKeepsMail

\* The initial state satisfies it.
LEMMA KeptInit == Init => KeptOK
<1> SUFFICES ASSUME Init PROVE KeptOK
  OBVIOUS
<1>1. \A i \in list \cup reg : i \in Restored /\ row[i] = "up"
  BY HubMailAssumption DEF Init
<1>2. sent = {} /\ RestartKeepsMail
  BY DEF Init, RestartKeepsMail
<1>3. closing = {} /\ handed = {} /\ reg = {} /\ list \subseteq Instance
  BY HubMailAssumption DEF Init
<1>4. changes \in 0..MaxChanges
  BY HubMailAssumption DEF Init
<1>5. QED
  BY <1>1, <1>2, <1>3, <1>4 DEF KeptOK

\* A row operation closes or hands over what it takes out of held or gone.
LEMMA KeptRow ==
    ASSUME Inv, KeptOK, NEW i \in Instance, Row(i) PROVE KeptOK'
<1> USE HubMailAssumption, MessageParts
<1>0. Shape /\ returned \subseteq sent /\ sent \subseteq Message
  BY DEF Inv, ReturnedOK, Shape
<1>1. UNCHANGED <<sent, returned, reg>>
  BY DEF Row, Open, Exit, Close, BeginSave, Restart, ReplaceWithAgent
<1>2. \E s \in {"up", "dead", "held"} :
        row' = [row EXCEPT ![i] = s] /\ changes' = changes + 1 /\ changes < MaxChanges
  BY DEF Row, Open, Exit, Close, BeginSave, Restart, ReplaceWithAgent, Change
<1>3. /\ closing' \in {closing, closing \cup {i}} /\ handed' \in {handed, handed \cup {i}}
      /\ list' \in {list, LiveIn(row')}
  BY DEF Row, Open, Exit, Close, BeginSave, Restart, ReplaceWithAgent, Publish
<1>4. row' \in [Instance -> {"new", "up", "dead", "held", "gone"}] /\ row'[i] # "new"
      /\ \A k \in Instance \ {i} : row'[k] = row[k]
  BY <1>0, <1>2 DEF Shape
<1>5. \A k \in list' \cup reg' : row'[k] # "new"
  BY <1>1, <1>3, <1>4 DEF KeptOK, LiveIn
<1>6. \A m \in sent' : row'[m.to] # "new"
  BY <1>0, <1>1, <1>4 DEF KeptOK
<1>7. row[i] \in {"held", "gone"} =>
        row'[i] \in {"held", "gone"} \/ i \in closing' \/ i \in handed'
  BY <1>0 DEF Row, Open, Exit, Close, BeginSave, Restart, ReplaceWithAgent, Change, Shape
<1>8. RestartKeepsMail'
  BY <1>0, <1>1, <1>3, <1>4, <1>7 DEF KeptOK, RestartKeepsMail
<1>9. changes' \in 0..MaxChanges
  BY <1>2 DEF KeptOK
<1>10. list' \subseteq Instance
  BY <1>3 DEF KeptOK, LiveIn
<1>11. closing' \subseteq Instance /\ handed' \subseteq Instance /\ reg' \subseteq Instance
  BY <1>1, <1>3 DEF KeptOK
<1>12. QED
  BY <1>5, <1>6, <1>8, <1>9, <1>10, <1>11 DEF KeptOK

\* A helper writes to whom a list names, and that row was opened.
LEMMA KeptHelper ==
    ASSUME Inv, KeptOK, NEW i \in Instance, Helper(i) PROVE KeptOK'
<1>1. UNCHANGED <<row, closing, handed, changes, list, reg, returned>>
  BY DEF Helper, HubSend, WriteOpen, WriteFull, TakeOne, ListInbox, HandOver,
     UnchangedButCall, rows
<1>2. sent' = sent \/ \E R \in SUBSET Instance, n \in 1..MaxCalls[i] : HubSend(i, R, n)
  BY DEF Helper, WriteOpen, WriteFull, TakeOne, ListInbox, HandOver, UnchangedButCall
<1>3. \A m \in sent' : row[m.to] # "new"
  <2>1. ASSUME NEW R \in SUBSET Instance, NEW n \in 1..MaxCalls[i], HubSend(i, R, n)
        PROVE  \A m \in sent' : row[m.to] # "new"
    BY <2>1 DEF HubSend, Reachable, KeptOK
  <2>2. QED
    BY <1>2, <2>1 DEF KeptOK
<1>4. QED
  BY <1>1, <1>3 DEF KeptOK, RestartKeepsMail

\* A tick returns only what was for a row that is not live.
LEMMA KeptTick == ASSUME Inv, KeptOK, Tick PROVE KeptOK'
<1> USE MessageParts
<1>0. Shape /\ returned \subseteq sent /\ sent \subseteq Message
  BY DEF Inv, ReturnedOK, Shape
<1>1. CASE Reap
  <2>1. row' \in [Instance -> {"new", "up", "dead", "held", "gone"}]
        /\ \A k \in Instance : row'[k] = IF Removable(k) THEN "gone" ELSE row[k]
    BY <1>0, <1>1 DEF Reap, Shape
  <2>2. UNCHANGED <<handed, changes, reg, sent, returned>> /\ list' = LiveIn(row')
        /\ closing' = {k \in closing : ~Removable(k)}
    BY <1>1 DEF Reap, Publish
  <2>3. RestartKeepsMail'
    BY <1>0, <2>1, <2>2 DEF RestartKeepsMail, KeptOK
  <2>4. \A k \in list' \cup reg' : row'[k] # "new"
    BY <2>1, <2>2 DEF KeptOK, LiveIn
  <2>5. \A m \in sent' : row'[m.to] # "new"
    BY <1>0, <2>1, <2>2 DEF KeptOK
  <2>6. QED
    BY <2>2, <2>3, <2>4, <2>5 DEF KeptOK, LiveIn
<1>2. CASE HubSnapshot \/ BounceDone \/ \E i \in Instance : BounceList(i)
  BY <1>2 DEF HubSnapshot, BounceDone, BounceList, UnchangedByTick, rows, KeptOK,
     RestartKeepsMail
<1>3. ASSUME NEW m \in Message, BounceOne(m) PROVE KeptOK'
  <2>1. UNCHANGED <<row, closing, handed, changes, list, reg, sent>>
        /\ returned' \subseteq returned \cup {x \in {m} : file[x] = "full"}
        /\ m \in app.todo
    BY <1>3 DEF BounceOne, UnchangedByTick, rows
  <2>2. file[m] = "full" => row[m.to] \in {"held", "gone"}
    <3>1. m.to \in app.dead /\ m.to \notin Live
      BY <1>3, <2>1 DEF BounceOne, Inv, AppOK
    <3>2. file[m] = "full" => row[m.to] # "new"
      BY DEF Inv, FileOK, KeptOK
    <3>3. QED
      BY <1>0, <3>1, <3>2 DEF Live, LiveIn, Shape
  <2>3. RestartKeepsMail'
    BY <2>1, <2>2 DEF RestartKeepsMail, KeptOK
  <2>4. QED
    BY <2>1, <2>3 DEF KeptOK
<1>4. CASE WriteRegistry
  BY <1>4 DEF WriteRegistry, rows, Live, LiveIn, KeptOK, RestartKeepsMail
<1>5. QED
  BY <1>1, <1>2, <1>3, <1>4 DEF Tick

\* Every step keeps it.
LEMMA KeptStep == Inv /\ KeptOK /\ [Next]_vars => KeptOK'
<1>1. Inv /\ KeptOK /\ UNCHANGED vars => KeptOK'
  BY DEF vars, rows, KeptOK, RestartKeepsMail
<1>2. QED
  BY <1>1, KeptRow, KeptHelper, KeptTick DEF Next

\* The mail of a row that keeps its number is not returned (restart_instance,
\* hub_snapshot), whenever in a tick the row died and was restarted, for any number of
\* rows, calls and row operations.
THEOREM MailIsKept == Spec => []MailInv
<1>1. Inv /\ KeptOK => MailInv
  BY DEF Inv, Shape, KeptOK, MailInv, TypeOK
<1>2. QED
  BY <1>1, KeptInit, KeptStep, MailInvariant, InvStep, PTL DEF Spec

-----------------------------------------------------------------------------
(* The peer on another host.                                                *)

\* What is written to the driver's inbox.
PeerWakeRecords == [what : Words \cup {Quiet}, given : Nat, ended : Nat]

PeerTyped ==
    /\ peer \in {"none", "launched", "prompt", "typed", "working", "gone"}
    /\ open \in {"no", "launched", "yes"}
    /\ shown \in Seq(Words) /\ logged \in Seq(Words)
    /\ seen \in [Readers -> {<<>>} \cup {<<w>> : w \in Words}]
    /\ turns \in 0..MaxTurns /\ ends \in Seq(Words \cup {Quiet})
    /\ wakes \in Seq(PeerWakeRecords)

\* A turn ends once, and only a turn that was given: who is at work, or about to be, has
\* been given one more than ended.
TurnsGivenOK ==
    /\ peer = "none" => ~peerRow /\ turns = 0 /\ Len(ends) = 0 /\ Len(wakes) = 0 /\ awaiting = FALSE
    /\ Len(ends) <= turns
    /\ peer = "launched" => Len(ends) = 0
    /\ peer \in {"typed", "working"} => Len(ends) < turns

PeerSaid(w) == \E t \in DOMAIN ends : ends[t] = w

\* Whatever is to be seen of the peer, it printed.
PrintedOK == (\A i \in DOMAIN shown : PeerSaid(shown[i])) /\ (\A i \in DOMAIN logged : PeerSaid(logged[i]))

\* A wake knows what had been given and had ended, and says what was printed by then.
WakesTrue ==
    \A i \in DOMAIN wakes :
        /\ wakes[i].given <= turns /\ wakes[i].ended <= Len(ends)
        /\ wakes[i].what # Quiet => \E t \in 1..wakes[i].ended : ends[t] = wakes[i].what

\* A silence that is owed is of a turn that no silence has been told of.
OwedOK ==
    /\ SilenceWakesOnce
    /\ awaiting = TRUE => turns > 0 /\ \A i \in Silences : wakes[i].given < turns

\* While its terminal is there, the watch knows the signal it told last.
WatchOK ==
    /\ \A i \in DOMAIN wakes : i > 1 /\ wakes[i].what # Quiet => wakes[i].what # wakes[i - 1].what
    /\ peerRow /\ Len(wakes) > 0 /\ wakes[Len(wakes)].what # Quiet => seen["watch"] = <<wakes[Len(wakes)].what>>

PeerIInv == PeerTyped /\ TurnsGivenOK /\ PrintedOK /\ WakesTrue /\ OwedOK /\ WatchOK

-----------------------------------------------------------------------------
LEMMA PeerStart ==
    ASSUME RemotePeerInit PROVE PeerIInv
<1>1. Len(shown) = 0 /\ Len(logged) = 0 /\ Len(ends) = 0 /\ Len(wakes) = 0
  BY EmptySeq DEF RemotePeerInit
<1>2. PeerTyped
  BY EmptySeq, RemotePeerAssumption DEF RemotePeerInit, PeerTyped
<1>3. DOMAIN shown = {} /\ DOMAIN logged = {} /\ DOMAIN wakes = {}
  BY <1>1, <1>2, LenProperties DEF PeerTyped
<1>4. TurnsGivenOK
  BY <1>1 DEF RemotePeerInit, TurnsGivenOK
<1>5. PrintedOK /\ WakesTrue
  BY <1>3 DEF PrintedOK, WakesTrue
<1>6. OwedOK
  BY <1>3 DEF RemotePeerInit, OwedOK, SilenceWakesOnce, Silences
<1>7. WatchOK
  BY <1>1, <1>3 DEF WatchOK
<1> QED BY <1>2, <1>4, <1>5, <1>6, <1>7 DEF PeerIInv

LEMMA WakesKnow ==
    ASSUME PeerIInv
    PROVE  /\ turns \in Nat
           /\ \A i \in DOMAIN wakes : /\ wakes[i].given \in Nat /\ wakes[i].given <= turns
                                      /\ wakes[i].ended \in Nat /\ wakes[i].ended <= Len(ends)
<1>1. wakes \in Seq(PeerWakeRecords) /\ turns \in Nat
  BY RemotePeerAssumption DEF PeerIInv, PeerTyped
<1>2. \A i \in DOMAIN wakes : wakes[i] \in PeerWakeRecords
  BY <1>1, ElementOfSeq, LenProperties
<1> QED BY <1>1, <1>2 DEF PeerIInv, WakesTrue, PeerWakeRecords

\* A step that neither gives a turn, ends one, prints nor wakes.
LEMMA PeerStays ==
    ASSUME PeerIInv, UNCHANGED <<ends, wakes>>, turns' \in Nat, turns' >= turns, PeerTyped', TurnsGivenOK', PrintedOK',
           peerRow' => peerRow /\ seen'["watch"] = seen["watch"],
           awaiting' => awaiting /\ turns' = turns
    PROVE  PeerIInv'
<1>2. WakesTrue'
  BY WakesKnow DEF PeerIInv, WakesTrue
<1>3. OwedOK'
  BY DEF PeerIInv, OwedOK, SilenceWakesOnce, Silences
<1>4. WatchOK'
  BY DEF PeerIInv, WatchOK
<1> QED BY <1>2, <1>3, <1>4 DEF PeerIInv

\* What moves from the screen to the log, or leaves the screen, was printed.
LEMMA PeerScrolls ==
    ASSUME PeerIInv, ScrollOff \/ PaintOver PROVE PeerIInv'
<1>1. UNCHANGED <<peer, calm, peerRow, opener, meta, open, awaiting, seen, wakes, turns, ends, fresh>>
  BY DEF ScrollOff, PaintOver
<1>2. shown \in Seq(Words) /\ logged \in Seq(Words) /\ shown # <<>> /\ shown' = Tail(shown)
  BY DEF ScrollOff, PaintOver, PeerIInv, PeerTyped
<1>3. /\ Head(shown) = shown[1] /\ Head(shown) \in Words /\ 1 \in DOMAIN shown
      /\ Tail(shown) \in Seq(Words)
      /\ \A i \in DOMAIN Tail(shown) : i + 1 \in DOMAIN shown /\ Tail(shown)[i] = shown[i + 1]
  <2> PICK n \in Nat : n = Len(shown)
    BY <1>2, LenProperties
  <2>1. n > 0 /\ Tail(shown) \in Seq(Words) /\ Len(Tail(shown)) = n - 1 /\ \A i \in 1..(n - 1) : Tail(shown)[i] = shown[i + 1]
    BY <1>2, HeadTailProperties, EmptySeq
  <2>2. DOMAIN shown = 1..n /\ DOMAIN Tail(shown) = 1..(n - 1)
    BY <1>2, <2>1, LenProperties
  <2> QED BY <1>2, <2>1, <2>2, HeadTailProperties
<1>4. \A i \in DOMAIN shown' : PeerSaid(shown'[i])
  BY <1>2, <1>3 DEF PeerIInv, PrintedOK
<1>5. logged' \in Seq(Words) /\ \A i \in DOMAIN logged' : PeerSaid(logged'[i])
  <2>1. CASE logged' = logged
    BY <1>2, <2>1 DEF PeerIInv, PrintedOK
  <2>2. CASE logged' = Append(logged, Head(shown))
    <3> PICK n \in Nat : n = Len(logged)
      BY <1>2, LenProperties
    <3> PICK w \in Words : w = Head(shown)
      BY <1>3
    <3>1. /\ logged' \in Seq(Words) /\ Len(logged') = n + 1 /\ logged'[n + 1] = w
          /\ \A i \in 1..n : logged'[i] = logged[i]
      BY <1>2, <2>2, AppendProperties
    <3>2. DOMAIN logged' = 1..(n + 1) /\ DOMAIN logged = 1..n
      BY <1>2, <3>1, LenProperties
    <3>3. PeerSaid(w)
      BY <1>3 DEF PeerIInv, PrintedOK
    <3>4. ASSUME NEW i \in 1..(n + 1) PROVE PeerSaid(logged'[i])
      <4>1. i \in 1..n \/ i = n + 1
        OBVIOUS
      <4> QED BY <3>1, <3>2, <3>3, <4>1 DEF PeerIInv, PrintedOK
    <3> QED BY <3>1, <3>2, <3>4
  <2> QED BY <2>1, <2>2 DEF ScrollOff, PaintOver
<1>6. PrintedOK'
  BY <1>1, <1>4, <1>5 DEF PrintedOK, PeerSaid
<1>7. PeerTyped' /\ TurnsGivenOK'
  BY <1>1, <1>2, <1>3, <1>5 DEF PeerIInv, PeerTyped, TurnsGivenOK
<1> QED BY <1>1, <1>6, <1>7, PeerStays, RemotePeerAssumption DEF PeerIInv, PeerTyped

\* A turn that ends is one more that has, and its signal is one that was printed.
LEMMA PeerEnds ==
    ASSUME PeerIInv, EndTurn PROVE PeerIInv'
<1>1. UNCHANGED <<calm, logged, peerRow, opener, meta, open, awaiting, seen, wakes, turns>> /\ peer = "working" /\ peer' = "prompt"
  BY DEF EndTurn
<1>2. PICK w \in Words \cup {Quiet} : ends' = Append(ends, w) /\ shown' = IF w = Quiet THEN shown ELSE Append(shown, w)
  BY DEF EndTurn
<1>3. PICK n \in Nat : n = Len(ends) /\ ends \in Seq(Words \cup {Quiet})
  BY LenProperties DEF PeerIInv, PeerTyped
<1>4. /\ ends' \in Seq(Words \cup {Quiet}) /\ Len(ends') = n + 1 /\ ends'[n + 1] = w
      /\ \A t \in 1..n : ends'[t] = ends[t]
  BY <1>2, <1>3, AppendProperties
<1>5. DOMAIN ends = 1..n /\ DOMAIN ends' = 1..(n + 1)
  BY <1>3, <1>4, LenProperties
<1>6. /\ \A v : PeerSaid(v) => \E t \in DOMAIN ends' : ends'[t] = v
      /\ \E t \in DOMAIN ends' : ends'[t] = w
  BY <1>4, <1>5 DEF PeerSaid
<1>7. shown' \in Seq(Words) /\ \A i \in DOMAIN shown' : \E t \in DOMAIN ends' : ends'[t] = shown'[i]
  <2>1. CASE shown' = shown
    BY <1>6, <2>1 DEF PeerIInv, PeerTyped, PrintedOK
  <2>2. CASE w \in Words /\ shown' = Append(shown, w)
    <3> PICK m \in Nat : m = Len(shown) /\ shown \in Seq(Words)
      BY LenProperties DEF PeerIInv, PeerTyped
    <3>1. /\ shown' \in Seq(Words) /\ Len(shown') = m + 1 /\ shown'[m + 1] = w
          /\ \A i \in 1..m : shown'[i] = shown[i]
      BY <2>2, AppendProperties
    <3>2. DOMAIN shown' = 1..(m + 1) /\ DOMAIN shown = 1..m
      BY <3>1, LenProperties
    <3>4. ASSUME NEW i \in 1..(m + 1) PROVE \E t \in DOMAIN ends' : ends'[t] = shown'[i]
      <4>1. i \in 1..m \/ i = m + 1
        OBVIOUS
      <4> QED BY <3>1, <3>2, <1>6, <4>1 DEF PeerIInv, PrintedOK
    <3> QED BY <3>1, <3>2, <3>4
  <2> QED BY <1>2, <2>1, <2>2
<1>8. PrintedOK'
  BY <1>1, <1>6, <1>7 DEF PeerIInv, PrintedOK, PeerSaid
<1>9. PICK m \in Nat : m = turns /\ n < m
  BY <1>1, <1>3, RemotePeerAssumption DEF PeerIInv, PeerTyped, TurnsGivenOK
<1>10. PeerTyped' /\ TurnsGivenOK'
  BY <1>1, <1>3, <1>4, <1>7, <1>9 DEF PeerIInv, PeerTyped, TurnsGivenOK
<1>11. WakesTrue'
  <2> SUFFICES ASSUME NEW i \in DOMAIN wakes
               PROVE  /\ wakes[i].given <= turns /\ wakes[i].ended <= n + 1
                      /\ wakes[i].what # Quiet => \E t \in 1..wakes[i].ended : ends'[t] = wakes[i].what
    BY <1>1, <1>4 DEF WakesTrue
  <2>1. PICK e \in Nat : e = wakes[i].ended /\ e <= n
    BY <1>3, WakesKnow
  <2>2. wakes[i].given <= turns /\ (wakes[i].what # Quiet => \E t \in 1..e : ends[t] = wakes[i].what)
    BY <2>1 DEF PeerIInv, WakesTrue
  <2> QED BY <1>4, <2>1, <2>2
<1>12. OwedOK' /\ WatchOK'
  BY <1>1 DEF PeerIInv, OwedOK, SilenceWakesOnce, Silences, WatchOK
<1> QED BY <1>8, <1>10, <1>11, <1>12 DEF PeerIInv

-----------------------------------------------------------------------------
\* The signal to be seen was printed.
LEMMA SignalWasSaid ==
    ASSUME PeerIInv PROVE Signal = <<>> \/ \E w \in Words : Signal = <<w>> /\ PeerSaid(w)
<1>1. shown \in Seq(Words) /\ logged \in Seq(Words)
  BY DEF PeerIInv, PeerTyped
<1>2. ASSUME NEW s \in Seq(Words), s # <<>>, \A i \in DOMAIN s : PeerSaid(s[i])
      PROVE  Last(s) \in Words /\ PeerSaid(Last(s))
  <2>1. PICK n \in Nat : n = Len(s) /\ n > 0
    BY <1>2, EmptySeq, LenProperties
  <2>2. n \in DOMAIN s /\ s[n] \in Words
    BY <1>2, <2>1, LenProperties, ElementOfSeq
  <2> QED BY <1>2, <2>1, <2>2 DEF Last
<1> QED BY <1>1, <1>2 DEF PeerIInv, PrintedOK, Signal

\* A wake is for a signal that the watch did not know, or for a silence that was owed.
LEMMA PeerWakes ==
    ASSUME PeerIInv, TickSignal PROVE PeerIInv'
<1>1. /\ UNCHANGED <<peer, calm, shown, logged, peerRow, opener, meta, open, turns, ends>>
      /\ peerRow
  BY DEF TickSignal
<1>2. PICK w \in Words \cup {Quiet} :
          /\ Wake(w)
          /\ \/ w \in Words /\ Signal = <<w>> /\ PeerSaid(w) /\ TakeIfNew("watch")
             \/ w = Quiet /\ awaiting = TRUE /\ UNCHANGED seen
  <2>1. CASE Signal # <<>> /\ TakeIfNew("watch") /\ Wake(Signal[1])
    <3>1. PICK w \in Words : Signal = <<w>> /\ PeerSaid(w)
      BY <2>1, SignalWasSaid
    <3>2. Signal[1] = w
      BY <3>1
    <3> QED BY <2>1, <3>1, <3>2
  <2>2. CASE Owed /\ Wake(Quiet) /\ UNCHANGED seen
    <3>1. awaiting = TRUE
      BY <2>2, Zenon DEF Owed
    <3> QED BY <2>2, <3>1
  <2> QED BY <2>1, <2>2 DEF TickSignal
<1>3. PICK n \in Nat : n = Len(wakes) /\ wakes \in Seq(PeerWakeRecords) /\ DOMAIN wakes = 1..n
  BY LenProperties DEF PeerIInv, PeerTyped
<1>4. PICK m \in Nat : m = turns /\ m <= MaxTurns
  BY RemotePeerAssumption DEF PeerIInv, PeerTyped
<1>5. PICK e \in Nat : e = Len(ends) /\ DOMAIN ends = 1..e /\ e <= m
  BY <1>4, LenProperties DEF PeerIInv, PeerTyped, TurnsGivenOK
<1>6. PICK r \in PeerWakeRecords : r = [what |-> w, given |-> m, ended |-> e]
  BY DEF PeerWakeRecords
<1>7. wakes' = Append(wakes, r) /\ awaiting' = FALSE
  BY <1>2, <1>4, <1>5, <1>6 DEF Wake
<1>8. /\ wakes' \in Seq(PeerWakeRecords) /\ Len(wakes') = n + 1 /\ wakes'[n + 1] = r
      /\ \A i \in 1..n : wakes'[i] = wakes[i]
  BY <1>3, <1>7, AppendProperties
<1>9. DOMAIN wakes' = 1..(n + 1)
  BY <1>8, LenProperties
<1>10. r.what = w /\ r.given = m /\ r.ended = e
  BY <1>6
<1>11. \A i \in 1..(n + 1) : i \in 1..n \/ i = n + 1
  OBVIOUS
<1>12. PeerTyped'
  <2>1. seen' \in [Readers -> {<<>>} \cup {<<v>> : v \in Words}]
    BY <1>2 DEF PeerIInv, PeerTyped, TakeIfNew
  <2> QED BY <1>1, <1>8, <2>1 DEF PeerIInv, PeerTyped
<1>13. TurnsGivenOK'
  BY <1>1 DEF PeerIInv, TurnsGivenOK
<1>14. PrintedOK'
  BY <1>1 DEF PeerIInv, PrintedOK, PeerSaid
<1>15. WakesTrue'
  <2>1. \A i \in 1..n : /\ wakes[i].given <= m /\ wakes[i].ended <= e
                        /\ wakes[i].what # Quiet => \E t \in 1..wakes[i].ended : ends[t] = wakes[i].what
    BY <1>3, <1>4, <1>5 DEF PeerIInv, WakesTrue
  <2>2. r.what # Quiet => \E t \in 1..e : ends[t] = w
    BY <1>2, <1>5, <1>10 DEF PeerSaid
  <2> QED BY <1>1, <1>4, <1>5, <1>8, <1>9, <1>10, <1>11, <2>1, <2>2 DEF WakesTrue
<1>16. OwedOK'
  <2>1. ASSUME NEW i \in 1..(n + 1), wakes'[i].what = Quiet
        PROVE  /\ wakes'[i].given > 0
               /\ \A j \in 1..(n + 1) : wakes'[j].what = Quiet /\ j < i => wakes'[j].given < wakes'[i].given
    <3>1. CASE i \in 1..n
      BY <1>3, <1>8, <2>1, <3>1 DEF PeerIInv, OwedOK, SilenceWakesOnce, Silences
    <3>2. CASE i = n + 1
      <4>1. w = Quiet /\ awaiting = TRUE
        BY <1>2, <1>8, <1>10, <2>1, <3>2, QuietAssumption
      <4>2. m > 0 /\ \A j \in 1..n : wakes[j].what = Quiet => wakes[j].given < m
        BY <1>3, <1>4, <4>1 DEF PeerIInv, OwedOK, Silences
      <4> QED BY <1>8, <1>10, <3>2, <4>2
    <3> QED BY <3>1, <3>2, <1>11
  <2>2. SilenceWakesOnce'
    BY <1>9, <2>1 DEF SilenceWakesOnce, Silences
  <2> QED BY <1>7, <2>2 DEF OwedOK
<1>17. WatchOK'
  <2>1. ASSUME w # Quiet PROVE w \in Words /\ seen'["watch"] = <<w>> /\ seen["watch"] # <<w>>
    BY <1>2, <2>1 DEF TakeIfNew, PeerIInv, PeerTyped, Readers
  <2>2. ASSUME w # Quiet, n > 0 PROVE w # wakes[n].what
    <3>1. CASE wakes[n].what = Quiet
      BY <2>2, <3>1
    <3>2. CASE wakes[n].what # Quiet
      <4>1. seen["watch"] = <<wakes[n].what>>
        BY <1>1, <1>3, <2>2, <3>2 DEF PeerIInv, WatchOK
      <4> QED BY <2>1, <2>2, <4>1
    <3> QED BY <3>1, <3>2
  <2>3. ASSUME NEW i \in 1..(n + 1), i > 1, wakes'[i].what # Quiet PROVE wakes'[i].what # wakes'[i - 1].what
    <3>1. CASE i \in 1..n
      <4>1. wakes'[i - 1] = wakes[i - 1] /\ wakes'[i] = wakes[i]
        BY <1>8, <2>3, <3>1
      <4> QED BY <1>3, <2>3, <3>1, <4>1 DEF PeerIInv, WatchOK
    <3>2. CASE i = n + 1
      <4>1. n > 0 /\ i - 1 = n /\ wakes'[n] = wakes[n] /\ wakes'[i].what = w
        BY <1>8, <1>10, <2>3, <3>2
      <4> QED BY <2>2, <2>3, <4>1
    <3> QED BY <3>1, <3>2, <1>11
  <2>4. wakes'[Len(wakes')].what = w
    BY <1>8, <1>10
  <2> QED BY <1>9, <2>1, <2>3, <2>4 DEF WatchOK
<1> QED BY <1>12, <1>13, <1>14, <1>15, <1>16, <1>17 DEF PeerIInv

-----------------------------------------------------------------------------
\* The turn that is typed owes a silence; every earlier one was told of an earlier turn.
LEMMA PeerIsGiven ==
    ASSUME PeerIInv, SendTurn PROVE PeerIInv'
<1>1. /\ UNCHANGED <<calm, shown, logged, peerRow, opener, meta, open, seen, wakes, ends, fresh>>
      /\ peer = "prompt" /\ peer' = "typed" /\ turns' = turns + 1
  BY DEF SendTurn
<1>2. PICK m \in Nat : m = turns /\ m < MaxTurns
  BY RemotePeerAssumption DEF SendTurn, PeerIInv, PeerTyped
<1>3. PICK e \in Nat : e = Len(ends) /\ e <= m
  BY <1>2, LenProperties DEF PeerIInv, PeerTyped, TurnsGivenOK
<1>4. \A i \in DOMAIN wakes : wakes[i].given \in Nat /\ wakes[i].given <= m /\ wakes[i].ended <= e
  BY <1>2, <1>3, WakesKnow
<1>5. PeerTyped' /\ TurnsGivenOK' /\ PrintedOK'
  BY <1>1, <1>2, <1>3, RemotePeerAssumption DEF PeerIInv, PeerTyped, TurnsGivenOK, PrintedOK, PeerSaid
<1>6. WakesTrue'
  BY <1>1, <1>2, <1>3, <1>4 DEF PeerIInv, WakesTrue
<1>7. OwedOK'
  BY <1>1, <1>2, <1>4 DEF PeerIInv, OwedOK, SilenceWakesOnce, Silences
<1>8. WatchOK'
  BY <1>1 DEF PeerIInv, WatchOK
<1> QED BY <1>5, <1>6, <1>7, <1>8 DEF PeerIInv

\* Before the launch there is nothing to be told.
LEMMA PeerIsLaunched ==
    ASSUME PeerIInv, Launch PROVE PeerIInv'
<1>1. /\ UNCHANGED <<shown, logged, awaiting, seen, wakes, ends>>
      /\ peer = "none" /\ peer' = "launched" /\ open' = "launched" /\ turns' \in {0, 1} /\ turns < MaxTurns
  BY DEF Launch
<1>2. turns = 0 /\ Len(ends) = 0 /\ Len(wakes) = 0 /\ awaiting = FALSE /\ DOMAIN wakes = {}
  BY <1>1, LenProperties DEF PeerIInv, PeerTyped, TurnsGivenOK
<1>3. PeerTyped' /\ TurnsGivenOK' /\ PrintedOK'
  BY <1>1, <1>2, RemotePeerAssumption DEF PeerIInv, PeerTyped, TurnsGivenOK, PrintedOK, PeerSaid
<1>4. WakesTrue' /\ OwedOK' /\ WatchOK'
  BY <1>1, <1>2 DEF PeerIInv, WakesTrue, OwedOK, WatchOK, SilenceWakesOnce, Silences
<1> QED BY <1>3, <1>4 DEF PeerIInv

\* The other steps.
LEMMA PeerRests ==
    ASSUME PeerIInv,
           \/ Record \/ Boot \/ StartTurn \/ CalmDown \/ CloseTerminal \/ CloseOpener
           \/ TickGone \/ TickKnown \/ DriverRead \/ UNCHANGED remotePeerVars
    PROVE  PeerIInv'
<1>1. /\ UNCHANGED <<shown, logged, awaiting, wakes, turns, ends>>
      /\ peerRow' => peerRow /\ seen'["watch"] = seen["watch"]
      /\ seen' \in [Readers -> {<<>>} \cup {<<w>> : w \in Words}]
  <2>1. CASE DriverRead
    <3>1. Signal \in {<<>>} \cup {<<w>> : w \in Words}
      BY SignalWasSaid
    <3> QED BY <2>1, <3>1 DEF DriverRead, TakeIfNew, Readers, PeerIInv, PeerTyped
  <2>2. CASE TickGone
    BY <2>2 DEF TickGone, Forget, PeerIInv, PeerTyped
  <2>3. CASE Record \/ Boot \/ StartTurn \/ CalmDown \/ CloseTerminal \/ CloseOpener \/ TickKnown \/ UNCHANGED remotePeerVars
    BY <2>3 DEF Record, Boot, StartTurn, CalmDown, CloseTerminal, CloseOpener, TickKnown, remotePeerVars, PeerIInv, PeerTyped
  <2> QED BY <2>1, <2>2, <2>3
<1>2. /\ peer' \in {"none", "launched", "prompt", "typed", "working", "gone"} /\ open' \in {"no", "launched", "yes"}
      /\ peer' = "none" => peer = "none"
      /\ peer' = "launched" => peer = "launched"
      /\ peer' \in {"typed", "working"} => peer \in {"typed", "working"} \/ (peer = "launched" /\ turns = 1)
  BY Zenon DEF Record, Boot, StartTurn, CalmDown, CloseTerminal, CloseOpener, TickGone, TickKnown, DriverRead, remotePeerVars,
         PeerIInv, PeerTyped
<1>3. PeerTyped'
  BY <1>1, <1>2 DEF PeerIInv, PeerTyped
<1>4. TurnsGivenOK'
  BY <1>1, <1>2 DEF PeerIInv, TurnsGivenOK
<1>5. PrintedOK'
  BY <1>1 DEF PeerIInv, PrintedOK, PeerSaid
<1>6. turns' \in Nat /\ turns' >= turns
  BY <1>1, RemotePeerAssumption DEF PeerIInv, PeerTyped
<1> QED BY <1>1, <1>3, <1>4, <1>5, <1>6, PeerStays

\* What the driver of a remote peer is told was said there, the same once, and a silence
\* wakes it once for each time it spoke (remote.rs).
THEOREM PeerIsHeard == RemotePeerSpec => []PeerInv
<1>1. RemotePeerInit => PeerIInv
  BY PeerStart
<1>2. PeerIInv /\ [RemotePeerNext]_remotePeerVars => PeerIInv'
  BY PeerIsLaunched, PeerIsGiven, PeerScrolls, PeerEnds, PeerWakes, PeerRests
     DEF RemotePeerNext, Driver, Far, TickRemote
<1>3. PeerIInv => PeerInv
  <2> SUFFICES ASSUME PeerIInv PROVE PeerInv
    OBVIOUS
  <2>1. RemotePeerTypeOK
    BY RemotePeerAssumption DEF PeerIInv, PeerTyped, TurnsGivenOK, RemotePeerTypeOK
  <2>2. SilenceWakesOnce /\ ToldWasSaid
    BY DEF PeerIInv, OwedOK, WakesTrue, WatchOK, ToldWasSaid
  <2> QED BY <2>1, <2>2 DEF PeerInv
<1> QED BY <1>1, <1>2, <1>3, PTL DEF RemotePeerSpec

-----------------------------------------------------------------------------
(* A terminal of another Mulpex. *)

Item == [kind : {"byte", "resize"}, size : Rows]
Drawn == {"snap", "byte", "resize"}
FrameKinds == {"welcome", "gone", "partial"} \cup Drawn
SizeOr0 == Rows \cup {0}
WireFrame == [kind : FrameKinds, proc : 0 .. MaxProcs, at : Nat, size : SizeOr0]
Told == [kind : {"sub", "unsub", "ack"}, proc : {0}, at : Nat, size : {0}]
SubRec == [state : {"none", "pending", "live"}, proc : 0 .. MaxProcs, upto : Nat, skip : Nat, backlog : Seq(WireFrame)]

\* A byte is drawn for the size there is.
ItemsOK(items) == \A i \in 1 .. Len(items) : IsByte(items[i]) => items[i].size = SizeAt(items, i - 1)

MirrorTyped ==
    /\ outputs \in [1 .. MaxProcs -> Seq(Item)] /\ \A p \in 1 .. MaxProcs : ItemsOK(outputs[p])
    /\ proc \in 0 .. MaxProcs /\ links \in 0 .. MaxLinks /\ opened \in 0 .. MaxPanes
    /\ desk \in [on : BOOLEAN, sub : SubRec, unacked : Nat]
    /\ reply \in [proc : 0 .. MaxProcs, at : Nat, size : SizeOr0]
    /\ down \in Seq(WireFrame) /\ upward \in Seq(Told) /\ unsaid \in Nat
    /\ tx \in BOOLEAN /\ resub \in BOOLEAN /\ channel \in BOOLEAN
    /\ pane \in [proc : 0 .. MaxProcs, at : Nat, size : SizeOr0, whole : BOOLEAN, torn : BOOLEAN]
    /\ ~desk.on => desk.sub.state = "none" /\ down = <<>> /\ ~tx
    /\ ~channel => ~pane.whole

\* The processes there were so far.
Known(q) == IF q = 0 THEN 1 .. MaxProcs ELSE 1 .. q

SubOK ==
    LET s == desk.sub
    IN  /\ s.state # "live" => s.backlog = <<>>
        /\ s.state # "none" => s.proc \in Known(proc) /\ s.upto <= Len(outputs[s.proc])
        /\ reply # NoReply =>
              /\ reply.proc \in Known(proc)
              /\ s.state = "pending" => s.proc <= reply.proc
              /\ \E n \in 0 .. Len(outputs[reply.proc]) :
                    reply.at = OffsetAt(outputs[reply.proc], n) /\ reply.size = SizeAt(outputs[reply.proc], n)

\* The offset after a frame, and whether a frame may follow another when process q is the one
\* there is.
Past(f) == IF f.kind = "byte" THEN f.at + 1 ELSE f.at
Joins(q, f, g) ==
    g.kind \in {"byte", "resize"} /\ g.proc = q /\ f.kind # "partial" =>
        /\ f.kind \in Drawn /\ f.proc = q /\ g.at = Past(f)
        /\ g.kind = "byte" => g.size = f.size
Chain(q, v) == \A k \in 1 .. Len(v) - 1 : Joins(q, v[k], v[k + 1])

End(v) == v[Len(v)]

\* The items behind upto follow the frame f, once skip of their bytes are skipped.
Leads(q, f, items, upto, skip) ==
    f.kind # "partial" =>
        /\ f.kind \in Drawn /\ f.proc = q
        /\ \E n \in upto .. Len(items) :
              /\ Past(f) = OffsetAt(items, n) /\ f.size = SizeAt(items, n)
              /\ skip = OffsetAt(items, n) - OffsetAt(items, upto)

\* A process that is drawn is one there was.
Aged(q, v) == \A k \in 1 .. Len(v) : v[k].kind \in Drawn => v[k].proc \in Known(q)

\* What the pane shows, as the frame that shows it.
Shows(w) == [kind |-> IF w.whole THEN "snap" ELSE "partial", proc |-> w.proc, at |-> w.at, size |-> w.size]
PictureFirst(s, d) == <<s>> \o d
Wire(s, d, b) == <<s>> \o (d \o b)
Bare(b) == b = <<>>
Start(b) == b[1]
Linked(q, s, d, b) == Chain(q, PictureFirst(s, d)) /\ Chain(q, b) /\ (Bare(b) \/ Joins(q, End(PictureFirst(s, d)), Start(b)))

\* What the pane shows, what is on its way to it and what is to be sent to it follow each other.
StreamOK ==
    LET s == desk.sub
        v == Wire(Shows(pane), down, s.backlog)
    IN  /\ Chain(proc, v) /\ Aged(proc, v)
        /\ s.state = "live" /\ s.proc = proc => Leads(proc, End(v), outputs[proc], s.upto, s.skip)

MirrorIInv == MirrorTyped /\ SubOK /\ StreamOK /\ MirrorExact /\ CreditIsCovered

-----------------------------------------------------------------------------
\* A set of numbers has a least one.
LEMMA LeastNumber ==
    ASSUME NEW S \in SUBSET Nat, S # {} PROVE \E x \in S : \A y \in S : x <= y
<1>1. PICK m \in S : \A k \in S : ~ (<<k, m>> \in OpToRel(<, Nat))
  BY NatLessThanWellFounded, WFMin
<1>2. \A k \in S : ~(k < m)
  BY <1>1 DEF OpToRel
<1> QED BY <1>2

\* The bytes among the first items are counted one by one.
LEMMA OffsetSteps ==
    ASSUME NEW items
    PROVE  /\ \A n \in Nat : OffsetAt(items, n) \in Nat
           /\ OffsetAt(items, 0) = 0
           /\ \A n \in Nat : OffsetAt(items, n + 1) = OffsetAt(items, n) + (IF IsByte(items[n + 1]) THEN 1 ELSE 0)
           /\ \A m, n \in Nat : m <= n => OffsetAt(items, m) <= OffsetAt(items, n)
<1> DEFINE B(n) == {i \in 1 .. n : IsByte(items[i])}
<1>1. \A n \in Nat : IsFiniteSet(B(n)) /\ Cardinality(B(n)) \in Nat
  <2> TAKE n \in Nat
  <2>1. IsFiniteSet(1 .. n)
    BY FS_Interval
  <2>2. B(n) \subseteq 1 .. n
    OBVIOUS
  <2> HIDE DEF B
  <2> QED BY <2>1, <2>2, FS_Subset, FS_CardinalityType
<1>2. Cardinality(B(0)) = 0
  <2>1. B(0) = {}
    OBVIOUS
  <2> QED BY <2>1, FS_EmptySet
<1>3. ASSUME NEW n \in Nat
      PROVE  Cardinality(B(n + 1)) = Cardinality(B(n)) + (IF IsByte(items[n + 1]) THEN 1 ELSE 0)
  <2>1. CASE IsByte(items[n + 1])
    <3>1. B(n + 1) = B(n) \cup {n + 1} /\ n + 1 \notin B(n)
      BY <2>1
    <3> HIDE DEF B
    <3> QED BY <1>1, <2>1, <3>1, FS_AddElement
  <2>2. CASE ~IsByte(items[n + 1])
    <3>1. B(n + 1) = B(n)
      BY <2>2
    <3> HIDE DEF B
    <3> QED BY <1>1, <2>2, <3>1
  <2> QED BY <2>1, <2>2
<1>4. ASSUME NEW m \in Nat, NEW n \in Nat, m <= n
      PROVE  Cardinality(B(m)) <= Cardinality(B(n))
  <2>1. B(m) \subseteq B(n)
    BY <1>4
  <2> HIDE DEF B
  <2> QED BY <1>1, <2>1, FS_Subset
<1>5. \A n : OffsetAt(items, n) = Cardinality(B(n))
  BY DEF OffsetAt
<1> HIDE DEF B
<1>6. \A n \in Nat : OffsetAt(items, n + 1) = OffsetAt(items, n) + (IF IsByte(items[n + 1]) THEN 1 ELSE 0)
  BY <1>3, <1>5
<1>7. \A m, n \in Nat : m <= n => OffsetAt(items, m) <= OffsetAt(items, n)
  BY <1>4, <1>5
<1> QED BY <1>1, <1>2, <1>5, <1>6, <1>7

\* A set of numbers below a bound has a greatest one.
LEMMA GreatestNumber ==
    ASSUME NEW n \in Nat, NEW S \in SUBSET (1 .. n), S # {}
    PROVE  \E x \in S : \A y \in S : y <= x
<1> DEFINE U == {n - x : x \in S}
<1>1. U \in SUBSET Nat /\ U # {}
  <2>1. \A x \in S : n - x \in Nat
    OBVIOUS
  <2> QED BY <2>1
<1>2. PICK u \in U : \A z \in U : u <= z
  <2> HIDE DEF U
  <2> QED BY <1>1, LeastNumber
<1>3. PICK x \in S : u = n - x
  BY <1>2
<1>4. ASSUME NEW y \in S PROVE y <= x
  <2>1. n - y \in U
    OBVIOUS
  <2>2. n - x <= n - y
    BY <1>2, <1>3, <2>1
  <2> QED BY <2>2
<1> QED BY <1>4

\* The size after some items is that of the last resize among them.
LEMMA SizeSteps ==
    ASSUME NEW items
    PROVE  /\ SizeAt(items, 0) = Rows0
           /\ \A n \in Nat : SizeAt(items, n + 1) =
                  IF IsByte(items[n + 1]) THEN SizeAt(items, n) ELSE items[n + 1].size
<1> DEFINE R(n) == {i \in 1 .. n : ~IsByte(items[i])}
           Final(rs) == CHOOSE i \in rs : \A j \in rs : j <= i
<1>1. \A n : SizeAt(items, n) = IF R(n) = {} THEN Rows0 ELSE items[Final(R(n))].size
  BY DEF SizeAt
<1>2. R(0) = {}
  OBVIOUS
<1>3. ASSUME NEW n \in Nat
      PROVE  SizeAt(items, n + 1) = IF IsByte(items[n + 1]) THEN SizeAt(items, n) ELSE items[n + 1].size
  <2>1. CASE IsByte(items[n + 1])
    <3>1. R(n + 1) = R(n)
      BY <2>1
    <3> HIDE DEF R
    <3> QED BY <1>1, <2>1, <3>1
  <2>2. CASE ~IsByte(items[n + 1])
    <3>1. n + 1 \in R(n + 1) /\ \A j \in R(n + 1) : j <= n + 1 /\ j \in Nat
      BY <2>2
    <3> HIDE DEF R
    <3>2. \A i \in R(n + 1) : (\A j \in R(n + 1) : j <= i) => i = n + 1
      BY <3>1
    <3>3. Final(R(n + 1)) = n + 1
      BY <3>1, <3>2
    <3> HIDE DEF Final
    <3> QED BY <1>1, <2>2, <3>1, <3>3
  <2> QED BY <2>1, <2>2
<1> QED BY <1>1, <1>2, <1>3

LEMMA SizeType ==
    ASSUME NEW items \in Seq(Item), NEW n \in 0 .. Len(items)
    PROVE  SizeAt(items, n) \in Rows
<1> DEFINE rs == {i \in 1 .. n : ~IsByte(items[i])}
<1>1. Len(items) \in Nat /\ n \in Nat /\ \A i \in 1 .. n : items[i] \in Item
  BY LenProperties
<1>2. CASE rs = {}
  BY <1>2, MirrorAssumption DEF SizeAt
<1>3. CASE rs # {}
  <2>1. \E x \in rs : \A y \in rs : y <= x
    <3>1. rs \in SUBSET (1 .. n)
      OBVIOUS
    <3> HIDE DEF rs
    <3> QED BY <1>1, <1>3, <3>1, GreatestNumber
  <2> DEFINE x == CHOOSE i \in rs : \A j \in rs : j <= i
  <2>2. x \in rs /\ SizeAt(items, n) = items[x].size
    BY <1>3, <2>1 DEF SizeAt
  <2> HIDE DEF x
  <2> QED BY <1>1, <2>2 DEF Item
<1> QED BY <1>2, <1>3

\* One more item changes neither what came before it nor the size it finds.
LEMMA PrefixStays ==
    ASSUME NEW items \in Seq(Item), NEW x \in Item, NEW n \in 0 .. Len(items)
    PROVE  /\ OffsetAt(Append(items, x), n) = OffsetAt(items, n)
           /\ SizeAt(Append(items, x), n) = SizeAt(items, n)
<1>1. Len(items) \in Nat /\ n \in Nat /\ \A i \in 1 .. n : Append(items, x)[i] = items[i]
  BY LenProperties, AppendProperties
<1>2. {i \in 1 .. n : IsByte(Append(items, x)[i])} = {i \in 1 .. n : IsByte(items[i])}
  BY <1>1
<1> DEFINE rs == {i \in 1 .. n : ~IsByte(items[i])}
<1>3. {i \in 1 .. n : ~IsByte(Append(items, x)[i])} = rs
  BY <1>1
<1>4. CASE rs = {}
  BY <1>2, <1>3, <1>4 DEF OffsetAt, SizeAt
<1>5. CASE rs # {}
  <2>1. \E i \in rs : \A j \in rs : j <= i
    <3>1. rs \in SUBSET (1 .. n)
      OBVIOUS
    <3> HIDE DEF rs
    <3> QED BY <1>1, <1>5, <3>1, GreatestNumber
  <2> DEFINE l == CHOOSE i \in rs : \A j \in rs : j <= i
  <2>2. l \in rs /\ l \in 1 .. n
    BY <1>5, <2>1
  <2>3. SizeAt(items, n) = items[l].size /\ SizeAt(Append(items, x), n) = Append(items, x)[l].size
    BY <1>3, <1>5 DEF SizeAt
  <2> HIDE DEF l
  <2> QED BY <1>1, <1>2, <2>2, <2>3 DEF OffsetAt
<1> QED BY <1>4, <1>5

\* Where an offset is reached.
LEMMA ReachIs ==
    ASSUME NEW items, NEW lo \in Nat, NEW hi \in Nat, lo <= hi, NEW offset \in Nat
    PROVE  LET j == Reach(items, lo, hi, offset)
           IN  /\ j \in lo .. hi
               /\ j = hi \/ OffsetAt(items, j) >= offset
               /\ \A i \in lo .. j - 1 : OffsetAt(items, i) < offset
               /\ OffsetAt(items, lo) <= offset => OffsetAt(items, j) <= offset
<1> DEFINE S == {j \in lo .. hi : j = hi \/ OffsetAt(items, j) >= offset}
           Good(j) == /\ j = hi \/ OffsetAt(items, j) >= offset
                      /\ \A i \in lo .. j - 1 : OffsetAt(items, i) < offset
<1>1. S \in SUBSET Nat /\ S # {}
  OBVIOUS
<1>2. PICK k \in S : \A y \in S : k <= y
  <2> HIDE DEF S
  <2> QED BY <1>1, LeastNumber
<1>3. k \in lo .. hi /\ Good(k)
  <2>1. k \in lo .. hi /\ (k = hi \/ OffsetAt(items, k) >= offset)
    BY <1>2
  <2>2. ASSUME NEW i \in lo .. k - 1 PROVE OffsetAt(items, i) < offset
    <3>1. i \in lo .. hi /\ i \in Nat /\ ~(k <= i)
      BY <2>1
    <3>2. i \notin S
      BY <1>2, <3>1
    <3>3. OffsetAt(items, i) \in Nat
      BY <3>1, OffsetSteps
    <3>4. ~(OffsetAt(items, i) >= offset)
      BY <3>1, <3>2
    <3> QED BY <3>3, <3>4
  <2> QED BY <2>1, <2>2
<1> DEFINE j == Reach(items, lo, hi, offset)
<1>4. j \in lo .. hi /\ Good(j)
  <2>1. j = CHOOSE i \in lo .. hi : Good(i)
    BY DEF Reach
  <2> HIDE DEF Good, j
  <2> QED BY <1>3, <2>1
<1> HIDE DEF j
<1>5. ASSUME OffsetAt(items, lo) <= offset PROVE OffsetAt(items, j) <= offset
  <2>1. CASE j = lo
    BY <1>5, <2>1
  <2>2. CASE j # lo
    <3>1. j - 1 \in lo .. j - 1 /\ j - 1 \in Nat /\ (j - 1) + 1 = j
      BY <1>4, <2>2
    <3>2. OffsetAt(items, j - 1) < offset
      BY <1>4, <3>1
    <3>3. /\ OffsetAt(items, (j - 1) + 1) = OffsetAt(items, j - 1) + (IF IsByte(items[(j - 1) + 1]) THEN 1 ELSE 0)
          /\ OffsetAt(items, j - 1) \in Nat
      BY <3>1, OffsetSteps
    <3> QED BY <3>1, <3>2, <3>3
  <2> QED BY <2>1, <2>2
<1> QED BY <1>4, <1>5 DEF j

\* Where the elements of two sequences lie in the two together.
LEMMA ConcatLies ==
    ASSUME NEW T, NEW a \in Seq(T), NEW b \in Seq(T)
    PROVE  /\ a \o b \in Seq(T) /\ Len(a) \in Nat /\ Len(b) \in Nat /\ Len(a \o b) = Len(a) + Len(b)
           /\ \A i \in 1..Len(a) : (a \o b)[i] = a[i]
           /\ \A i \in (Len(a) + 1)..(Len(a) + Len(b)) :
                  i - Len(a) \in 1..Len(b) /\ (a \o b)[i] = b[i - Len(a)]
<1> DEFINE c == a \o b
<1>1. /\ c \in Seq(T) /\ Len(c) = Len(a) + Len(b)
      /\ \A i \in 1..Len(c) : c[i] = IF i <= Len(a) THEN a[i] ELSE b[i - Len(a)]
  BY ConcatProperties
<1>2. Len(a) \in Nat /\ Len(b) \in Nat
  BY LenProperties
<1> DEFINE m == Len(a)
           n == Len(b)
<1> HIDE DEF c, m, n
<1>3. /\ \A i \in 1..m : c[i] = a[i]
      /\ \A i \in (m + 1)..(m + n) : i - m \in 1..n /\ c[i] = b[i - m]
  <2>1. /\ m \in Nat /\ n \in Nat
        /\ \A i \in 1..(m + n) : c[i] = IF i <= m THEN a[i] ELSE b[i - m]
    BY <1>1, <1>2 DEF m, n
  <2> QED BY <2>1
<1> QED BY <1>1, <1>2, <1>3 DEF c, m, n

\* A chain of frames taken apart and put together.
LEMMA ChainParts ==
    ASSUME NEW q, NEW a \in Seq(WireFrame), NEW b \in Seq(WireFrame)
    PROVE  /\ Chain(q, a \o b) <=> /\ Chain(q, a) /\ Chain(q, b)
                                   /\ a # <<>> /\ b # <<>> => Joins(q, End(a), b[1])
           /\ Aged(q, a \o b) <=> Aged(q, a) /\ Aged(q, b)
           /\ a \o b \in Seq(WireFrame)
           /\ b # <<>> => End(a \o b) = End(b)
           /\ b = <<>> => a \o b = a
           /\ a = <<>> => a \o b = b
           /\ a # <<>> => (a \o b)[1] = a[1]
<1> DEFINE c == a \o b
           m == Len(a)
           n == Len(b)
<1>1. /\ c \in Seq(WireFrame) /\ m \in Nat /\ n \in Nat /\ Len(c) = m + n
      /\ \A i \in 1 .. m : c[i] = a[i]
      /\ \A i \in m + 1 .. m + n : i - m \in 1 .. n /\ c[i] = b[i - m]
  BY ConcatLies
<1>2. (m = 0 <=> a = <<>>) /\ (n = 0 <=> b = <<>>)
  BY EmptySeq
<1>3. (n = 0 => c = a) /\ (m = 0 => c = b)
  BY <1>2, ConcatEmptySeq
<1> HIDE DEF c, m, n
<1>4. \A i \in 1 .. n : m + i \in m + 1 .. m + n /\ (m + i) - m = i /\ c[m + i] = b[i]
  <2>1. \A i \in 1 .. n : m + i \in m + 1 .. m + n /\ (m + i) - m = i
    BY <1>1
  <2> QED BY <1>1, <2>1
<1>5. n # 0 => c[m + n] = b[n] /\ c[m + 1] = b[1]
  BY <1>1, <1>4
<1>6. m # 0 => c[1] = a[1]
  BY <1>1
<1>7. Aged(q, c) <=> Aged(q, a) /\ Aged(q, b)
  <2>1. ASSUME Aged(q, c) PROVE Aged(q, a) /\ Aged(q, b)
    <3>1. \A k \in 1 .. m : a[k].kind \in Drawn => a[k].proc \in Known(q)
      <4> TAKE k \in 1 .. m
      <4>1. k \in 1 .. m + n /\ c[k] = a[k]
        BY <1>1
      <4> QED BY <1>1, <2>1, <4>1 DEF Aged
    <3>2. \A k \in 1 .. n : b[k].kind \in Drawn => b[k].proc \in Known(q)
      <4> TAKE k \in 1 .. n
      <4>1. m + k \in 1 .. m + n /\ c[m + k] = b[k]
        BY <1>1, <1>4
      <4> QED BY <1>1, <2>1, <4>1 DEF Aged
    <3> QED BY <3>1, <3>2 DEF Aged, m, n
  <2>2. ASSUME Aged(q, a), Aged(q, b) PROVE Aged(q, c)
    <3>1. \A k \in 1 .. m + n : c[k].kind \in Drawn => c[k].proc \in Known(q)
      <4> TAKE k \in 1 .. m + n
      <4>1. CASE k <= m
        <5>1. k \in 1 .. m /\ c[k] = a[k]
          BY <1>1, <4>1
        <5> QED BY <2>2, <5>1 DEF Aged, m
      <4>2. CASE ~(k <= m)
        <5>1. k - m \in 1 .. n /\ c[k] = b[k - m]
          BY <1>1, <4>2
        <5> QED BY <2>2, <5>1 DEF Aged, n
      <4> QED BY <4>1, <4>2
    <3> QED BY <1>1, <3>1 DEF Aged
  <2> QED BY <2>1, <2>2
<1>8. ASSUME Chain(q, c) PROVE Chain(q, a) /\ Chain(q, b) /\ (m # 0 /\ n # 0 => Joins(q, a[m], b[1]))
  <2>1. \A k \in 1 .. (m + n) - 1 : Joins(q, c[k], c[k + 1])
    BY <1>1, <1>8 DEF Chain
  <2>2. \A k \in 1 .. m - 1 : Joins(q, a[k], a[k + 1])
    <3> TAKE k \in 1 .. m - 1
    <3>1. k \in 1 .. (m + n) - 1 /\ k \in 1 .. m /\ k + 1 \in 1 .. m
      BY <1>1
    <3>2. c[k] = a[k] /\ c[k + 1] = a[k + 1]
      BY <1>1, <3>1
    <3> QED BY <2>1, <3>1, <3>2
  <2>3. \A k \in 1 .. n - 1 : Joins(q, b[k], b[k + 1])
    <3> TAKE k \in 1 .. n - 1
    <3>1. m + k \in 1 .. (m + n) - 1 /\ k \in 1 .. n /\ k + 1 \in 1 .. n /\ (m + k) + 1 = m + (k + 1)
      BY <1>1
    <3>2. c[m + k] = b[k] /\ c[m + (k + 1)] = b[k + 1]
      BY <1>4, <3>1
    <3> QED BY <2>1, <3>1, <3>2
  <2>4. ASSUME m # 0, n # 0 PROVE Joins(q, a[m], b[1])
    <3>1. m \in 1 .. (m + n) - 1 /\ m \in 1 .. m
      BY <1>1, <2>4
    <3>2. c[m] = a[m] /\ c[m + 1] = b[1]
      BY <1>1, <1>5, <2>4, <3>1
    <3> QED BY <2>1, <3>1, <3>2
  <2> QED BY <2>2, <2>3, <2>4 DEF Chain, m, n
<1>9. ASSUME Chain(q, a), Chain(q, b), m # 0 /\ n # 0 => Joins(q, a[m], b[1]) PROVE Chain(q, c)
  <2>1. \A k \in 1 .. (m + n) - 1 : Joins(q, c[k], c[k + 1])
    <3> TAKE k \in 1 .. (m + n) - 1
    <3>1. CASE k < m
      <4>1. k \in 1 .. m - 1 /\ k \in 1 .. m /\ k + 1 \in 1 .. m
        BY <1>1, <3>1
      <4>2. c[k] = a[k] /\ c[k + 1] = a[k + 1] /\ Joins(q, a[k], a[k + 1])
        BY <1>1, <1>9, <4>1 DEF Chain, m
      <4> QED BY <4>2
    <3>2. CASE k = m
      <4>1. m # 0 /\ n # 0 /\ m \in 1 .. m
        BY <1>1, <3>2
      <4>2. c[k] = a[m] /\ c[k + 1] = b[1]
        BY <1>1, <1>5, <3>2, <4>1
      <4> QED BY <1>9, <4>1, <4>2
    <3>3. CASE k > m
      <4>1. k - m \in 1 .. n - 1 /\ k - m \in 1 .. n /\ (k - m) + 1 \in 1 .. n
            /\ m + (k - m) = k /\ m + ((k - m) + 1) = k + 1
        BY <1>1, <3>3
      <4>2. c[k] = b[k - m] /\ c[k + 1] = b[(k - m) + 1] /\ Joins(q, b[k - m], b[(k - m) + 1])
        <5>1. c[m + (k - m)] = b[k - m] /\ c[m + ((k - m) + 1)] = b[(k - m) + 1]
          BY <1>4, <4>1
        <5>2. Joins(q, b[k - m], b[(k - m) + 1])
          BY <1>9, <4>1 DEF Chain, n
        <5> QED BY <4>1, <5>1, <5>2
      <4> QED BY <4>2
    <3> QED BY <1>1, <3>1, <3>2, <3>3
  <2> QED BY <1>1, <2>1 DEF Chain
<1> QED BY <1>1, <1>2, <1>3, <1>5, <1>6, <1>7, <1>8, <1>9 DEF c, m, n, End

LEMMA OneFrame ==
    ASSUME NEW q, NEW f \in WireFrame
    PROVE  <<f>> \in Seq(WireFrame) /\ <<f>> # <<>> /\ Len(<<f>>) = 1 /\ <<f>>[1] = f /\ Chain(q, <<f>>)
           /\ (Aged(q, <<f>>) <=> (f.kind \in Drawn => f.proc \in Known(q)))
<1>1. <<f>> \in Seq(WireFrame) /\ <<f>> # <<>> /\ Len(<<f>>) = 1 /\ <<f>>[1] = f
  OBVIOUS
<1>2. Chain(q, <<f>>)
  BY <1>1 DEF Chain
<1>3. Aged(q, <<f>>) <=> (f.kind \in Drawn => f.proc \in Known(q))
  BY <1>1 DEF Aged
<1> QED BY <1>1, <1>2, <1>3

LEMMA NoFrames == <<>> \in Seq(WireFrame) /\ \A q : Chain(q, <<>>) /\ Aged(q, <<>>)
<1>1. Len(<<>>) = 0 /\ <<>> \in Seq(WireFrame)
  BY EmptySeq
<1> QED BY <1>1 DEF Chain, Aged

\* A piece of the output as a frame.
LEMMA PieceIs ==
    ASSUME MirrorTyped, NEW p \in 1 .. MaxProcs, NEW i \in 1 .. Len(outputs[p])
    PROVE  /\ Piece(p, i) \in WireFrame /\ Piece(p, i).kind \in {"byte", "resize"} /\ Piece(p, i).proc = p
           /\ Piece(p, i).at = OffsetAt(outputs[p], i - 1)
           /\ Past(Piece(p, i)) = OffsetAt(outputs[p], i) /\ Piece(p, i).size = SizeAt(outputs[p], i)
           /\ Piece(p, i).kind = "byte" => Piece(p, i).size = SizeAt(outputs[p], i - 1)
<1> DEFINE items == outputs[p]
           f == Piece(p, i)
<1>1. items \in Seq(Item) /\ Len(items) \in Nat /\ items[i] \in Item /\ ItemsOK(items)
      /\ i - 1 \in Nat /\ (i - 1) + 1 = i
  BY LenProperties, ElementOfSeq DEF MirrorTyped
<1>2. OffsetAt(items, i - 1) \in Nat
      /\ OffsetAt(items, (i - 1) + 1) = OffsetAt(items, i - 1) + (IF IsByte(items[(i - 1) + 1]) THEN 1 ELSE 0)
  BY <1>1, OffsetSteps
<1>3. SizeAt(items, (i - 1) + 1) = IF IsByte(items[(i - 1) + 1]) THEN SizeAt(items, i - 1) ELSE items[(i - 1) + 1].size
  BY <1>1, SizeSteps
<1>4. IsByte(items[i]) => items[i].size = SizeAt(items, i - 1)
  BY <1>1 DEF ItemsOK
<1>5. f = [kind |-> items[i].kind, proc |-> p, at |-> OffsetAt(items, i - 1), size |-> items[i].size]
  BY DEF Piece
<1> HIDE DEF f, items
<1>6. /\ f.kind = items[i].kind /\ f.proc = p /\ f.at = OffsetAt(items, i - 1) /\ f.size = items[i].size
      /\ items[i].kind \in {"byte", "resize"} /\ items[i].size \in Rows
  BY <1>1, <1>5 DEF Item
<1>7. f \in WireFrame
  <2>1. p \in 0 .. MaxProcs
    BY MirrorAssumption
  <2> QED BY <1>2, <1>5, <1>6, <2>1 DEF WireFrame, FrameKinds, Drawn, SizeOr0
<1>8. Past(f) = OffsetAt(items, i) /\ f.size = SizeAt(items, i)
      /\ (f.kind = "byte" => f.size = SizeAt(items, i - 1))
  BY <1>1, <1>2, <1>3, <1>4, <1>6 DEF Past, IsByte
<1> QED BY <1>6, <1>7, <1>8 DEF f, items

\* A stretch of the output is a chain, and ends where it ends.
LEMMA PiecesAre ==
    ASSUME MirrorTyped, NEW p \in 1 .. MaxProcs, NEW q, p \in Known(q),
           NEW j \in Nat, NEW hi \in Nat, j <= hi, hi <= Len(outputs[p])
    PROVE  LET ps == Pieces(p, j + 1, hi)
           IN  /\ ps \in Seq(WireFrame) /\ Chain(q, ps) /\ Aged(q, ps)
               /\ Len(ps) = hi - j /\ (ps = <<>> <=> j = hi)
               /\ j # hi => /\ ps[1] = Piece(p, j + 1) /\ ps[Len(ps)] = Piece(p, hi)
                            /\ j + 1 \in 1 .. Len(outputs[p]) /\ hi \in 1 .. Len(outputs[p])
<1> DEFINE ps == Pieces(p, j + 1, hi)
           n == hi - j
<1>1. Len(outputs[p]) \in Nat /\ n \in Nat /\ hi - (j + 1) + 1 = n
      /\ \A i \in 1 .. n : (j + 1) + i - 1 = j + i /\ j + i \in 1 .. Len(outputs[p])
  BY LenProperties DEF MirrorTyped
<1>2. ps = [i \in 1 .. n |-> Piece(p, j + i)]
  BY <1>1 DEF Pieces
<1> HIDE DEF ps
<1>3. \A i \in 1 .. n : ps[i] = Piece(p, j + i) /\ ps[i] \in WireFrame /\ ps[i].proc = p
      /\ ps[i].at = OffsetAt(outputs[p], (j + i) - 1)
      /\ Past(ps[i]) = OffsetAt(outputs[p], j + i) /\ ps[i].size = SizeAt(outputs[p], j + i)
      /\ ps[i].kind \in {"byte", "resize"}
      /\ (ps[i].kind = "byte" => ps[i].size = SizeAt(outputs[p], (j + i) - 1))
  BY <1>1, <1>2, PieceIs
<1>4. ps \in Seq(WireFrame) /\ Len(ps) = n
  <2>1. ps \in [1 .. n -> WireFrame]
    BY <1>2, <1>3
  <2> QED BY <1>1, <2>1
<1>5. Chain(q, ps)
  <2>1. ASSUME NEW k \in 1 .. n - 1 PROVE Joins(q, ps[k], ps[k + 1])
    <3>1. k \in 1 .. n /\ k + 1 \in 1 .. n /\ (j + (k + 1)) - 1 = j + k
      BY <1>1
    <3>2. /\ ps[k].kind \in Drawn /\ ps[k].proc = p /\ ps[k + 1].proc = p /\ ps[k + 1].at = Past(ps[k])
          /\ ps[k + 1].kind = "byte" => ps[k + 1].size = ps[k].size
      BY <1>3, <3>1 DEF Drawn
    <3> QED BY <3>2 DEF Joins
  <2> QED BY <1>4, <2>1 DEF Chain
<1>6. Aged(q, ps)
  BY <1>3, <1>4 DEF Aged
<1>7. ps = <<>> <=> j = hi
  BY <1>1, <1>4, EmptySeq
<1>8. j # hi => /\ ps[1] = Piece(p, j + 1) /\ ps[Len(ps)] = Piece(p, hi)
                /\ j + 1 \in 1 .. Len(outputs[p]) /\ hi \in 1 .. Len(outputs[p])
  <2> HAVE j # hi
  <2>1. 1 \in 1 .. n /\ n \in 1 .. n /\ j + n = hi
    BY <1>1
  <2> QED BY <1>1, <1>3, <1>4, <2>1
<1>9. Len(ps) = hi - j
  BY <1>4
<1> QED BY <1>4, <1>5, <1>6, <1>7, <1>8, <1>9 DEF ps

\* What the tap gives from where the offset is reached follows the frame it is to follow, and
\* the frame at its end leads to the items behind it.
LEMMA DrainFollows ==
    ASSUME MirrorTyped, NEW p \in 1 .. MaxProcs, NEW q, p \in Known(q), NEW f \in WireFrame,
           NEW u \in Nat, NEW hi \in Nat, u <= hi, hi <= Len(outputs[p]), NEW k \in Nat,
           p = q => Leads(q, f, outputs[p], u, k)
    PROVE  LET items == outputs[p]
               shownTo == OffsetAt(items, u) + k
               j == Reach(items, u, hi, shownTo)
               ps == Pieces(p, j + 1, hi)
           IN  /\ j \in u .. hi /\ shownTo - OffsetAt(items, j) \in Nat
               /\ ps \in Seq(WireFrame) /\ Chain(q, ps) /\ Aged(q, ps)
               /\ ps # <<>> => Joins(q, f, ps[1])
               /\ p = q => Leads(q, IF ps = <<>> THEN f ELSE End(ps), items, hi, shownTo - OffsetAt(items, j))
               /\ shownTo <= OffsetAt(items, hi) => shownTo - OffsetAt(items, j) = 0
<1> DEFINE items == outputs[p]
           shownTo == OffsetAt(items, u) + k
           j == Reach(items, u, hi, shownTo)
           ps == Pieces(p, j + 1, hi)
           rest == shownTo - OffsetAt(items, j)
<1>1. Len(items) \in Nat /\ OffsetAt(items, u) \in Nat /\ shownTo \in Nat
  <2>1. items \in Seq(Item)
    BY DEF MirrorTyped
  <2> HIDE DEF items
  <2>2. OffsetAt(items, u) \in Nat
    BY OffsetSteps
  <2> QED BY <2>1, <2>2, LenProperties
<1>2. /\ j \in u .. hi /\ (j = hi \/ OffsetAt(items, j) >= shownTo)
      /\ \A i \in u .. j - 1 : OffsetAt(items, i) < shownTo
      /\ OffsetAt(items, j) <= shownTo
  <2>1. OffsetAt(items, u) <= shownTo
    BY <1>1
  <2> HIDE DEF shownTo, items
  <2> QED BY <1>1, <2>1, ReachIs
<1>3. j \in Nat /\ j <= hi /\ OffsetAt(items, j) \in Nat /\ rest \in Nat
  <2>1. j \in Nat /\ j <= hi
    BY <1>2
  <2>2. OffsetAt(items, j) \in Nat
    BY <2>1, OffsetSteps
  <2> HIDE DEF j, shownTo, items
  <2> QED BY <1>1, <1>2, <2>1, <2>2
<1> HIDE DEF j
<1>4. /\ ps \in Seq(WireFrame) /\ Chain(q, ps) /\ Aged(q, ps)
      /\ Len(ps) = hi - j /\ (ps = <<>> <=> j = hi)
      /\ j # hi => /\ ps[1] = Piece(p, j + 1) /\ ps[Len(ps)] = Piece(p, hi)
                   /\ j + 1 \in 1 .. Len(items) /\ hi \in 1 .. Len(items)
  BY <1>3, PiecesAre
<1> HIDE DEF shownTo, ps, items
<1>5. shownTo <= OffsetAt(items, hi) => rest = 0
  BY <1>1, <1>2, <1>3
<1>6. j # hi => rest = 0 /\ OffsetAt(items, j) = shownTo
  BY <1>1, <1>2, <1>3
<1> HIDE DEF rest
<1>7. ASSUME p = q, f.kind # "partial"
      PROVE  /\ f.kind \in Drawn /\ f.proc = q
             /\ \E n \in j .. Len(items) : /\ Past(f) = OffsetAt(items, n) /\ f.size = SizeAt(items, n)
                                           /\ shownTo = OffsetAt(items, n)
  <2>1. f.kind \in Drawn /\ f.proc = q
    BY <1>7 DEF Leads
  <2>2. PICK n \in u .. Len(items) : /\ Past(f) = OffsetAt(items, n) /\ f.size = SizeAt(items, n)
                                     /\ k = OffsetAt(items, n) - OffsetAt(items, u)
    BY <1>7 DEF Leads, items
  <2>3. n \in Nat /\ OffsetAt(items, n) \in Nat
    <3>1. n \in Nat
      BY <1>1
    <3> QED BY <3>1, OffsetSteps
  <2>4. shownTo = OffsetAt(items, n)
    BY <1>1, <2>2, <2>3 DEF shownTo
  <2>5. n \in j .. Len(items)
    <3>1. ~(n \in u .. j - 1)
      BY <1>2, <2>3, <2>4
    <3> QED BY <1>1, <1>2, <1>3, <2>2, <2>3, <3>1
  <2> QED BY <2>1, <2>2, <2>4, <2>5
<1>8. ASSUME ps # <<>> PROVE Joins(q, f, ps[1])
  <2>1. j # hi
    BY <1>4, <1>8
  <2> DEFINE g == Piece(p, j + 1)
  <2>2. ps[1] = g /\ g.proc = p /\ g.at = OffsetAt(items, (j + 1) - 1) /\ (j + 1) - 1 = j
        /\ g.size = SizeAt(items, j + 1) /\ Past(g) = OffsetAt(items, j + 1)
        /\ (g.kind = "byte" => g.size = SizeAt(items, (j + 1) - 1))
    <3>1. ps[1] = g /\ j + 1 \in 1 .. Len(outputs[p])
      BY <1>4, <2>1 DEF items
    <3>2. (j + 1) - 1 = j
      BY <1>3
    <3> DEFINE i == j + 1
    <3>3. /\ g.proc = p /\ g.at = OffsetAt(outputs[p], i - 1)
          /\ g.size = SizeAt(outputs[p], i) /\ Past(g) = OffsetAt(outputs[p], i)
          /\ g.kind = "byte" => g.size = SizeAt(outputs[p], i - 1)
      <4>1. i \in 1 .. Len(outputs[p]) /\ g = Piece(p, i)
        BY <3>1
      <4> HIDE DEF i, g
      <4> QED BY <4>1, PieceIs
    <3> HIDE DEF g
    <3> QED BY <3>1, <3>2, <3>3 DEF items
  <2> HIDE DEF g
  <2>3. SUFFICES ASSUME p = q, f.kind # "partial"
                 PROVE  /\ f.kind \in Drawn /\ f.proc = q /\ g.at = Past(f)
                        /\ g.kind = "byte" => g.size = f.size
    BY <2>2 DEF Joins
  <2>4. PICK n \in j .. Len(items) : /\ Past(f) = OffsetAt(items, n) /\ f.size = SizeAt(items, n)
                                     /\ shownTo = OffsetAt(items, n)
    BY <1>7, <2>3
  <2>5. OffsetAt(items, n) = OffsetAt(items, j)
    BY <1>6, <2>1, <2>4
  <2>6. g.kind = "byte" => n = j
    <3> SUFFICES ASSUME g.kind = "byte", n # j PROVE FALSE
      OBVIOUS
    <3>1. j + 1 <= n /\ n \in Nat /\ j + 1 \in Nat
      BY <1>1, <1>3, <2>4
    <3>2. OffsetAt(items, j + 1) <= OffsetAt(items, n)
      BY <3>1, OffsetSteps
    <3>3. OffsetAt(items, j + 1) = OffsetAt(items, j) + 1
      BY <2>2 DEF Past
    <3> QED BY <1>3, <2>5, <3>2, <3>3
  <2>7. f.kind \in Drawn /\ f.proc = q
    BY <1>7, <2>3
  <2> QED BY <2>2, <2>4, <2>5, <2>6, <2>7
<1>9. ASSUME p = q PROVE Leads(q, IF ps = <<>> THEN f ELSE End(ps), items, hi, rest)
  <2>1. CASE ps = <<>>
    <3>1. j = hi
      BY <1>4, <2>1
    <3>2. SUFFICES ASSUME f.kind # "partial" PROVE Leads(q, f, items, hi, rest)
      BY <2>1 DEF Leads
    <3>3. PICK n \in hi .. Len(items) : /\ Past(f) = OffsetAt(items, n) /\ f.size = SizeAt(items, n)
                                        /\ shownTo = OffsetAt(items, n)
      BY <1>7, <1>9, <3>1, <3>2
    <3>4. f.kind \in Drawn /\ f.proc = q /\ rest = OffsetAt(items, n) - OffsetAt(items, hi)
      BY <1>7, <1>9, <3>1, <3>2, <3>3 DEF rest
    <3> QED BY <3>3, <3>4 DEF Leads
  <2>2. CASE ps # <<>>
    <3>1. j # hi
      BY <1>4, <2>2
    <3> DEFINE g == Piece(p, hi)
    <3>2. ps[Len(ps)] = g /\ g.kind \in {"byte", "resize"} /\ g.proc = p
          /\ Past(g) = OffsetAt(items, hi) /\ g.size = SizeAt(items, hi)
      BY <1>4, <3>1, PieceIs DEF items
    <3> HIDE DEF g
    <3>3. hi \in hi .. Len(items) /\ OffsetAt(items, hi) - OffsetAt(items, hi) = 0 /\ rest = 0
      <4>1. OffsetAt(items, hi) \in Nat
        BY OffsetSteps
      <4>2. hi <= Len(items)
        BY DEF items
      <4> QED BY <1>1, <1>6, <3>1, <4>1, <4>2
    <3> QED BY <1>9, <2>2, <3>2, <3>3 DEF Leads, Drawn, End
  <2> QED BY <2>1, <2>2
<1> QED BY <1>2, <1>3, <1>4, <1>5, <1>8, <1>9 DEF j, ps, shownTo, items, rest

\* The frames d behind the frame s, and b behind them.
LEMMA WireIs ==
    ASSUME NEW s \in WireFrame, NEW d \in Seq(WireFrame), NEW b \in Seq(WireFrame)
    PROVE  /\ Wire(s, d, b) = PictureFirst(s, d) \o b /\ PictureFirst(s, d) \in Seq(WireFrame) /\ PictureFirst(s, d) # <<>>
           /\ Wire(s, d, b) \in Seq(WireFrame) /\ Wire(s, d, b) # <<>>
           /\ End(Wire(s, d, b)) = (IF Bare(b) THEN End(PictureFirst(s, d)) ELSE End(b))
           /\ Bare(d) => End(PictureFirst(s, d)) = s
           /\ ~Bare(d) => End(PictureFirst(s, d)) = End(d)
           /\ End(PictureFirst(s, d)) \in WireFrame /\ End(Wire(s, d, b)) \in WireFrame
<1> DEFINE F == <<s>> \o d
           v == <<s>> \o (d \o b)
<1>1. <<s>> \in Seq(WireFrame) /\ Len(<<s>>) = 1 /\ <<s>>[1] = s
  BY OneFrame
<1>2. F \in Seq(WireFrame) /\ v = F \o b /\ d \o b \in Seq(WireFrame)
  BY <1>1, ConcatAssociative, ConcatProperties
<1>3. Len(F) = 1 + Len(d) /\ Len(d) \in Nat /\ (d = <<>> <=> Len(d) = 0)
      /\ F[Len(F)] = IF d = <<>> THEN s ELSE d[Len(d)]
  BY <1>1, ChainParts, ConcatLies, EmptySeq
<1> HIDE DEF F
<1>4. F # <<>> /\ Len(F) \in 1 .. Len(F)
  BY <1>3, EmptySeq
<1>5. v \in Seq(WireFrame) /\ Len(v) = Len(F) + Len(b) /\ Len(b) \in Nat
  BY <1>2, ConcatLies
<1>6. v # <<>> /\ Len(v) \in 1 .. Len(v)
  BY <1>3, <1>5, EmptySeq
<1>7. v[Len(v)] = IF b = <<>> THEN F[Len(F)] ELSE b[Len(b)]
  <2> HIDE DEF v
  <2>1. /\ b # <<>> => End(F \o b) = End(b)
        /\ b = <<>> => F \o b = F
    BY <1>2, ChainParts
  <2> QED BY <1>2, <1>4, <2>1 DEF End
<1>8. F[Len(F)] \in WireFrame /\ v[Len(v)] \in WireFrame
  BY <1>2, <1>4, <1>5, <1>6, ElementOfSeq
<1> QED BY <1>2, <1>3, <1>4, <1>5, <1>6, <1>7, <1>8 DEF F, PictureFirst, Wire, End, Bare

LEMMA WireEnd ==
    ASSUME NEW s \in WireFrame, NEW d \in Seq(WireFrame), NEW b \in Seq(WireFrame)
    PROVE  End(Wire(s, d, b)) = IF Bare(b) THEN End(PictureFirst(s, d)) ELSE End(b)
BY WireIs

LEMMA WireLinks ==
    ASSUME NEW q, NEW s \in WireFrame, NEW d \in Seq(WireFrame), NEW b \in Seq(WireFrame)
    PROVE  /\ Aged(q, Wire(s, d, b)) <=> Aged(q, PictureFirst(s, d)) /\ Aged(q, b)
           /\ Chain(q, Wire(s, d, b)) <=> Linked(q, s, d, b)
<1>1. Wire(s, d, b) = PictureFirst(s, d) \o b /\ PictureFirst(s, d) \in Seq(WireFrame) /\ PictureFirst(s, d) # <<>>
  BY WireIs
<1> QED BY <1>1, ChainParts DEF Bare, Start, Linked

LEMMA KnownIs ==
    ASSUME MirrorTyped, NEW p \in Known(proc) PROVE p \in 1 .. MaxProcs /\ p \in 0 .. MaxProcs
<1>1. MaxProcs \in Nat /\ proc \in 0 .. MaxProcs
  BY MirrorAssumption DEF MirrorTyped
<1> QED BY <1>1 DEF Known

LEMMA ShowsType ==
    ASSUME MirrorTyped PROVE Shows(pane) \in WireFrame
<1>1. pane.proc \in 0 .. MaxProcs /\ pane.at \in Nat /\ pane.size \in SizeOr0 /\ pane.whole \in BOOLEAN
  BY DEF MirrorTyped
<1> QED BY <1>1 DEF Shows, WireFrame, FrameKinds, Drawn

LEMMA PlainFrames ==
    /\ \A k \in {"welcome", "gone"} : Plain(k) \in WireFrame /\ Plain(k).kind = k
    /\ \A k \in {"sub", "unsub"} : Plain(k) \in Told /\ Plain(k).kind = k /\ Plain(k).at = 0
    /\ \A n \in Nat : /\ [Plain("ack") EXCEPT !.at = n] \in Told
                      /\ [Plain("ack") EXCEPT !.at = n].kind = "ack" /\ [Plain("ack") EXCEPT !.at = n].at = n
    /\ NoSub \in SubRec /\ NoSub.state = "none" /\ NoSub.backlog = <<>>
<1>1. 0 \in 0 .. MaxProcs /\ 0 \in Nat /\ 0 \in SizeOr0
  BY MirrorAssumption DEF SizeOr0
<1>2. NoSub \in SubRec /\ NoSub.state = "none" /\ NoSub.backlog = <<>>
  BY <1>1, NoFrames DEF NoSub, SubRec
<1>3. \A n \in Nat : /\ [Plain("ack") EXCEPT !.at = n] \in Told
                     /\ [Plain("ack") EXCEPT !.at = n].kind = "ack" /\ [Plain("ack") EXCEPT !.at = n].at = n
  BY DEF Plain, Told
<1>4. \A k \in {"sub", "unsub"} : Plain(k) \in Told /\ Plain(k).kind = k /\ Plain(k).at = 0
  BY DEF Plain, Told
<1>5. \A k \in {"welcome", "gone"} : Plain(k) \in WireFrame /\ Plain(k).kind = k
  BY <1>1 DEF Plain, WireFrame, FrameKinds
<1> QED BY <1>2, <1>3, <1>4, <1>5

\* A tap of the process there is, or that it is gone.
LEMMA SubscribedIs ==
    ASSUME MirrorTyped
    PROVE  /\ Subscribed \in SubRec /\ Subscribed.backlog = <<>> /\ Subscribed.state \in {"none", "pending"}
           /\ Subscribed.state # "none" => /\ Subscribed.proc = proc /\ proc # 0
                                           /\ Subscribed.upto = Len(outputs[proc])
           /\ GoneFrame \in Seq(WireFrame)
           /\ \A q : Chain(q, GoneFrame) /\ Aged(q, GoneFrame)
           /\ \A q, f : GoneFrame # <<>> => Joins(q, f, GoneFrame[1])
<1>1. CASE proc = 0
  <2>1. Plain("gone") \in WireFrame /\ Plain("gone").kind = "gone"
    BY PlainFrames
  <2> DEFINE g == Plain("gone")
  <2>2. GoneFrame = <<g>> /\ Subscribed = NoSub
    BY <1>1 DEF GoneFrame, Subscribed
  <2> HIDE DEF g
  <2>3. g \in WireFrame /\ g.kind = "gone"
    BY <2>1 DEF g
  <2>4. \A q, f : Joins(q, f, g)
    BY <2>3 DEF Joins
  <2>5. \A q : Chain(q, <<g>>) /\ Aged(q, <<g>>)
    BY <2>3, OneFrame DEF Drawn
  <2> QED BY <2>2, <2>3, <2>4, <2>5, OneFrame, PlainFrames
<1>2. CASE proc # 0
  <2>1. GoneFrame = <<>> /\ Subscribed = Tap(proc)
    BY <1>2 DEF GoneFrame, Subscribed
  <2>2. proc \in 1 .. MaxProcs /\ Len(outputs[proc]) \in Nat /\ proc \in 0 .. MaxProcs
    BY <1>2, LenProperties DEF MirrorTyped
  <2>3. Tap(proc) = [state |-> "pending", proc |-> proc, upto |-> Len(outputs[proc]), skip |-> 0, backlog |-> <<>>]
    <3> DEFINE n == Len(outputs[proc])
    <3>1. Tap(proc) = [NoSub EXCEPT !.state = "pending", !.proc = proc, !.upto = n]
      BY DEF Tap
    <3> HIDE DEF n
    <3>2. Tap(proc) = [state |-> "pending", proc |-> proc, upto |-> n, skip |-> 0, backlog |-> <<>>]
      BY <3>1 DEF NoSub
    <3> QED BY <3>2 DEF n
  <2>4. Tap(proc) \in SubRec
    BY <2>2, <2>3, NoFrames DEF SubRec
  <2> QED BY <1>2, <2>1, <2>3, <2>4, NoFrames
<1> QED BY <1>1, <1>2

\* What is not about the pump stays as it is.
Elsewhere == UNCHANGED <<outputVars, tx, resub, opened, channel, pane, links>>

\* A stream that starts over, behind the frames x.
LEMMA StartsOverKeeps ==
    ASSUME MirrorIInv, Elsewhere, desk.on, NEW x \in Seq(WireFrame), NEW c \in Nat,
           Chain(proc, PictureFirst(Shows(pane), x)), Aged(proc, PictureFirst(Shows(pane), x)),
           desk' = [desk EXCEPT !.sub = Subscribed, !.unacked = c], down' = x \o GoneFrame,
           reply' = NoReply, upward' \in Seq(Told), unsaid' \in Nat
    PROVE  MirrorTyped' /\ SubOK' /\ StreamOK' /\ MirrorExact'
<1> DEFINE s == Subscribed
<1>1. /\ s \in SubRec /\ s.backlog = <<>> /\ s.state \in {"none", "pending"}
      /\ s.state # "none" => s.proc = proc /\ proc # 0 /\ s.upto = Len(outputs[proc])
      /\ GoneFrame \in Seq(WireFrame) /\ Chain(proc, GoneFrame) /\ Aged(proc, GoneFrame)
      /\ \A f : GoneFrame # <<>> => Joins(proc, f, GoneFrame[1])
  BY SubscribedIs DEF MirrorIInv
<1> HIDE DEF s
<1>2. desk' = [on |-> TRUE, sub |-> s, unacked |-> c] /\ desk'.sub = s /\ desk'.on
  BY DEF MirrorIInv, MirrorTyped, s
<1>3. /\ outputs' = outputs /\ proc' = proc /\ pane' = pane /\ links' = links /\ opened' = opened
      /\ tx' = tx /\ resub' = resub /\ channel' = channel
  BY DEF Elsewhere, outputVars
<1>4. down' \in Seq(WireFrame)
  BY <1>1, ConcatProperties
<1>5. reply' \in [proc : 0 .. MaxProcs, at : Nat, size : SizeOr0]
  BY MirrorAssumption DEF NoReply, SizeOr0
<1>6. MirrorTyped'
  <2>1. desk' \in [on : BOOLEAN, sub : SubRec, unacked : Nat]
    BY <1>1, <1>2
  <2>2. /\ outputs' \in [1 .. MaxProcs -> Seq(Item)] /\ \A p \in 1 .. MaxProcs : ItemsOK(outputs'[p])
        /\ proc' \in 0 .. MaxProcs /\ links' \in 0 .. MaxLinks /\ opened' \in 0 .. MaxPanes
        /\ tx' \in BOOLEAN /\ resub' \in BOOLEAN /\ channel' \in BOOLEAN
        /\ pane' \in [proc : 0 .. MaxProcs, at : Nat, size : SizeOr0, whole : BOOLEAN, torn : BOOLEAN]
        /\ ~channel' => ~pane'.whole
    BY <1>3 DEF MirrorIInv, MirrorTyped
  <2> QED BY <1>2, <1>4, <1>5, <2>1, <2>2 DEF MirrorTyped
<1>7. SubOK'
  <2>1. proc # 0 => proc \in Known(proc)
    BY DEF Known, MirrorIInv, MirrorTyped
  <2>2. s.state # "none" => s.proc \in Known(proc) /\ s.upto <= Len(outputs[s.proc])
    <3> SUFFICES ASSUME s.state # "none" PROVE s.proc \in Known(proc) /\ s.upto <= Len(outputs[s.proc])
      OBVIOUS
    <3>1. proc \in 1 .. MaxProcs /\ outputs \in [1 .. MaxProcs -> Seq(Item)]
      <4>1. proc \in 0 .. MaxProcs /\ outputs \in [1 .. MaxProcs -> Seq(Item)]
        BY DEF MirrorIInv, MirrorTyped
      <4>2. proc # 0
        BY <1>1
      <4> QED BY <4>1, <4>2
    <3>2. outputs[proc] \in Seq(Item)
      BY <3>1
    <3>3. Len(outputs[proc]) \in Nat
      BY <3>2, LenProperties
    <3> QED BY <1>1, <2>1, <3>3
  <2> QED BY <1>1, <1>2, <1>3, <2>2 DEF SubOK
<1>8. StreamOK'
  <2>1. Shows(pane) \in WireFrame
    BY ShowsType DEF MirrorIInv
  <2> DEFINE v == Wire(Shows(pane), x, GoneFrame)
  <2>2. Linked(proc, Shows(pane), x, GoneFrame)
    BY <1>1 DEF Linked, Bare, Start
  <2>2a. Chain(proc, v) /\ Aged(proc, v)
    BY <1>1, <2>1, <2>2, WireLinks
  <2>3. v = Wire(Shows(pane'), down', desk'.sub.backlog)
    <3>1. (x \o GoneFrame) \o <<>> = x \o GoneFrame
      BY <1>4, ConcatEmptySeq
    <3> QED BY <1>1, <1>2, <1>3, <3>1 DEF Wire
  <2> HIDE DEF v
  <2> QED BY <1>1, <1>2, <1>3, <2>2a, <2>3 DEF StreamOK
<1>9. MirrorExact'
  BY <1>3 DEF MirrorIInv, MirrorExact
<1> QED BY <1>6, <1>7, <1>8, <1>9

\* A live stream sub, with the frames d sent or about to be.
Follows(sub, d) ==
    LET v == Wire(Shows(pane), d, sub.backlog)
    IN  /\ Chain(proc, v) /\ Aged(proc, v)
        /\ sub.proc = proc => Leads(proc, End(v), outputs[proc], sub.upto, sub.skip)
IsLive(sub) ==
    /\ sub \in SubRec /\ sub.state = "live"
    /\ sub.proc \in Known(proc) /\ sub.upto <= Len(outputs[sub.proc])

\* It is still one when the tap was read.
LEMMA DrainedFollows ==
    ASSUME MirrorTyped, NEW live, IsLive(live), NEW d \in Seq(WireFrame), Follows(live, d)
    PROVE  IsLive(Drained(live)) /\ Follows(Drained(live), d)
<1> DEFINE p == live.proc
           items == outputs[p]
           L == Len(items)
           shownTo == OffsetAt(items, live.upto) + live.skip
           j == Reach(items, live.upto, L, shownTo)
           ps == Pieces(p, j + 1, L)
           rest == shownTo - OffsetAt(items, j)
           b == live.backlog
           v == Wire(Shows(pane), d, b)
           e == End(v)
           F == PictureFirst(Shows(pane), d)
<1>1. /\ p \in 1 .. MaxProcs /\ p \in Known(proc) /\ b \in Seq(WireFrame)
      /\ live.upto \in Nat /\ live.skip \in Nat /\ L \in Nat /\ live.upto <= L /\ L <= L
  <2>1. p \in Known(proc) /\ live \in SubRec /\ live.upto <= L
    BY DEF IsLive
  <2>2. p \in 1 .. MaxProcs
    BY <2>1, KnownIs
  <2>3. L \in Nat
    <3>1. items \in Seq(Item)
      BY <2>2 DEF MirrorTyped
    <3> HIDE DEF items
    <3> QED BY <3>1, LenProperties
  <2> QED BY <2>1, <2>2, <2>3 DEF SubRec
<1>2. Shows(pane) \in WireFrame
  BY ShowsType
<1>3. /\ F # <<>> /\ Chain(proc, F) /\ Chain(proc, b) /\ (b # <<>> => Joins(proc, End(F), b[1]))
      /\ Aged(proc, F) /\ Aged(proc, b)
      /\ e = (IF b = <<>> THEN End(F) ELSE End(b))
      /\ e \in WireFrame
  <2>1. Chain(proc, v) /\ Aged(proc, v)
    BY DEF Follows
  <2> DEFINE s == Shows(pane)
  <2>2. s \in WireFrame
    BY <1>2
  <2> HIDE DEF s, b, p, L, v, e, F
  <2>3. PictureFirst(s, d) # <<>> /\ End(Wire(s, d, b)) \in WireFrame
    BY <1>1, <2>2, WireIs
  <2>4. Chain(proc, Wire(s, d, b)) <=> Linked(proc, s, d, b)
    BY <1>1, <2>2, WireLinks
  <2>5. Aged(proc, Wire(s, d, b)) <=> Aged(proc, PictureFirst(s, d)) /\ Aged(proc, b)
    BY <1>1, <2>2, WireLinks
  <2>6. End(Wire(s, d, b)) = (IF Bare(b) THEN End(PictureFirst(s, d)) ELSE End(b))
    <3>1. d \in Seq(WireFrame) /\ b \in Seq(WireFrame)
      BY <1>1
    <3> QED BY <3>1, <2>2, WireEnd
  <2> QED BY <2>1, <2>3, <2>4, <2>5, <2>6 DEF s, v, e, F, Bare, Start, Linked
<1>4. p = proc => Leads(proc, e, items, live.upto, live.skip)
  BY DEF Follows
<1> HIDE DEF v, e, F
<1>5. /\ j \in live.upto .. L /\ rest \in Nat
      /\ ps \in Seq(WireFrame) /\ Chain(proc, ps) /\ Aged(proc, ps)
      /\ ps # <<>> => Joins(proc, e, ps[1])
      /\ p = proc => Leads(proc, IF ps = <<>> THEN e ELSE End(ps), items, L, rest)
  <2>1. L <= Len(outputs[p])
    BY <1>1
  <2>2. p = proc => Leads(proc, e, outputs[p], live.upto, live.skip)
    BY <1>4
  <2> DEFINE u == live.upto
             k == live.skip
  <2>3. u \in Nat /\ k \in Nat /\ u <= L /\ L \in Nat /\ e \in WireFrame /\ p \in 1 .. MaxProcs /\ p \in Known(proc)
    BY <1>1, <1>3
  <2> HIDE DEF p, L, u, k
  <2> QED BY <2>1, <2>2, <2>3, DrainFollows DEF u, k
<1> HIDE DEF ps, rest, L
<1> DEFINE B == b \o ps
           r == [state |-> "live", proc |-> p, upto |-> L, skip |-> rest, backlog |-> B]
<1>6. Drained(live) = r
  <2>1. Drained(live) = [live EXCEPT !.upto = L, !.skip = rest, !.backlog = B]
    BY DEF Drained, L, rest, ps
  <2>2. live = [state |-> live.state, proc |-> live.proc, upto |-> live.upto, skip |-> live.skip, backlog |-> live.backlog]
        /\ live.state = "live"
    BY DEF IsLive, SubRec
  <2> HIDE DEF B
  <2> QED BY <2>1, <2>2
<1>7. B \in Seq(WireFrame) /\ Chain(proc, B) /\ Aged(proc, B)
      /\ (B # <<>> => Joins(proc, End(F), B[1]))
      /\ (IF B = <<>> THEN End(F) ELSE End(B)) = (IF ps = <<>> THEN e ELSE End(ps))
  <2>1. /\ B \in Seq(WireFrame) /\ Aged(proc, B)
        /\ b # <<>> /\ ps # <<>> => Joins(proc, End(b), ps[1])
    BY <1>1, <1>3, <1>5, ChainParts
  <2>2. /\ Chain(proc, B)
        /\ ps # <<>> => End(B) = End(ps)
        /\ ps = <<>> => B = b
        /\ b = <<>> => B = ps
        /\ b # <<>> => B[1] = b[1]
    BY <1>1, <1>3, <1>5, <2>1, ChainParts
  <2>3. B = <<>> => b = <<>> /\ ps = <<>>
    <3>1. Len(B) = Len(b) + Len(ps) /\ Len(b) \in Nat /\ Len(ps) \in Nat
      BY <1>1, <1>5, ConcatLies
    <3>2. Len(B) = 0 => Len(b) = 0 /\ Len(ps) = 0
      BY <3>1
    <3> HIDE DEF B
    <3> QED BY <1>1, <1>5, <2>1, <3>2, EmptySeq
  <2> HIDE DEF B
  <2>4. CASE ps = <<>>
    BY <1>3, <2>1, <2>2, <2>4
  <2>5. CASE ps # <<>>
    <3>1. B # <<>>
      BY <2>3, <2>5
    <3> QED BY <1>3, <1>5, <2>1, <2>2, <2>5, <3>1
  <2> QED BY <2>4, <2>5
<1> HIDE DEF B
<1>8. Follows(r, d)
  <2> DEFINE w == Wire(Shows(pane), d, B)
  <2>1. /\ Chain(proc, w) /\ Aged(proc, w)
        /\ End(w) = IF B = <<>> THEN End(F) ELSE End(B)
    <3> DEFINE s == Shows(pane)
    <3>1. s \in WireFrame
      BY <1>2
    <3> HIDE DEF s, w
    <3>2. Chain(proc, Wire(s, d, B)) <=> Linked(proc, s, d, B)
      BY <1>7, <3>1, WireLinks
    <3>3. Aged(proc, Wire(s, d, B)) <=> Aged(proc, PictureFirst(s, d)) /\ Aged(proc, B)
      BY <1>7, <3>1, WireLinks
    <3>4. End(Wire(s, d, B)) = (IF Bare(B) THEN End(PictureFirst(s, d)) ELSE End(B))
      BY <1>7, <3>1, WireEnd
    <3> QED BY <1>3, <1>7, <3>2, <3>3, <3>4 DEF F, s, w, Bare, Start, Linked
  <2> HIDE DEF w
  <2>2. p = proc => Leads(proc, End(w), items, L, rest)
    BY <1>5, <1>7, <2>1
  <2>3. r.backlog = B /\ r.proc = p /\ r.upto = L /\ r.skip = rest
    OBVIOUS
  <2> HIDE DEF r
  <2> QED BY <2>1, <2>2, <2>3 DEF Follows, w, items
<1>9. IsLive(r)
  <2>1. r \in SubRec
    <3>1. p \in 0 .. MaxProcs
      BY <1>1, KnownIs
    <3> QED BY <1>1, <1>5, <1>7, <3>1 DEF SubRec
  <2> QED BY <1>1, <2>1 DEF IsLive, L
<1> QED BY <1>6, <1>8, <1>9

\* What one message says.
Says(m) == IF m.kind = "ack" THEN m.at ELSE 0
Counts(f, u, k) == f = [n \in 0 .. k |-> IF n = 0 THEN 0 ELSE f[n - 1] + (IF u[n].kind = "ack" THEN u[n].at ELSE 0)]

LEMMA CountsExist ==
    ASSUME NEW u, NEW k \in Nat
    PROVE  \E f : Counts(f, u, k)
<1> DEFINE S == {l \in Nat : ~\E f : Counts(f, u, l)}
<1>1. SUFFICES ASSUME S # {} PROVE FALSE
  BY <1>1
<1>2. PICK l \in S : \A m \in S : l <= m
  BY <1>1, LeastNumber
<1>3. l # 0
  <2>1. Counts([n \in 0 .. 0 |-> 0], u, 0)
    BY DEF Counts
  <2> QED BY <2>1
<1>4. l \in Nat /\ l - 1 \in Nat /\ l - 1 \notin S
  BY <1>2, <1>3
<1>5. PICK g : Counts(g, u, l - 1)
  BY <1>4
<1> DEFINE f == [n \in 0 .. l |-> IF n < l THEN g[n] ELSE g[l - 1] + Says(u[l])]
<1>6. DOMAIN f = 0 .. l /\ f = [n \in 0 .. l |-> f[n]]
  OBVIOUS
<1>7. \A n \in 0 .. l : f[n] = IF n = 0 THEN 0 ELSE f[n - 1] + Says(u[n])
  <2> SUFFICES ASSUME NEW n \in 0 .. l
               PROVE  f[n] = IF n = 0 THEN 0 ELSE f[n - 1] + Says(u[n])
    OBVIOUS
  <2>1. \A j \in 0 .. (l - 1) : f[j] = g[j]
    BY <1>4
  <2>2. f[l] = g[l - 1] + Says(u[l])
    BY <1>4
  <2>3. \A j \in 0 .. (l - 1) : g[j] = IF j = 0 THEN 0 ELSE g[j - 1] + Says(u[j])
    BY <1>5 DEF Counts, Says
  <2> HIDE DEF f
  <2>4. CASE n = l
    BY <1>3, <1>4, <2>1, <2>2, <2>4
  <2>5. CASE n = 0
    BY <1>3, <1>4, <2>1, <2>3, <2>5
  <2>6. CASE n # l /\ n # 0
    <3>1. n \in 0 .. (l - 1) /\ n - 1 \in 0 .. (l - 1)
      BY <1>4, <2>6
    <3>2. f[n] = g[n] /\ f[n - 1] = g[n - 1]
      BY <2>1, <3>1
    <3> QED BY <2>3, <2>6, <3>1, <3>2
  <2> QED BY <2>4, <2>5, <2>6
<1> HIDE DEF f
<1>8. Counts(f, u, l)
  BY <1>6, <1>7 DEF Counts, Says
<1> QED BY <1>2, <1>8

Sum(u) == CHOOSE f : Counts(f, u, Len(u))

\* The acknowledgements on their way are added up one by one.
LEMMA SumSteps ==
    ASSUME NEW u \in Seq(Told)
    PROVE  /\ SaidIn(u) = Sum(u)[Len(u)] /\ Sum(u)[0] = 0 /\ Len(u) \in Nat
           /\ \A n \in 1 .. Len(u) : u[n] \in Told /\ Says(u[n]) \in Nat /\ Sum(u)[n] = Sum(u)[n - 1] + Says(u[n])
           /\ \A n \in 0 .. Len(u) : Sum(u)[n] \in Nat
<1> DEFINE f == Sum(u)
           L == Len(u)
<1>1. SaidIn(u) = f[L]
  BY DEF SaidIn, Sum, Counts
<1>2. L \in Nat /\ \A n \in 1 .. L : u[n] \in Told
  BY LenProperties, ElementOfSeq
<1>3. Counts(f, u, L)
  BY <1>2, CountsExist DEF Sum
<1> HIDE DEF f, L
<1>4. \A n \in 0 .. L : f[n] = IF n = 0 THEN 0 ELSE f[n - 1] + Says(u[n])
  BY <1>3 DEF Counts, Says
<1>5. f[0] = 0 /\ \A n \in 1 .. L : f[n] = f[n - 1] + Says(u[n])
  BY <1>2, <1>4
<1>6. \A n \in 1 .. L : Says(u[n]) \in Nat
  BY <1>2 DEF Says, Told
<1>7. \A n \in 0 .. L : f[n] \in Nat
  <2> DEFINE S == {n \in 0 .. L : f[n] \notin Nat}
  <2>1. SUFFICES ASSUME S # {} PROVE FALSE
    BY <1>2, <2>1
  <2>2. PICK l \in S : \A m \in S : l <= m
    <3>1. S \in SUBSET Nat
      BY <1>2
    <3> HIDE DEF S
    <3> QED BY <2>1, <3>1, LeastNumber
  <2>3. l # 0
    BY <1>5, <2>2
  <2>4. l \in 1 .. L /\ l - 1 \in 0 .. L /\ ~(l <= l - 1)
    BY <1>2, <2>2, <2>3
  <2>5. f[l - 1] \in Nat
    BY <2>2, <2>4
  <2>6. f[l] \in Nat
    BY <1>5, <1>6, <2>4, <2>5
  <2> QED BY <2>2, <2>6
<1> QED BY <1>1, <1>2, <1>5, <1>6, <1>7 DEF f, L

\* A message more adds what it says.
LEMMA SaidAppend ==
    ASSUME NEW u \in Seq(Told), NEW m \in Told
    PROVE  SaidIn(Append(u, m)) = SaidIn(u) + Says(m) /\ SaidIn(u) \in Nat
<1> DEFINE w == Append(u, m)
           f == Sum(u)
           g == Sum(w)
           L == Len(u)
<1>1. w \in Seq(Told) /\ Len(w) = L + 1 /\ L \in Nat /\ w[L + 1] = m /\ \A n \in 1 .. L : w[n] = u[n]
  BY AppendProperties, LenProperties
<1>2. /\ SaidIn(u) = f[L] /\ f[0] = 0 /\ f[L] \in Nat
      /\ \A n \in 1 .. L : f[n] = f[n - 1] + Says(u[n])
  <2>1. L \in 0 .. L
    BY <1>1
  <2> QED BY <2>1, SumSteps
<1>3. SaidIn(w) = g[L + 1] /\ g[0] = 0 /\ \A n \in 1 .. L + 1 : g[n] = g[n - 1] + Says(w[n])
  <2> HIDE DEF w
  <2> QED BY <1>1, SumSteps
<1> HIDE DEF w, f, g, L
<1>4. g[L] = f[L]
  <2> DEFINE S == {n \in 0 .. L : f[n] # g[n]}
  <2>1. SUFFICES ASSUME S # {} PROVE FALSE
    BY <1>1, <2>1
  <2>2. PICK l \in S : \A k \in S : l <= k
    <3>1. S \in SUBSET Nat
      BY <1>1
    <3> HIDE DEF S
    <3> QED BY <2>1, <3>1, LeastNumber
  <2>3. l # 0
    BY <1>2, <1>3, <2>2
  <2>4. l \in 1 .. L /\ l \in 1 .. L + 1 /\ l - 1 \in 0 .. L /\ ~(l <= l - 1)
    BY <1>1, <2>2, <2>3
  <2>5. f[l - 1] = g[l - 1]
    BY <2>2, <2>4
  <2>6. f[l] = g[l]
    BY <1>1, <1>2, <1>3, <2>4, <2>5
  <2> QED BY <2>2, <2>6
<1>5. L + 1 \in 1 .. L + 1 /\ (L + 1) - 1 = L
  BY <1>1
<1>6. g[L + 1] = g[L] + Says(m)
  BY <1>1, <1>3, <1>5
<1> QED BY <1>2, <1>3, <1>4, <1>6 DEF w

\* The first message read takes what it said.
LEMMA SaidTail ==
    ASSUME NEW u \in Seq(Told), u # <<>>
    PROVE  SaidIn(u) = Says(Head(u)) + SaidIn(Tail(u)) /\ SaidIn(Tail(u)) \in Nat /\ Says(Head(u)) \in Nat
           /\ Head(u) \in Told /\ Tail(u) \in Seq(Told)
<1> DEFINE w == Tail(u)
           f == Sum(u)
           g == Sum(w)
           L == Len(u)
<1>1. /\ w \in Seq(Told) /\ Len(w) = L - 1 /\ L \in Nat /\ L - 1 \in Nat
      /\ \A n \in 1 .. L - 1 : w[n] = u[n + 1]
      /\ Head(u) = u[1] /\ Head(u) \in Told
  <2>1. /\ w \in Seq(Told) /\ Len(w) = L - 1
        /\ \A n \in 1 .. Len(w) : w[n] = u[n + 1]
        /\ Head(u) \in Told
    BY HeadTailProperties
  <2>2. L \in Nat /\ Len(w) \in Nat
    <3> HIDE DEF w
    <3> QED BY <2>1, LenProperties
  <2>3. Head(u) = u[1]
    OBVIOUS
  <2> HIDE DEF w
  <2> QED BY <2>1, <2>2, <2>3
<1>2. /\ SaidIn(u) = f[L] /\ f[0] = 0
      /\ \A n \in 1 .. L : f[n] = f[n - 1] + Says(u[n]) /\ Says(u[n]) \in Nat
      /\ \A n \in 0 .. L : f[n] \in Nat
  BY SumSteps
<1>3. /\ SaidIn(w) = g[L - 1] /\ g[0] = 0 /\ g[L - 1] \in Nat
      /\ \A n \in 1 .. L - 1 : g[n] = g[n - 1] + Says(w[n])
      /\ \A n \in 0 .. L - 1 : g[n] \in Nat
  <2>1. L - 1 \in 0 .. L - 1
    BY <1>1
  <2> HIDE DEF w
  <2> QED BY <1>1, <2>1, SumSteps
<1> HIDE DEF w, f, g, L
<1>4. 1 \in 1 .. L /\ f[1] = Says(u[1]) /\ Says(u[1]) \in Nat
  <2>1. 1 \in 1 .. L /\ 1 - 1 = 0
    BY <1>1
  <2> QED BY <1>2, <2>1
<1>5. f[L] = Says(u[1]) + g[L - 1]
  <2> DEFINE S == {n \in 0 .. L - 1 : f[n + 1] # Says(u[1]) + g[n]}
  <2>0. L - 1 \in 0 .. L - 1 /\ (L - 1) + 1 = L
    BY <1>1
  <2>1. SUFFICES ASSUME S # {} PROVE FALSE
    BY <2>0, <2>1
  <2>2. PICK l \in S : \A k \in S : l <= k
    <3>1. S \in SUBSET Nat
      BY <1>1
    <3> HIDE DEF S
    <3> QED BY <2>1, <3>1, LeastNumber
  <2>3. l # 0
    BY <1>3, <1>4, <2>2
  <2>4. /\ l \in 1 .. L - 1 /\ l + 1 \in 1 .. L /\ l - 1 \in 0 .. L - 1 /\ ~(l <= l - 1)
        /\ (l + 1) - 1 = l /\ (l - 1) + 1 = l
    BY <1>1, <2>2, <2>3
  <2>5. f[l] = Says(u[1]) + g[l - 1]
    BY <2>2, <2>4
  <2>6. f[l + 1] = f[l] + Says(u[l + 1]) /\ g[l] = g[l - 1] + Says(u[l + 1])
    BY <1>1, <1>2, <1>3, <2>4
  <2>7. g[l - 1] \in Nat /\ Says(u[l + 1]) \in Nat
    BY <1>2, <1>3, <2>4
  <2>8. f[l + 1] = Says(u[1]) + g[l]
    BY <1>4, <2>5, <2>6, <2>7
  <2> QED BY <2>2, <2>8
<1> QED BY <1>1, <1>2, <1>3, <1>4, <1>5 DEF w

LEMMA SaidInType == ASSUME NEW u \in Seq(Told) PROVE SaidIn(u) \in Nat
<1>1. Len(u) \in Nat
  BY LenProperties
<1>2. Len(u) \in 0 .. Len(u)
  BY <1>1
<1> QED BY <1>2, SumSteps

LEMMA SaidNothing == SaidIn(<<>>) = 0
<1>1. <<>> \in Seq(Told) /\ Len(<<>>) = 0
  BY EmptySeq
<1> QED BY <1>1, SumSteps

\* A sequence cut in two.
LEMMA CutInTwo ==
    ASSUME NEW T, NEW b \in Seq(T), NEW n \in 0 .. Len(b)
    PROVE  /\ SubSeq(b, 1, n) \in Seq(T) /\ SubSeq(b, n + 1, Len(b)) \in Seq(T)
           /\ SubSeq(b, 1, n) \o SubSeq(b, n + 1, Len(b)) = b
           /\ Len(SubSeq(b, 1, n)) = n
<1> DEFINE x == SubSeq(b, 1, n)
           y == SubSeq(b, n + 1, Len(b))
<1>1. Len(b) \in Nat /\ n \in Nat /\ n <= Len(b) /\ \A i \in 1 .. Len(b) : b[i] \in T
  BY LenProperties, ElementOfSeq
<1>2. x \in Seq(T) /\ Len(x) = n /\ \A i \in 1 .. n : x[i] = b[i]
  <2>1. 1 \in Int /\ n \in Int /\ \A i \in 1 .. n : b[i] \in T
    BY <1>1
  <2>2. /\ x \in Seq(T) /\ Len(x) = (IF 1 <= n THEN n - 1 + 1 ELSE 0)
        /\ \A i \in 1 .. n - 1 + 1 : x[i] = b[1 + i - 1]
    BY <2>1, SubSeqProperties
  <2> HIDE DEF x
  <2>3. n - 1 + 1 = n /\ (~(1 <= n) => n = 0) /\ \A i \in 1 .. n : 1 + i - 1 = i
    BY <1>1
  <2> QED BY <2>2, <2>3
<1>3. /\ y \in Seq(T) /\ Len(y) = Len(b) - n
      /\ \A i \in 1 .. Len(b) - n : y[i] = b[n + i]
  <2> DEFINE m == Len(b)
  <2>1. n + 1 \in Int /\ m \in Int /\ \A i \in n + 1 .. m : b[i] \in T
    BY <1>1
  <2>2. /\ y \in Seq(T) /\ Len(y) = (IF n + 1 <= m THEN m - (n + 1) + 1 ELSE 0)
        /\ \A i \in 1 .. m - (n + 1) + 1 : y[i] = b[(n + 1) + i - 1]
    <3> HIDE DEF m
    <3>1. /\ SubSeq(b, n + 1, m) \in Seq(T) /\ Len(SubSeq(b, n + 1, m)) = (IF n + 1 <= m THEN m - (n + 1) + 1 ELSE 0)
          /\ \A i \in 1 .. m - (n + 1) + 1 : SubSeq(b, n + 1, m)[i] = b[(n + 1) + i - 1]
      BY <2>1, SubSeqProperties
    <3> QED BY <3>1 DEF m
  <2> HIDE DEF y
  <2>3. m - (n + 1) + 1 = m - n /\ (~(n + 1 <= m) => m - n = 0) /\ \A i \in 1 .. m - n : (n + 1) + i - 1 = n + i
    BY <1>1
  <2> QED BY <2>2, <2>3
<1> HIDE DEF x, y
<1>4. /\ x \o y \in Seq(T) /\ Len(x \o y) = Len(b)
      /\ \A i \in 1 .. n : (x \o y)[i] = x[i]
      /\ \A i \in n + 1 .. Len(b) : i - n \in 1 .. Len(b) - n /\ (x \o y)[i] = y[i - n]
  <2>1. /\ x \o y \in Seq(T) /\ Len(x \o y) = Len(x) + Len(y)
        /\ \A i \in 1 .. Len(x) : (x \o y)[i] = x[i]
        /\ \A i \in (Len(x) + 1) .. (Len(x) + Len(y)) : i - Len(x) \in 1 .. Len(y) /\ (x \o y)[i] = y[i - Len(x)]
    <3>1. x \in Seq(T) /\ y \in Seq(T)
      BY <1>2, <1>3
    <3> QED BY <3>1, ConcatLies
  <2>2. n + (Len(b) - n) = Len(b)
    BY <1>1
  <2> QED BY <1>2, <1>3, <2>1, <2>2
<1>5. \A i \in 1 .. Len(b) : (x \o y)[i] = b[i]
  <2> TAKE i \in 1 .. Len(b)
  <2>1. CASE i <= n
    BY <1>1, <1>2, <1>4, <2>1
  <2>2. CASE ~(i <= n)
    <3>1. i \in n + 1 .. Len(b) /\ n + (i - n) = i
      BY <1>1, <2>2
    <3> QED BY <1>3, <1>4, <3>1
  <2> QED BY <2>1, <2>2
<1>6. x \o y = b
  BY <1>4, <1>5, SeqEqual
<1> QED BY <1>2, <1>3, <1>6 DEF x, y

\* What is sent was counted.
LEMMA SentCounts ==
    ASSUME MirrorIInv, NEW s, NEW out \in Seq(WireFrame), Sent(s, out), UNCHANGED <<upward, unsaid>>
    PROVE  CreditIsCovered' /\ desk' = [desk EXCEPT !.sub = s, !.unacked = desk.unacked + Len(out)]
           /\ desk.unacked + Len(out) \in Nat /\ down' = down \o out
<1>1. /\ desk.unacked \in Nat /\ down \in Seq(WireFrame) /\ unsaid \in Nat
      /\ desk \in [on : BOOLEAN, sub : SubRec, unacked : Nat]
  BY DEF MirrorIInv, MirrorTyped
<1>2. Len(down \o out) = Len(down) + Len(out) /\ Len(down) \in Nat /\ Len(out) \in Nat
  BY <1>1, ConcatLies
<1>3. desk' = [desk EXCEPT !.sub = s, !.unacked = desk.unacked + Len(out)] /\ down' = down \o out
  BY DEF Sent, Charged
<1>4. desk'.unacked = desk.unacked + Len(out)
  BY <1>1, <1>3
<1>5. CreditIsCovered'
  <2>1. SaidIn(upward') = SaidIn(upward)
    OBVIOUS
  <2>2. desk.unacked <= Len(down) + unsaid + SaidIn(upward)
    BY DEF MirrorIInv, CreditIsCovered
  <2>3. SaidIn(upward) \in Nat
    BY SaidInType DEF MirrorIInv, MirrorTyped
  <2>4. desk'.unacked <= Len(down') + unsaid + SaidIn(upward)
    BY <1>1, <1>2, <1>3, <1>4, <2>2, <2>3
  <2> QED BY <2>1, <2>4 DEF CreditIsCovered
<1> QED BY <1>1, <1>2, <1>3, <1>5


LEMMA Together ==
    ASSUME NEW a \in Seq(WireFrame), NEW b \in Seq(WireFrame), NEW c \in Seq(WireFrame)
    PROVE  (a \o b) \o c = a \o (b \o c) /\ a \o b \in Seq(WireFrame)
<1> DEFINE T == WireFrame
<1> HIDE DEF T
<1>1. a \in Seq(T) /\ b \in Seq(T) /\ c \in Seq(T)
  BY DEF T
<1>2. (a \o b) \o c = a \o (b \o c) /\ a \o b \in Seq(T)
  BY <1>1, ConcatAssociative, ConcatProperties
<1> QED BY <1>2 DEF T

\* A Sub with another backlog.
LEMMA BacklogSet ==
    ASSUME NEW r \in SubRec, NEW y
    PROVE  [r EXCEPT !.backlog = y]
               = [state |-> r.state, proc |-> r.proc, upto |-> r.upto, skip |-> r.skip, backlog |-> y]
BY DEF SubRec

\* A stream that goes on: what was sent moved from its backlog to the link.
LEMMA GoesOnKeeps ==
    ASSUME MirrorIInv, Elsewhere, desk.on, NEW live, IsLive(live), NEW D \in Seq(WireFrame), Follows(live, D),
           NEW n \in 0 .. Len(live.backlog), NEW c \in Nat,
           desk' = [desk EXCEPT !.sub = [live EXCEPT !.backlog = SubSeq(@, n + 1, Len(@))], !.unacked = c],
           down' = D \o SubSeq(live.backlog, 1, n), UNCHANGED <<reply, upward, unsaid>>
    PROVE  MirrorTyped' /\ SubOK' /\ StreamOK' /\ MirrorExact'
<1> DEFINE b == live.backlog
           x == SubSeq(b, 1, n)
           y == SubSeq(b, n + 1, Len(b))
           s == [state |-> "live", proc |-> live.proc, upto |-> live.upto, skip |-> live.skip, backlog |-> y]
<1>1. /\ live = [state |-> "live", proc |-> live.proc, upto |-> live.upto, skip |-> live.skip, backlog |-> b]
      /\ live.proc \in 0 .. MaxProcs /\ live.upto \in Nat /\ live.skip \in Nat /\ b \in Seq(WireFrame)
      /\ live.proc \in Known(proc) /\ live.upto <= Len(outputs[live.proc])
  BY DEF IsLive, SubRec
<1>2. x \in Seq(WireFrame) /\ y \in Seq(WireFrame) /\ x \o y = b
  <2> HIDE DEF b
  <2> QED BY <1>1, CutInTwo DEF b
<1> HIDE DEF x, y
<1>3. [live EXCEPT !.backlog = y] = s
  <2>1. live \in SubRec /\ live.state = "live"
    BY DEF IsLive
  <2> QED BY <2>1, BacklogSet
<1>4. desk' = [desk EXCEPT !.sub = s, !.unacked = c] /\ down' = D \o x
  BY <1>3 DEF x, y
<1> HIDE DEF b
<1>5. desk' = [on |-> TRUE, sub |-> s, unacked |-> c] /\ desk'.sub = s /\ desk'.on
  <2> HIDE DEF s
  <2> QED BY <1>4 DEF MirrorIInv, MirrorTyped
<1>6. /\ outputs' = outputs /\ proc' = proc /\ pane' = pane /\ links' = links /\ opened' = opened
      /\ tx' = tx /\ resub' = resub /\ channel' = channel
      /\ reply' = reply /\ upward' = upward /\ unsaid' = unsaid
  BY DEF Elsewhere, outputVars
<1>7. MirrorTyped'
  <2>1. desk' \in [on : BOOLEAN, sub : SubRec, unacked : Nat]
    <3>1. s \in SubRec
      BY <1>1, <1>2 DEF SubRec
    <3> HIDE DEF s
    <3> QED BY <1>5, <3>1
  <2>2. down' \in Seq(WireFrame)
    <3>1. D \o x \in Seq(WireFrame)
      BY <1>2, Together
    <3> QED BY <1>4, <3>1
  <2>3. /\ outputs' \in [1 .. MaxProcs -> Seq(Item)] /\ \A p \in 1 .. MaxProcs : ItemsOK(outputs'[p])
        /\ proc' \in 0 .. MaxProcs /\ links' \in 0 .. MaxLinks /\ opened' \in 0 .. MaxPanes
        /\ reply' \in [proc : 0 .. MaxProcs, at : Nat, size : SizeOr0]
        /\ upward' \in Seq(Told) /\ unsaid' \in Nat
        /\ tx' \in BOOLEAN /\ resub' \in BOOLEAN /\ channel' \in BOOLEAN
        /\ pane' \in [proc : 0 .. MaxProcs, at : Nat, size : SizeOr0, whole : BOOLEAN, torn : BOOLEAN]
        /\ ~channel' => ~pane'.whole
    BY <1>6 DEF MirrorIInv, MirrorTyped
  <2> QED BY <1>5, <2>1, <2>2, <2>3 DEF MirrorTyped
<1>8. SubOK'
  <2>1. s.state = "live" /\ s.proc = live.proc /\ s.upto = live.upto
    OBVIOUS
  <2> HIDE DEF s
  <2>2. reply # NoReply =>
              /\ reply.proc \in Known(proc)
              /\ \E k \in 0 .. Len(outputs[reply.proc]) :
                    reply.at = OffsetAt(outputs[reply.proc], k) /\ reply.size = SizeAt(outputs[reply.proc], k)
    BY DEF MirrorIInv, SubOK
  <2> QED BY <1>1, <1>5, <1>6, <2>1, <2>2 DEF SubOK
<1>9. StreamOK'
  <2> DEFINE v == Wire(Shows(pane), D, b)
  <2>1. Wire(Shows(pane'), down', desk'.sub.backlog) = v
    <3>1. (D \o x) \o y = D \o (x \o y)
      BY <1>2, Together
    <3>2. desk'.sub.backlog = y
      <4>1. s.backlog = y
        OBVIOUS
      <4>2. desk'.sub = s
        BY <1>5
      <4> HIDE DEF s
      <4> QED BY <4>1, <4>2
    <3>2a. down' = D \o x
      BY <1>4
    <3>2b. pane' = pane
      BY <1>6
    <3>3. Wire(Shows(pane'), down', desk'.sub.backlog) = Wire(Shows(pane), D \o x, y)
      BY <3>2, <3>2a, <3>2b
    <3> QED BY <1>2, <3>1, <3>3 DEF Wire
  <2>2. /\ Chain(proc, v) /\ Aged(proc, v)
        /\ live.proc = proc => Leads(proc, End(v), outputs[proc], live.upto, live.skip)
    BY DEF Follows, b
  <2>3. desk'.sub.proc = live.proc /\ desk'.sub.upto = live.upto /\ desk'.sub.skip = live.skip
    BY <1>5
  <2> HIDE DEF v
  <2> QED BY <1>6, <2>1, <2>2, <2>3 DEF StreamOK
<1>10. MirrorExact'
  BY <1>6 DEF MirrorIInv, MirrorExact
<1> QED BY <1>7, <1>8, <1>9, <1>10

\* pump_subs, for a stream that is followed.
LEMMA PumpSubKeeps ==
    ASSUME MirrorIInv, desk.on, NEW live, IsLive(live), NEW first \in Seq(WireFrame), Follows(live, down \o first),
           PumpSub(live, first), UNCHANGED <<outputVars, upward, viewerVars, links>>
    PROVE  MirrorIInv'
<1> DEFINE read == Drained(live)
           ended == read.proc # proc
           room == IF desk.unacked + Len(first) >= MaxUnacked THEN 0
                   ELSE Lesser(MaxUnacked - desk.unacked - Len(first), Len(read.backlog))
           left == [read EXCEPT !.backlog = SubSeq(@, room + 1, Len(@))]
           x == SubSeq(read.backlog, 1, room)
           y == SubSeq(read.backlog, room + 1, Len(read.backlog))
           D == down \o first
<1>1. MirrorTyped /\ down \in Seq(WireFrame) /\ desk.unacked \in Nat
  BY DEF MirrorIInv, MirrorTyped
<1>2. D \in Seq(WireFrame)
  BY <1>1, ConcatProperties
<1>3. IsLive(read) /\ Follows(read, D)
  <2> HIDE DEF D
  <2> QED BY <1>1, <1>2, DrainedFollows DEF D
<1>4. \/ Weight(read.backlog) > MaxBacklog /\ Sent(Subscribed, first \o GoneFrame) /\ reply' = NoReply
      \/ left.backlog = <<>> /\ Sent(Subscribed, first \o x \o GoneFrame) /\ reply' = NoReply
      \/ Sent(left, first \o x) /\ UNCHANGED reply
  BY Zenon DEF PumpSub
<1> HIDE DEF read
<1>5. read.backlog \in Seq(WireFrame) /\ left.backlog = y
  BY <1>3 DEF IsLive, SubRec
<1>6. room \in 0 .. Len(read.backlog)
  <2>1. Len(read.backlog) \in Nat /\ Len(first) \in Nat /\ MaxUnacked \in Nat
    BY <1>5, LenProperties, MirrorAssumption
  <2> DEFINE l == Len(read.backlog)
             k == Len(first)
  <2> HIDE DEF l, k
  <2> QED BY <1>1, <2>1 DEF Lesser, l, k
<1> HIDE DEF room
<1>7. x \in Seq(WireFrame) /\ y \in Seq(WireFrame) /\ x \o y = read.backlog
  <2> DEFINE b == read.backlog
  <2>1. b \in Seq(WireFrame) /\ room \in 0 .. Len(b)
    BY <1>5, <1>6
  <2> HIDE DEF b
  <2>2. /\ SubSeq(b, 1, room) \in Seq(WireFrame) /\ SubSeq(b, room + 1, Len(b)) \in Seq(WireFrame)
        /\ SubSeq(b, 1, room) \o SubSeq(b, room + 1, Len(b)) = b
    BY <2>1, CutInTwo
  <2> QED BY <2>2 DEF b
<1> HIDE DEF x, y, D
<1>8. /\ GoneFrame \in Seq(WireFrame)
      /\ Chain(proc, PictureFirst(Shows(pane), D)) /\ Aged(proc, PictureFirst(Shows(pane), D))
  <2>1. Shows(pane) \in WireFrame
    BY <1>1, ShowsType
  <2>2. Chain(proc, Wire(Shows(pane), D, read.backlog)) /\ Aged(proc, Wire(Shows(pane), D, read.backlog))
    BY <1>3 DEF Follows
  <2>3. Linked(proc, Shows(pane), D, read.backlog)
    BY <1>2, <1>5, <2>1, <2>2, WireLinks
  <2>4. Aged(proc, PictureFirst(Shows(pane), D))
    BY <1>2, <1>5, <2>1, <2>2, WireLinks
  <2> QED BY <1>1, <2>3, <2>4, SubscribedIs DEF Linked
<1>9. Elsewhere /\ upward' = upward /\ unsaid' = unsaid /\ upward \in Seq(Told) /\ unsaid \in Nat
  BY <1>1 DEF Elsewhere, viewerVars, MirrorTyped
<1>10. CASE Sent(Subscribed, first \o GoneFrame) /\ reply' = NoReply
  <2>1. first \o GoneFrame \in Seq(WireFrame)
    BY <1>8, ConcatProperties
  <2>2. /\ CreditIsCovered' /\ desk' = [desk EXCEPT !.sub = Subscribed, !.unacked = desk.unacked + Len(first \o GoneFrame)]
        /\ desk.unacked + Len(first \o GoneFrame) \in Nat /\ down' = down \o (first \o GoneFrame)
    BY <1>9, <1>10, <2>1, SentCounts
  <2>3. down' = D \o GoneFrame
    <3>1. (down \o first) \o GoneFrame = down \o (first \o GoneFrame)
      BY <1>1, <1>8, Together, SMTT(30)
    <3> QED BY <2>2, <3>1 DEF D
  <2> QED BY <1>2, <1>8, <1>9, <1>10, <2>2, <2>3, StartsOverKeeps DEF MirrorIInv
<1>11. CASE left.backlog = <<>> /\ Sent(Subscribed, first \o x \o GoneFrame) /\ reply' = NoReply
  <2>1. first \o x \in Seq(WireFrame) /\ D \o x \in Seq(WireFrame)
    BY <1>2, <1>7, ConcatProperties
  <2>2. first \o x \o GoneFrame \in Seq(WireFrame)
    BY <1>8, <2>1, ConcatProperties
  <2> DEFINE out == first \o x \o GoneFrame
  <2>3. /\ CreditIsCovered' /\ desk' = [desk EXCEPT !.sub = Subscribed, !.unacked = desk.unacked + Len(out)]
        /\ desk.unacked + Len(out) \in Nat /\ down' = down \o out
    <3> HIDE DEF out
    <3> QED BY <1>9, <1>11, <2>2, SentCounts DEF out
  <2>4. down' = (D \o x) \o GoneFrame
    <3>1. down \o (first \o x) = D \o x
      <4>1. (down \o first) \o x = down \o (first \o x)
        BY <1>1, <1>7, Together, SMTT(30)
      <4> QED BY <4>1 DEF D
    <3> DEFINE fx == first \o x
    <3>2. fx \in Seq(WireFrame) /\ D \o x = down \o fx /\ down' = down \o (fx \o GoneFrame)
      BY <2>1, <2>3, <3>1
    <3> HIDE DEF fx
    <3>3. (down \o fx) \o GoneFrame = down \o (fx \o GoneFrame)
      BY <1>1, <1>8, <3>2, Together, SMTT(30)
    <3> QED BY <3>2, <3>3
  <2>5. Chain(proc, PictureFirst(Shows(pane), D \o x)) /\ Aged(proc, PictureFirst(Shows(pane), D \o x))
    <3>1. x = read.backlog
      BY <1>5, <1>7, <1>11, ConcatEmptySeq
    <3>2. Chain(proc, Wire(Shows(pane), D, x)) /\ Aged(proc, Wire(Shows(pane), D, x))
      BY <1>3, <3>1 DEF Follows
    <3> QED BY <3>2 DEF Wire, PictureFirst
  <2> HIDE DEF out
  <2> QED BY <1>9, <1>11, <2>1, <2>3, <2>4, <2>5, StartsOverKeeps DEF MirrorIInv
<1>12. CASE Sent(left, first \o x) /\ UNCHANGED reply
  <2>1. first \o x \in Seq(WireFrame)
    BY <1>7, ConcatProperties
  <2>2. /\ CreditIsCovered' /\ desk' = [desk EXCEPT !.sub = left, !.unacked = desk.unacked + Len(first \o x)]
        /\ desk.unacked + Len(first \o x) \in Nat /\ down' = down \o (first \o x)
    <3> HIDE DEF left
    <3> QED BY <1>9, <1>12, <2>1, SentCounts
  <2>3. down' = D \o x
    <3>1. (down \o first) \o x = down \o (first \o x)
      BY <1>1, <1>7, Together, SMTT(30)
    <3> QED BY <2>2, <3>1 DEF D
  <2>4. MirrorTyped' /\ SubOK' /\ StreamOK' /\ MirrorExact'
    BY <1>2, <1>3, <1>6, <1>9, <1>12, <2>2, <2>3, GoesOnKeeps DEF x
  <2> QED BY <2>2, <2>4 DEF MirrorIInv
<1> QED BY <1>4, <1>10, <1>11, <1>12

\* What a tap has read.
LEMMA SubIs ==
    ASSUME MirrorIInv, desk.sub.state # "none"
    PROVE  /\ desk.on /\ desk.sub \in SubRec
           /\ desk.sub.proc \in Known(proc) /\ desk.sub.proc \in 1 .. MaxProcs
           /\ desk.sub.upto \in Nat /\ desk.sub.upto <= Len(outputs[desk.sub.proc])
           /\ outputs[desk.sub.proc] \in Seq(Item) /\ Len(outputs[desk.sub.proc]) \in Nat
<1>1. desk.on /\ desk.sub \in SubRec
  BY DEF MirrorIInv, MirrorTyped
<1>2. desk.sub.proc \in Known(proc) /\ desk.sub.upto <= Len(outputs[desk.sub.proc])
  BY DEF MirrorIInv, SubOK
<1>3. desk.sub.proc \in 1 .. MaxProcs
  BY <1>2, KnownIs DEF MirrorIInv
<1>4. outputs[desk.sub.proc] \in Seq(Item)
  BY <1>3 DEF MirrorIInv, MirrorTyped
<1>5. Len(outputs[desk.sub.proc]) \in Nat
  BY <1>4, LenProperties
<1> QED BY <1>1, <1>2, <1>3, <1>4, <1>5 DEF SubRec

\* A stream that opens with the frame f, then the frames rest.
LEMMA OpensStream ==
    ASSUME MirrorIInv, desk.sub.state = "pending",
           NEW f \in WireFrame, f.kind \in {"snap", "partial"}, f.kind = "snap" => f.proc \in Known(proc),
           NEW rest \in Seq(WireFrame), Chain(proc, rest), Aged(proc, rest), rest # <<>> => Joins(proc, f, rest[1]),
           NEW k \in Nat,
           desk.sub.proc = proc =>
               Leads(proc, IF rest = <<>> THEN f ELSE End(rest), outputs[desk.sub.proc], desk.sub.upto, k),
           NEW live, live = [desk.sub EXCEPT !.state = "live", !.skip = k, !.backlog = rest]
    PROVE  IsLive(live) /\ Follows(live, down \o <<f>>)
<1> DEFINE s == Shows(pane)
           D == down \o <<f>>
           p == desk.sub.proc
           u == desk.sub.upto
<1>1. /\ desk.sub \in SubRec /\ p \in Known(proc) /\ p \in 1 .. MaxProcs /\ p \in 0 .. MaxProcs
      /\ u \in Nat /\ u <= Len(outputs[p])
  BY SubIs, KnownIs DEF MirrorIInv
<1>2. live = [state |-> "live", proc |-> p, upto |-> u, skip |-> k, backlog |-> rest]
  BY <1>1 DEF SubRec
<1>3. IsLive(live)
  BY <1>1, <1>2 DEF IsLive, SubRec
<1>4. s \in WireFrame /\ down \in Seq(WireFrame) /\ <<f>> \in Seq(WireFrame) /\ <<f>> # <<>>
  BY ShowsType, OneFrame DEF MirrorIInv, MirrorTyped
<1>5. D \in Seq(WireFrame)
  BY <1>4, ConcatProperties
<1>6. Chain(proc, PictureFirst(s, down)) /\ Aged(proc, PictureFirst(s, down))
  <2>1. desk.sub.backlog = <<>>
    BY DEF MirrorIInv, SubOK
  <2>2. Chain(proc, Wire(s, down, <<>>)) /\ Aged(proc, Wire(s, down, <<>>))
    BY <2>1 DEF MirrorIInv, StreamOK
  <2>3. <<>> \in Seq(WireFrame)
    BY NoFrames
  <2> HIDE DEF s
  <2>4. Linked(proc, s, down, <<>>)
    BY <1>4, <2>2, <2>3, WireLinks
  <2>5. Aged(proc, PictureFirst(s, down))
    BY <1>4, <2>2, <2>3, WireLinks
  <2> QED BY <2>4, <2>5 DEF Linked
<1> HIDE DEF s
<1>7. Chain(proc, PictureFirst(s, D)) /\ Aged(proc, PictureFirst(s, D)) /\ End(PictureFirst(s, D)) = f
  <2> DEFINE b == <<f>>
  <2>1. PictureFirst(s, D) = Wire(s, down, b)
    BY DEF PictureFirst, Wire
  <2>2. b \in Seq(WireFrame) /\ ~Bare(b) /\ Start(b) = f /\ End(b) = f /\ Chain(proc, b) /\ Aged(proc, b)
    <3>1. Chain(proc, b) /\ Aged(proc, b)
      BY OneFrame DEF Drawn
    <3> QED BY <1>4, <3>1, OneFrame DEF Bare, Start, End
  <2> HIDE DEF b, D
  <2>3. Joins(proc, End(PictureFirst(s, down)), f)
    BY DEF Joins
  <2>4. Linked(proc, s, down, b)
    BY <1>6, <2>2, <2>3 DEF Linked
  <2>5. Chain(proc, Wire(s, down, b))
    BY <1>4, <2>2, <2>4, WireLinks
  <2>6. Aged(proc, Wire(s, down, b))
    BY <1>4, <1>6, <2>2, WireLinks
  <2>7. End(Wire(s, down, b)) = f
    <3>1. End(Wire(s, down, b)) = IF Bare(b) THEN End(PictureFirst(s, down)) ELSE End(b)
      BY <1>4, <2>2, WireEnd
    <3> QED BY <2>2, <3>1
  <2> QED BY <2>1, <2>5, <2>6, <2>7
<1> HIDE DEF D
<1>8. Linked(proc, s, D, rest)
  BY <1>7 DEF Linked, Bare, Start
<1>9. Chain(proc, Wire(s, D, rest))
  BY <1>4, <1>5, <1>8, WireLinks
<1>10. Aged(proc, Wire(s, D, rest))
  BY <1>4, <1>5, <1>7, WireLinks
<1>11. End(Wire(s, D, rest)) = IF rest = <<>> THEN f ELSE End(rest)
  <2>1. End(Wire(s, D, rest)) = IF Bare(rest) THEN End(PictureFirst(s, D)) ELSE End(rest)
    BY <1>4, <1>5, WireEnd
  <2> QED BY <1>7, <2>1 DEF Bare
<1>12. Follows(live, D)
  <2>1. live.backlog = rest /\ live.proc = p /\ live.upto = u /\ live.skip = k
    BY <1>2
  <2>2. p = proc => Leads(proc, IF rest = <<>> THEN f ELSE End(rest), outputs[p], u, k)
    OBVIOUS
  <2> HIDE DEF p, u
  <2> QED BY <1>9, <1>10, <1>11, <2>1, <2>2 DEF Follows, s
<1> QED BY <1>3, <1>12 DEF D

\* What the ring gives from an offset on follows the screen that shows it up to there.
LEMMA RingFollows ==
    ASSUME MirrorIInv, desk.sub.state = "pending", NEW f \in WireFrame, NEW from \in Nat,
           from <= OffsetAt(outputs[desk.sub.proc], desk.sub.upto),
           desk.sub.proc = proc => Leads(proc, f, outputs[desk.sub.proc], 0, from)
    PROVE  LET rest == RingFrom(desk.sub, from)
           IN  /\ rest \in Seq(WireFrame) /\ Chain(proc, rest) /\ Aged(proc, rest)
               /\ rest # <<>> => Joins(proc, f, rest[1])
               /\ desk.sub.proc = proc =>
                      Leads(proc, IF rest = <<>> THEN f ELSE End(rest), outputs[desk.sub.proc], desk.sub.upto, 0)
<1> DEFINE p == desk.sub.proc
           hi == desk.sub.upto
           items == outputs[p]
           z == 0
<1>1. /\ p \in Known(proc) /\ p \in 1 .. MaxProcs /\ hi \in Nat /\ hi <= Len(outputs[p]) /\ MirrorTyped
      /\ z \in Nat /\ z <= hi
  BY SubIs DEF MirrorIInv
<1>2. OffsetAt(items, z) + from = from
  <2>1. OffsetAt(items, 0) = 0
    BY OffsetSteps
  <2> QED BY <2>1
<1>3. RingFrom(desk.sub, from) = Pieces(p, Reach(items, z, hi, OffsetAt(items, z) + from) + 1, hi)
  BY <1>2 DEF RingFrom
<1>4. p = proc => Leads(proc, f, outputs[p], z, from)
  OBVIOUS
<1>5. from <= OffsetAt(outputs[p], hi)
  OBVIOUS
<1> DEFINE rest == RingFrom(desk.sub, from)
<1> HIDE DEF p, hi, z, rest
<1> DEFINE shownTo == OffsetAt(items, z) + from
           j == Reach(items, z, hi, shownTo)
           ps == Pieces(p, j + 1, hi)
<1>6. /\ ps \in Seq(WireFrame) /\ Chain(proc, ps) /\ Aged(proc, ps)
      /\ ps # <<>> => Joins(proc, f, ps[1])
      /\ p = proc => Leads(proc, IF ps = <<>> THEN f ELSE End(ps), items, hi, shownTo - OffsetAt(items, j))
  BY <1>1, <1>4, DrainFollows
<1>6a. shownTo <= OffsetAt(items, hi) => shownTo - OffsetAt(items, j) = 0
  BY <1>1, <1>4, DrainFollows
<1>7. /\ rest \in Seq(WireFrame) /\ Chain(proc, rest) /\ Aged(proc, rest)
      /\ rest # <<>> => Joins(proc, f, rest[1])
      /\ p = proc => Leads(proc, IF rest = <<>> THEN f ELSE End(rest), items, hi, 0)
  BY <1>2, <1>3, <1>5, <1>6, <1>6a DEF rest
<1> QED BY <1>7 DEF rest, p, hi

\* The screen a stream opens with, and what comes after it.
LEMMA OpeningIs ==
    ASSUME MirrorIInv, desk.sub.state = "pending"
    PROVE  LET o == Opening(desk.sub)
           IN  /\ o.first \in WireFrame /\ o.first.kind \in {"snap", "partial"}
               /\ o.first.kind = "snap" => o.first.proc \in Known(proc)
               /\ o.rest \in Seq(WireFrame) /\ Chain(proc, o.rest) /\ Aged(proc, o.rest)
               /\ o.rest # <<>> => Joins(proc, o.first, o.rest[1])
               /\ o.skip \in Nat
               /\ desk.sub.proc = proc =>
                      Leads(proc, IF o.rest = <<>> THEN o.first ELSE End(o.rest),
                            outputs[desk.sub.proc], desk.sub.upto, o.skip)
<1> DEFINE sub == desk.sub
           p == sub.proc
           u == sub.upto
           items == outputs[p]
           tapped == SubSeq(items, 1, u)
           start == RingStart(tapped)
           total == Total(tapped)
           o == Opening(sub)
<1>1. /\ p \in Known(proc) /\ p \in 1 .. MaxProcs /\ p \in 0 .. MaxProcs /\ u \in Nat /\ u <= Len(items)
      /\ items \in Seq(Item) /\ Len(items) \in Nat
  BY SubIs, KnownIs DEF MirrorIInv
<1>2. /\ tapped \in Seq(Item) /\ total = OffsetAt(items, u) /\ total \in Nat
      /\ start \in Nat /\ start <= total /\ SizeAt(tapped, u) \in Rows
  <2>1. u \in 0 .. Len(items)
    BY <1>1
  <2> HIDE DEF items, u
  <2>2. tapped \in Seq(Item) /\ Len(tapped) = u /\ tapped \o SubSeq(items, u + 1, Len(items)) = items
        /\ SubSeq(items, u + 1, Len(items)) \in Seq(Item)
    BY <1>1, <2>1, CutInTwo
  <2> HIDE DEF tapped
  <2>3. \A i \in 1 .. u : tapped[i] = items[i]
    BY <2>2, ConcatLies
  <2>4. OffsetAt(tapped, u) = OffsetAt(items, u)
    <3>1. {i \in 1 .. u : IsByte(tapped[i])} = {i \in 1 .. u : IsByte(items[i])}
      BY <2>3
    <3> QED BY <3>1 DEF OffsetAt
  <2>5. OffsetAt(items, u) \in Nat
    BY <1>1, OffsetSteps
  <2>6. total = OffsetAt(items, u)
    BY <2>2, <2>4 DEF Total
  <2>7. RingCap \in Nat
    BY MirrorAssumption
  <2>8. start \in Nat /\ start <= total
    <3>1. total \in Nat
      BY <2>5, <2>6
    <3> HIDE DEF total
    <3>2. start = IF total > RingCap THEN total - RingCap ELSE 0
      BY DEF RingStart, total
    <3> QED BY <2>7, <3>1, <3>2
  <2>9. SizeAt(tapped, u) \in Rows
    <3>1. u \in 0 .. Len(tapped)
      BY <1>1, <2>2
    <3> QED BY <2>2, <3>1, SizeType
  <2> QED BY <2>2, <2>5, <2>6, <2>8, <2>9
<1>3. /\ reply.at \in Nat /\ reply.proc \in 0 .. MaxProcs /\ reply.size \in SizeOr0
      /\ reply # NoReply =>
              /\ reply.proc \in Known(proc) /\ p <= reply.proc
              /\ \E n \in 0 .. Len(outputs[reply.proc]) :
                    reply.at = OffsetAt(outputs[reply.proc], n) /\ reply.size = SizeAt(outputs[reply.proc], n)
  BY DEF MirrorIInv, MirrorTyped, SubOK
<1>4. reply # NoReply /\ p = proc => reply.proc = proc
  <2> HAVE reply # NoReply /\ p = proc
  <2>1. reply.proc \in Known(proc) /\ proc <= reply.proc /\ proc \in 1 .. MaxProcs
    BY <1>1, <1>3
  <2>2. MaxProcs \in Nat
    BY MirrorAssumption
  <2> QED BY <2>1, <2>2 DEF Known
<1> DEFINE w == Screen("snap", reply.proc, reply.at, reply.size)
<1>5. w \in WireFrame /\ w.kind = "snap" /\ w.proc = reply.proc /\ w.at = reply.at /\ w.size = reply.size
  BY <1>3 DEF Screen, WireFrame, FrameKinds, Drawn
<1>6. o = IF reply # NoReply /\ reply.at >= start
          THEN IF reply.at <= total THEN [first |-> w, rest |-> RingFrom(sub, reply.at), skip |-> 0]
               ELSE [first |-> w, rest |-> <<>>, skip |-> reply.at - total]
          ELSE IF start = 0
          THEN [first |-> Screen("snap", p, 0, Rows0), rest |-> RingFrom(sub, 0), skip |-> 0]
          ELSE [first |-> Screen("partial", p, start, SizeAt(tapped, u)), rest |-> RingFrom(sub, start), skip |-> 0]
  BY DEF Opening
<1> HIDE DEF o, w, start, total, tapped
<1>7. CASE reply # NoReply /\ reply.at >= start /\ reply.at <= total
  <2>1. o = [first |-> w, rest |-> RingFrom(sub, reply.at), skip |-> 0]
    BY <1>6, <1>7
  <2>2. p = proc => Leads(proc, w, items, 0, reply.at)
    <3> HAVE p = proc
    <3>1. reply.proc = proc
      BY <1>4, <1>7
    <3>2. PICK n \in 0 .. Len(items) : reply.at = OffsetAt(items, n) /\ reply.size = SizeAt(items, n)
      BY <1>3, <1>7, <3>1
    <3>3. OffsetAt(items, 0) = 0
      BY OffsetSteps
    <3> HIDE DEF items
    <3>4. reply.at = OffsetAt(items, n) - OffsetAt(items, 0)
      BY <1>3, <3>2, <3>3
    <3> QED BY <1>5, <3>1, <3>2, <3>4 DEF Leads, Past, Drawn
  <2> DEFINE rest == RingFrom(sub, reply.at)
  <2>3. /\ rest \in Seq(WireFrame) /\ Chain(proc, rest) /\ Aged(proc, rest)
        /\ rest # <<>> => Joins(proc, w, rest[1])
        /\ p = proc => Leads(proc, IF rest = <<>> THEN w ELSE End(rest), items, u, 0)
    BY <1>2, <1>3, <1>5, <1>7, <2>2, RingFollows
  <2> HIDE DEF rest
  <2>4. o.first = w /\ o.rest = rest /\ o.skip = 0
    BY <2>1 DEF rest
  <2> QED BY <1>3, <1>5, <1>7, <2>3, <2>4 DEF o
<1>8. CASE reply # NoReply /\ reply.at >= start /\ ~(reply.at <= total)
  <2> DEFINE k == reply.at - total
  <2>1. o = [first |-> w, rest |-> <<>>, skip |-> k]
    BY <1>6, <1>8
  <2>2. k \in Nat
    BY <1>2, <1>3, <1>8
  <2>3. p = proc => Leads(proc, w, items, u, k)
    <3> HAVE p = proc
    <3>1. reply.proc = proc
      BY <1>4, <1>8
    <3>2. PICK n \in 0 .. Len(items) : reply.at = OffsetAt(items, n) /\ reply.size = SizeAt(items, n)
      BY <1>3, <1>8, <3>1
    <3>3. n \in u .. Len(items)
      <4>1. n \in Nat
        BY <1>1
      <4>2. n <= u => OffsetAt(items, n) <= OffsetAt(items, u)
        BY <1>1, <4>1, OffsetSteps
      <4>3. ~(n <= u)
        BY <1>2, <1>3, <1>8, <3>2, <4>2
      <4> QED BY <1>1, <4>1, <4>3
    <3>4. k = OffsetAt(items, n) - OffsetAt(items, u)
      BY <1>2, <3>2
    <3> HIDE DEF items, k
    <3> QED BY <1>5, <3>1, <3>2, <3>3, <3>4 DEF Leads, Past, Drawn
  <2> HIDE DEF k
  <2>4. o.first = w /\ o.rest = <<>> /\ o.skip = k
    BY <2>1
  <2> QED BY <1>3, <1>5, <1>8, <2>2, <2>3, <2>4, NoFrames DEF o
<1>9. CASE ~(reply # NoReply /\ reply.at >= start) /\ start = 0
  <2> DEFINE f == Screen("snap", p, 0, Rows0)
             rest == RingFrom(sub, 0)
  <2>1. o = [first |-> f, rest |-> rest, skip |-> 0]
    BY <1>6, <1>9
  <2>2. f \in WireFrame /\ f.kind = "snap" /\ f.proc = p /\ f.at = 0 /\ f.size = Rows0
    BY <1>1, MirrorAssumption DEF Screen, WireFrame, FrameKinds, Drawn, SizeOr0
  <2> HIDE DEF f
  <2>3. p = proc => Leads(proc, f, items, 0, 0)
    <3> HAVE p = proc
    <3>1. OffsetAt(items, 0) = 0 /\ SizeAt(items, 0) = Rows0
      BY OffsetSteps, SizeSteps
    <3>2. 0 \in 0 .. Len(items)
      BY <1>1
    <3> HIDE DEF items
    <3> QED BY <2>2, <3>1, <3>2 DEF Leads, Past, Drawn
  <2>4. 0 <= OffsetAt(items, u) /\ 0 \in Nat
    BY <1>2
  <2>5. /\ rest \in Seq(WireFrame) /\ Chain(proc, rest) /\ Aged(proc, rest)
        /\ rest # <<>> => Joins(proc, f, rest[1])
        /\ p = proc => Leads(proc, IF rest = <<>> THEN f ELSE End(rest), items, u, 0)
    BY <2>2, <2>3, <2>4, RingFollows
  <2> HIDE DEF rest
  <2>6. o.first = f /\ o.rest = rest /\ o.skip = 0
    BY <2>1
  <2> QED BY <1>1, <2>2, <2>5, <2>6 DEF o
<1>10. CASE ~(reply # NoReply /\ reply.at >= start) /\ start # 0
  <2> DEFINE f == Screen("partial", p, start, SizeAt(tapped, u))
             rest == RingFrom(sub, start)
  <2>1. o = [first |-> f, rest |-> rest, skip |-> 0]
    BY <1>6, <1>10
  <2>2. f \in WireFrame /\ f.kind = "partial"
    BY <1>1, <1>2 DEF Screen, WireFrame, FrameKinds, SizeOr0
  <2> HIDE DEF f
  <2>3. Leads(proc, f, items, 0, start)
    BY <2>2 DEF Leads
  <2>4. start <= OffsetAt(items, u) /\ start \in Nat
    BY <1>2
  <2>5. /\ rest \in Seq(WireFrame) /\ Chain(proc, rest) /\ Aged(proc, rest)
        /\ rest # <<>> => Joins(proc, f, rest[1])
        /\ p = proc => Leads(proc, IF rest = <<>> THEN f ELSE End(rest), items, u, 0)
    BY <2>2, <2>3, <2>4, RingFollows
  <2> HIDE DEF rest
  <2>6. o.first = f /\ o.rest = rest /\ o.skip = 0
    BY <2>1
  <2> QED BY <2>2, <2>5, <2>6 DEF o
<1> QED BY <1>7, <1>8, <1>9, <1>10

LEMMA PumpPendingKeeps == ASSUME MirrorIInv, PumpPending PROVE MirrorIInv'
<1> DEFINE o == Opening(desk.sub)
           live == [desk.sub EXCEPT !.state = "live", !.skip = o.skip, !.backlog = o.rest]
           f == o.first
<1>1. /\ desk.sub.state = "pending" /\ PumpSub(live, <<f>>)
      /\ UNCHANGED <<outputVars, upward, viewerVars, links>>
  BY DEF PumpPending
<1>2. /\ o.first \in WireFrame /\ o.first.kind \in {"snap", "partial"}
      /\ o.first.kind = "snap" => o.first.proc \in Known(proc)
      /\ o.rest \in Seq(WireFrame) /\ Chain(proc, o.rest) /\ Aged(proc, o.rest)
      /\ o.rest # <<>> => Joins(proc, o.first, o.rest[1])
      /\ o.skip \in Nat
      /\ desk.sub.proc = proc =>
              Leads(proc, IF o.rest = <<>> THEN o.first ELSE End(o.rest), outputs[desk.sub.proc], desk.sub.upto, o.skip)
  BY <1>1, OpeningIs
<1> HIDE DEF o
<1>3. IsLive(live) /\ Follows(live, down \o <<f>>)
  <2> DEFINE rest == o.rest
             k == o.skip
  <2>1. live = [desk.sub EXCEPT !.state = "live", !.skip = k, !.backlog = rest]
    OBVIOUS
  <2>2. /\ f \in WireFrame /\ f.kind \in {"snap", "partial"}
        /\ f.kind = "snap" => f.proc \in Known(proc)
        /\ rest \in Seq(WireFrame) /\ Chain(proc, rest) /\ Aged(proc, rest)
        /\ rest # <<>> => Joins(proc, f, rest[1])
        /\ k \in Nat
        /\ desk.sub.proc = proc =>
              Leads(proc, IF rest = <<>> THEN f ELSE End(rest), outputs[desk.sub.proc], desk.sub.upto, k)
    BY <1>2
  <2> HIDE DEF live, f, rest, k
  <2> QED BY <1>1, <2>1, <2>2, OpensStream
<1>4. <<f>> \in Seq(WireFrame) /\ desk.on
  BY <1>1, <1>2, OneFrame, SubIs
<1> HIDE DEF live, f
<1> QED BY <1>1, <1>3, <1>4, PumpSubKeeps

LEMMA PumpLiveKeeps == ASSUME MirrorIInv, PumpLive PROVE MirrorIInv'
<1> DEFINE sub == desk.sub
<1>1. sub.state = "live" /\ PumpSub(sub, <<>>) /\ UNCHANGED <<outputVars, upward, viewerVars, links>>
  BY DEF PumpLive
<1>2. /\ desk.on /\ sub \in SubRec /\ sub.proc \in Known(proc) /\ sub.upto <= Len(outputs[sub.proc])
  BY <1>1, SubIs
<1>3. IsLive(sub)
  BY <1>1, <1>2 DEF IsLive
<1>4. down \o <<>> = down /\ <<>> \in Seq(WireFrame)
  BY ConcatEmptySeq, NoFrames DEF MirrorIInv, MirrorTyped
<1>5. Follows(sub, down)
  BY <1>1 DEF MirrorIInv, StreamOK, Follows
<1> HIDE DEF sub
<1> QED BY <1>1, <1>2, <1>3, <1>4, <1>5, PumpSubKeeps

\* What the pane shows and what is on its way.
LEMMA FrontIs ==
    ASSUME MirrorIInv
    PROVE  /\ Shows(pane) \in WireFrame /\ down \in Seq(WireFrame) /\ desk.sub.backlog \in Seq(WireFrame)
           /\ Chain(proc, PictureFirst(Shows(pane), down)) /\ Aged(proc, PictureFirst(Shows(pane), down))
<1> DEFINE s == Shows(pane)
           b == desk.sub.backlog
<1>1. s \in WireFrame /\ down \in Seq(WireFrame) /\ b \in Seq(WireFrame)
  BY ShowsType DEF MirrorIInv, MirrorTyped, SubRec
<1>2. Chain(proc, Wire(s, down, b)) /\ Aged(proc, Wire(s, down, b))
  BY DEF MirrorIInv, StreamOK
<1> HIDE DEF s, b
<1>3. Linked(proc, s, down, b)
  BY <1>1, <1>2, WireLinks
<1>4. Aged(proc, PictureFirst(s, down))
  BY <1>1, <1>2, WireLinks
<1> QED BY <1>1, <1>3, <1>4 DEF Linked, s, b

\* No stream is live: what the pane shows and what is on its way is all there is.
LEMMA QuietStream ==
    ASSUME NEW q, NEW w, NEW d \in Seq(WireFrame), NEW t,
           t.backlog = <<>>, Chain(q, PictureFirst(Shows(w), d)), Aged(q, PictureFirst(Shows(w), d))
    PROVE  Chain(q, Wire(Shows(w), d, t.backlog)) /\ Aged(q, Wire(Shows(w), d, t.backlog))
<1>1. d \o t.backlog = d
  BY ConcatEmptySeq
<1> QED BY <1>1 DEF PictureFirst, Wire

\* The host's end of the link with another part.
LEMMA DeskSet ==
    ASSUME NEW e \in [on : BOOLEAN, sub : SubRec, unacked : Nat], NEW s, NEW c
    PROVE  /\ [e EXCEPT !.sub = s] = [on |-> e.on, sub |-> s, unacked |-> e.unacked]
           /\ [e EXCEPT !.unacked = c] = [on |-> e.on, sub |-> e.sub, unacked |-> c]
OBVIOUS

LEMMA HostReadsKeeps == ASSUME MirrorIInv, HostReads PROVE MirrorIInv'
<1> DEFINE m == Head(upward)
<1>1. desk.on /\ upward # <<>> /\ upward' = Tail(upward) /\ UNCHANGED <<outputVars, viewerVars, links>>
  BY DEF HostReads
<1>2. /\ upward \in Seq(Told) /\ down \in Seq(WireFrame) /\ unsaid \in Nat /\ desk.unacked \in Nat
      /\ desk \in [on : BOOLEAN, sub : SubRec, unacked : Nat] /\ desk.on /\ desk.sub \in SubRec
  BY <1>1 DEF MirrorIInv, MirrorTyped
<1>3. /\ SaidIn(upward) = Says(m) + SaidIn(upward') /\ SaidIn(upward') \in Nat /\ Says(m) \in Nat
      /\ m \in Told /\ upward' \in Seq(Told)
  BY <1>1, <1>2, SaidTail
<1>4. desk.unacked <= Len(down) + unsaid + SaidIn(upward) /\ Len(down) \in Nat
  BY <1>2, LenProperties DEF MirrorIInv, CreditIsCovered
<1>5. Elsewhere /\ unsaid' = unsaid
  BY <1>1 DEF Elsewhere, viewerVars
<1>6. Chain(proc, PictureFirst(Shows(pane), down)) /\ Aged(proc, PictureFirst(Shows(pane), down))
  BY FrontIs
<1>7. CASE m.kind = "sub" /\ desk' = [desk EXCEPT !.sub = Subscribed] /\ down' = down \o GoneFrame /\ reply' = NoReply
  <2>1. desk' = [desk EXCEPT !.sub = Subscribed, !.unacked = desk.unacked] /\ desk'.unacked = desk.unacked
    BY <1>2, <1>7
  <2>2. MirrorTyped' /\ SubOK' /\ StreamOK' /\ MirrorExact'
    BY <1>1, <1>2, <1>3, <1>5, <1>6, <1>7, <2>1, StartsOverKeeps
  <2>3. Len(down') = Len(down) + Len(GoneFrame) /\ Len(GoneFrame) \in Nat
    <3>1. GoneFrame \in Seq(WireFrame)
      BY SubscribedIs DEF MirrorIInv
    <3> QED BY <1>2, <1>7, <3>1, ConcatLies
  <2>4. Says(m) = 0
    BY <1>7 DEF Says
  <2>5. CreditIsCovered'
    BY <1>2, <1>3, <1>4, <1>5, <2>1, <2>3, <2>4 DEF CreditIsCovered
  <2> QED BY <2>2, <2>5 DEF MirrorIInv
<1>8. /\ outputs' = outputs /\ proc' = proc /\ pane' = pane /\ links' = links /\ opened' = opened
      /\ tx' = tx /\ resub' = resub /\ channel' = channel
  BY <1>5 DEF Elsewhere, outputVars
<1>9. CASE m.kind = "unsub" /\ desk' = [desk EXCEPT !.sub = NoSub] /\ reply' = NoReply /\ UNCHANGED down
  <2>1. desk' = [on |-> desk.on, sub |-> NoSub, unacked |-> desk.unacked] /\ desk'.unacked = desk.unacked
    <3>1. desk' = [on |-> desk.on, sub |-> NoSub, unacked |-> desk.unacked]
      BY <1>2, <1>9, DeskSet
    <3> QED BY <3>1
  <2>2. desk'.sub = NoSub /\ desk'.on /\ NoSub \in SubRec /\ NoSub.state = "none" /\ NoSub.backlog = <<>>
    <3>1. desk'.sub = NoSub /\ desk'.on = desk.on
      BY <2>1
    <3> QED BY <1>2, <3>1, PlainFrames
  <2>3. reply' \in [proc : 0 .. MaxProcs, at : Nat, size : SizeOr0]
    BY <1>9, MirrorAssumption DEF NoReply, SizeOr0
  <2>4. MirrorTyped'
    <3>1. desk' \in [on : BOOLEAN, sub : SubRec, unacked : Nat]
      BY <1>2, <2>1, <2>2
    <3> QED BY <1>3, <1>5, <1>8, <1>9, <2>2, <2>3, <3>1 DEF MirrorIInv, MirrorTyped
  <2>5. SubOK'
    BY <1>9, <2>2 DEF SubOK
  <2>6. StreamOK'
    <3>1. Chain(proc, Wire(Shows(pane), down, desk'.sub.backlog)) /\ Aged(proc, Wire(Shows(pane), down, desk'.sub.backlog))
      BY <1>2, <1>6, <2>2, QuietStream
    <3> QED BY <1>8, <1>9, <2>2, <3>1 DEF StreamOK
  <2>7. MirrorExact'
    BY <1>8 DEF MirrorIInv, MirrorExact
  <2>8. Says(m) = 0
    BY <1>9 DEF Says
  <2>9. CreditIsCovered'
    BY <1>2, <1>3, <1>4, <1>5, <1>9, <2>1, <2>8 DEF CreditIsCovered
  <2> QED BY <2>4, <2>5, <2>6, <2>7, <2>9 DEF MirrorIInv
<1>10. CASE m.kind = "ack" /\ desk' = [desk EXCEPT !.unacked = Acked(m.at)] /\ UNCHANGED <<down, reply>>
  <2> DEFINE c == Acked(m.at)
  <2>1. Says(m) = m.at
    BY <1>10 DEF Says
  <2>2. c \in Nat /\ c <= Len(down) + unsaid + SaidIn(upward')
    BY <1>2, <1>3, <1>4, <2>1 DEF Acked
  <2> HIDE DEF c
  <2>3. desk' = [desk EXCEPT !.unacked = c]
    BY <1>10 DEF c
  <2>4. desk' = [on |-> desk.on, sub |-> desk.sub, unacked |-> c]
    BY <1>2, <2>3, DeskSet
  <2>5. desk'.on /\ desk'.sub = desk.sub /\ desk'.unacked = c
    <3>1. desk'.on = desk.on /\ desk'.sub = desk.sub /\ desk'.unacked = c
      BY <2>4
    <3> QED BY <1>2, <3>1
  <2>6. MirrorTyped'
    <3>1. desk' \in [on : BOOLEAN, sub : SubRec, unacked : Nat]
      BY <1>2, <2>2, <2>4
    <3> QED BY <1>3, <1>5, <1>8, <1>10, <2>5, <3>1 DEF MirrorIInv, MirrorTyped
  <2>7. SubOK'
    BY <1>8, <1>10, <2>5 DEF MirrorIInv, SubOK
  <2>8. StreamOK'
    BY <1>8, <1>10, <2>5 DEF MirrorIInv, StreamOK
  <2>9. MirrorExact'
    BY <1>8 DEF MirrorIInv, MirrorExact
  <2>10. CreditIsCovered'
    BY <1>5, <1>10, <2>2, <2>5 DEF CreditIsCovered
  <2> QED BY <2>6, <2>7, <2>8, <2>9, <2>10 DEF MirrorIInv
<1> QED BY <1>7, <1>9, <1>10 DEF HostReads

\* The window serialized a screen of the process there is.
LEMMA SerializesKeeps == ASSUME MirrorIInv, Serializes PROVE MirrorIInv'
<1>1. /\ desk.sub.state = "pending" /\ proc # 0
      /\ UNCHANGED <<outputVars, desk, down, upward, viewerVars, links>>
  BY DEF Serializes
<1>2. PICK n \in 0 .. Len(outputs[proc]) :
          reply' = [proc |-> proc, at |-> OffsetAt(outputs[proc], n), size |-> SizeAt(outputs[proc], n)]
  BY DEF Serializes
<1>3. /\ outputs' = outputs /\ proc' = proc /\ pane' = pane /\ links' = links /\ opened' = opened
      /\ tx' = tx /\ resub' = resub /\ channel' = channel /\ unsaid' = unsaid
      /\ desk' = desk /\ down' = down /\ upward' = upward
  BY <1>1 DEF outputVars, viewerVars
<1>4. proc \in 1 .. MaxProcs /\ proc \in Known(proc) /\ proc \in 0 .. MaxProcs /\ outputs[proc] \in Seq(Item)
  BY <1>1 DEF MirrorIInv, MirrorTyped, Known
<1>5. n \in Nat /\ OffsetAt(outputs[proc], n) \in Nat /\ SizeAt(outputs[proc], n) \in Rows
  <2>1. n \in Nat
    BY <1>4, LenProperties
  <2> QED BY <1>4, <2>1, OffsetSteps, SizeType
<1>6. reply' \in [proc : 0 .. MaxProcs, at : Nat, size : SizeOr0]
      /\ reply'.proc = proc /\ reply'.at = OffsetAt(outputs[proc], n) /\ reply'.size = SizeAt(outputs[proc], n)
  BY <1>2, <1>4, <1>5 DEF SizeOr0
<1>7. MirrorTyped'
  BY <1>3, <1>6 DEF MirrorIInv, MirrorTyped
<1>8. SubOK'
  <2>1. desk.sub.proc \in Known(proc) /\ desk.sub.upto <= Len(outputs[desk.sub.proc]) /\ desk.sub.backlog = <<>>
    BY <1>1 DEF MirrorIInv, SubOK
  <2>2. desk.sub.proc <= proc
    BY <1>1, <2>1 DEF Known
  <2> QED BY <1>1, <1>3, <1>4, <1>6, <2>1, <2>2 DEF SubOK
<1>9. StreamOK'
  BY <1>3 DEF MirrorIInv, StreamOK
<1>10. MirrorExact' /\ CreditIsCovered'
  BY <1>3 DEF MirrorIInv, MirrorExact, CreditIsCovered
<1> QED BY <1>7, <1>8, <1>9, <1>10 DEF MirrorIInv

\* One item more of the process there is.
LEMMA PrintedKeeps ==
    ASSUME MirrorIInv, proc # 0, NEW x \in Item,
           IsByte(x) => x.size = SizeAt(outputs[proc], Len(outputs[proc])),
           outputs' = [outputs EXCEPT ![proc] = Append(outputs[proc], x)],
           UNCHANGED <<proc, desk, reply, down, upward, viewerVars, links>>
    PROVE  MirrorIInv'
<1> DEFINE items == outputs[proc]
           more == Append(items, x)
           L == Len(items)
<1>1. /\ proc' = proc /\ pane' = pane /\ links' = links /\ opened' = opened /\ reply' = reply
      /\ tx' = tx /\ resub' = resub /\ channel' = channel /\ unsaid' = unsaid
      /\ desk' = desk /\ down' = down /\ upward' = upward
  BY DEF viewerVars
<1>2. /\ outputs \in [1 .. MaxProcs -> Seq(Item)] /\ proc \in 1 .. MaxProcs /\ items \in Seq(Item) /\ L \in Nat
      /\ \A p \in 1 .. MaxProcs : ItemsOK(outputs[p])
  BY LenProperties DEF MirrorIInv, MirrorTyped
<1>3. /\ more \in Seq(Item) /\ Len(more) = L + 1 /\ more[L + 1] = x
      /\ \A i \in 1 .. L : more[i] = items[i]
  BY <1>2, AppendProperties
<1>4. \A n \in 0 .. L : OffsetAt(more, n) = OffsetAt(items, n) /\ SizeAt(more, n) = SizeAt(items, n)
  BY <1>2, PrefixStays
<1>5. /\ outputs' \in [1 .. MaxProcs -> Seq(Item)] /\ outputs'[proc] = more
      /\ \A p \in 1 .. MaxProcs : p # proc => outputs'[p] = outputs[p]
  BY <1>2, <1>3
<1>6. ItemsOK(items)
  BY <1>2
<1> HIDE DEF more, items, L
<1>7. ItemsOK(more)
  <2>1. ASSUME NEW i \in 1 .. L + 1, IsByte(more[i]) PROVE more[i].size = SizeAt(more, i - 1)
    <3>1. i - 1 \in 0 .. L
      BY <1>2
    <3>2. CASE i <= L
      <4>0. i \in 1 .. L
        BY <1>2, <3>2
      <4>1. i \in 1 .. L /\ more[i] = items[i]
        BY <1>3, <4>0
      <4> QED BY <1>4, <1>6, <2>1, <3>1, <4>1 DEF ItemsOK, L
    <3>3. CASE i = L + 1
      <4>1. more[i] = x /\ i - 1 = L
        BY <1>2, <1>3, <3>3
      <4> QED BY <1>4, <2>1, <3>1, <4>1 DEF items, L
    <3> QED BY <1>2, <3>2, <3>3
  <2> QED BY <1>3, <2>1 DEF ItemsOK
<1>8. \A p \in 1 .. MaxProcs : ItemsOK(outputs'[p])
  BY <1>2, <1>5, <1>7
<1>9. MirrorTyped'
  BY <1>1, <1>5, <1>8 DEF MirrorIInv, MirrorTyped
<1>10. \A p \in 1 .. MaxProcs :
          /\ Len(outputs[p]) \in Nat /\ Len(outputs'[p]) \in Nat /\ Len(outputs[p]) <= Len(outputs'[p])
          /\ \A n \in 0 .. Len(outputs[p]) : /\ OffsetAt(outputs'[p], n) = OffsetAt(outputs[p], n)
                                             /\ SizeAt(outputs'[p], n) = SizeAt(outputs[p], n)
  <2> TAKE p \in 1 .. MaxProcs
  <2>1. CASE p = proc
    <3>1. outputs[p] = items /\ outputs'[p] = more
      BY <1>5, <2>1 DEF items
    <3>2. L \in Nat /\ L + 1 \in Nat /\ L <= L + 1
      BY <1>2
    <3>3. /\ Len(items) \in Nat /\ Len(more) \in Nat /\ Len(items) <= Len(more)
          /\ \A n \in 0 .. Len(items) : OffsetAt(more, n) = OffsetAt(items, n) /\ SizeAt(more, n) = SizeAt(items, n)
      BY <1>3, <1>4, <3>2 DEF L
    <3> QED BY <3>1, <3>3
  <2>2. CASE p # proc
    <3>1. outputs'[p] = outputs[p]
      BY <1>5, <2>2
    <3>2. Len(outputs[p]) \in Nat
      BY <1>2, LenProperties
    <3> QED BY <3>1, <3>2
  <2> QED BY <2>1, <2>2
<1>11. SubOK'
  <2> DEFINE s == desk.sub
             r == reply.proc
  <2>1. s.state # "none" => s.proc \in Known(proc) /\ s.upto <= Len(outputs'[s.proc])
    <3> HAVE s.state # "none"
    <3>1. s.proc \in 1 .. MaxProcs /\ s.proc \in Known(proc) /\ s.upto \in Nat /\ s.upto <= Len(outputs[s.proc])
      BY SubIs
    <3>2. Len(outputs[s.proc]) \in Nat /\ Len(outputs'[s.proc]) \in Nat /\ Len(outputs[s.proc]) <= Len(outputs'[s.proc])
      BY <1>10, <3>1
    <3> QED BY <3>1, <3>2
  <2>2. reply # NoReply => \E n \in 0 .. Len(outputs'[r]) :
                    reply.at = OffsetAt(outputs'[r], n) /\ reply.size = SizeAt(outputs'[r], n)
    <3> HAVE reply # NoReply
    <3>1. r \in Known(proc)
      BY DEF MirrorIInv, SubOK
    <3>2. r \in 1 .. MaxProcs
      BY <3>1, KnownIs DEF MirrorIInv
    <3>3. PICK n \in 0 .. Len(outputs[r]) :
                    reply.at = OffsetAt(outputs[r], n) /\ reply.size = SizeAt(outputs[r], n)
      BY DEF MirrorIInv, SubOK
    <3>4. /\ Len(outputs[r]) \in Nat /\ Len(outputs'[r]) \in Nat /\ Len(outputs[r]) <= Len(outputs'[r])
          /\ OffsetAt(outputs'[r], n) = OffsetAt(outputs[r], n) /\ SizeAt(outputs'[r], n) = SizeAt(outputs[r], n)
      BY <1>10, <3>2
    <3>5. n \in 0 .. Len(outputs'[r])
      BY <3>4
    <3> QED BY <3>3, <3>4, <3>5
  <2>3. /\ s.state # "live" => s.backlog = <<>>
        /\ reply # NoReply => reply.proc \in Known(proc) /\ (s.state = "pending" => s.proc <= reply.proc)
    BY DEF MirrorIInv, SubOK
  <2> QED BY <1>1, <2>1, <2>2, <2>3 DEF SubOK
<1>12. StreamOK'
  <2> DEFINE v == Wire(Shows(pane), down, desk.sub.backlog)
             u == desk.sub.upto
             k == desk.sub.skip
             e == End(v)
  <2>1. Chain(proc, v) /\ Aged(proc, v)
    BY DEF MirrorIInv, StreamOK
  <2>2. desk.sub.state = "live" /\ desk.sub.proc = proc => Leads(proc, e, outputs'[proc], u, k)
    <3> HAVE desk.sub.state = "live" /\ desk.sub.proc = proc
    <3>1. Leads(proc, e, outputs[proc], u, k) /\ u \in Nat /\ u <= Len(outputs[proc])
      BY SubIs DEF MirrorIInv, StreamOK
    <3>2. SUFFICES ASSUME e.kind # "partial"
                   PROVE  /\ e.kind \in Drawn /\ e.proc = proc
                          /\ \E n \in u .. Len(outputs'[proc]) :
                                /\ Past(e) = OffsetAt(outputs'[proc], n) /\ e.size = SizeAt(outputs'[proc], n)
                                /\ k = OffsetAt(outputs'[proc], n) - OffsetAt(outputs'[proc], u)
      BY DEF Leads
    <3> HIDE DEF v, u, k, e
    <3>3. PICK n \in u .. Len(outputs[proc]) :
                    /\ Past(e) = OffsetAt(outputs[proc], n) /\ e.size = SizeAt(outputs[proc], n)
                    /\ k = OffsetAt(outputs[proc], n) - OffsetAt(outputs[proc], u)
      BY <3>1, <3>2 DEF Leads
    <3>4. Len(outputs[proc]) \in Nat /\ Len(outputs'[proc]) \in Nat /\ Len(outputs[proc]) <= Len(outputs'[proc])
      BY <1>2, <1>10
    <3>5. n \in 0 .. Len(outputs[proc]) /\ u \in 0 .. Len(outputs[proc]) /\ n \in u .. Len(outputs'[proc])
      BY <3>1, <3>4
    <3>6. /\ OffsetAt(outputs'[proc], n) = OffsetAt(outputs[proc], n) /\ SizeAt(outputs'[proc], n) = SizeAt(outputs[proc], n)
          /\ OffsetAt(outputs'[proc], u) = OffsetAt(outputs[proc], u)
      BY <1>2, <1>10, <3>5
    <3>7. e.kind \in Drawn /\ e.proc = proc
      BY <3>1, <3>2 DEF Leads
    <3> QED BY <3>3, <3>5, <3>6, <3>7
  <2> HIDE DEF v
  <2> QED BY <1>1, <2>1, <2>2 DEF StreamOK, v
<1>13. MirrorExact' /\ CreditIsCovered'
  BY <1>1 DEF MirrorIInv, MirrorExact, CreditIsCovered
<1> QED BY <1>9, <1>11, <1>12, <1>13 DEF MirrorIInv

LEMMA ProcessPrintsKeeps == ASSUME MirrorIInv, ProcessPrints PROVE MirrorIInv'
<1> DEFINE now == SizeAt(outputs[proc], Len(outputs[proc]))
           x == Byte(now)
<1>1. /\ proc # 0 /\ outputs' = [outputs EXCEPT ![proc] = Append(outputs[proc], x)]
      /\ UNCHANGED <<proc, desk, reply, down, upward, viewerVars, links>>
  BY DEF ProcessPrints
<1>2. outputs[proc] \in Seq(Item)
  BY <1>1 DEF MirrorIInv, MirrorTyped
<1>3. now \in Rows
  <2>1. Len(outputs[proc]) \in 0 .. Len(outputs[proc])
    BY <1>2, LenProperties
  <2> QED BY <1>2, <2>1, SizeType
<1>4. x \in Item /\ x.size = now
  <2> HIDE DEF now
  <2> QED BY <1>3 DEF Byte, Item
<1> HIDE DEF x
<1> QED BY <1>1, <1>4, PrintedKeeps

LEMMA ProcessResizesKeeps == ASSUME MirrorIInv, NEW size \in Rows, ProcessResizes(size) PROVE MirrorIInv'
<1> DEFINE x == Resized(size)
<1>1. /\ proc # 0 /\ outputs' = [outputs EXCEPT ![proc] = Append(outputs[proc], x)]
      /\ UNCHANGED <<proc, desk, reply, down, upward, viewerVars, links>>
  BY DEF ProcessResizes
<1>2. x \in Item /\ ~IsByte(x)
  BY DEF Resized, Item, IsByte
<1> HIDE DEF x
<1> QED BY <1>1, <1>2, PrintedKeeps

\* Another process, or none: nothing of it was shown yet.
LEMMA NewProcessKeeps ==
    ASSUME MirrorIInv, proc' \in 0 .. MaxProcs, Known(proc) \subseteq Known(proc'), proc' \notin Known(proc),
           UNCHANGED <<outputs, desk, reply, down, upward, viewerVars, links>>
    PROVE  MirrorIInv'
<1>1. /\ pane' = pane /\ links' = links /\ opened' = opened /\ reply' = reply /\ outputs' = outputs
      /\ tx' = tx /\ resub' = resub /\ channel' = channel /\ unsaid' = unsaid
      /\ desk' = desk /\ down' = down /\ upward' = upward
  BY DEF viewerVars
<1>2. MirrorTyped'
  BY <1>1 DEF MirrorIInv, MirrorTyped
<1>3. SubOK'
  BY <1>1 DEF MirrorIInv, SubOK
<1> DEFINE v == Wire(Shows(pane), down, desk.sub.backlog)
<1>4. Aged(proc, v) /\ v \in Seq(WireFrame)
  BY FrontIs, WireIs DEF MirrorIInv, StreamOK
<1>5. StreamOK'
  <2> HIDE DEF v
  <2>1. Aged(proc', v)
    BY <1>4 DEF Aged
  <2>2. Chain(proc', v)
    <3> SUFFICES ASSUME NEW k \in 1 .. Len(v) - 1 PROVE Joins(proc', v[k], v[k + 1])
      BY DEF Chain
    <3>1. k + 1 \in 1 .. Len(v)
      BY <1>4, LenProperties
    <3>2. v[k + 1].kind \in Drawn => v[k + 1].proc \in Known(proc)
      BY <1>4, <3>1 DEF Aged
    <3> QED BY <3>2 DEF Joins, Drawn
  <2>3. desk.sub.state = "live" => desk.sub.proc # proc'
    BY DEF MirrorIInv, SubOK
  <2> QED BY <1>1, <2>1, <2>2, <2>3 DEF StreamOK, v
<1>6. MirrorExact'
  <2>1. ASSUME pane.whole PROVE pane.proc \in Known(proc)
    <3> DEFINE s == Shows(pane)
               F == <<s>>
               w == down \o desk.sub.backlog
    <3>1. s.kind = "snap" /\ s.proc = pane.proc /\ s \in WireFrame
      BY <2>1, FrontIs DEF Shows
    <3>2. v = F \o w /\ F \in Seq(WireFrame) /\ w \in Seq(WireFrame)
      BY <3>1, FrontIs, OneFrame, ConcatProperties DEF Wire
    <3> HIDE DEF s, w
    <3>3. Aged(proc, F)
      <4> HIDE DEF F, v
      <4> QED BY <1>4, <3>2, ChainParts
    <3> QED BY <3>1, <3>3, OneFrame DEF Drawn
  <2> QED BY <1>1, <2>1 DEF MirrorExact
<1>7. CreditIsCovered'
  BY <1>1 DEF MirrorIInv, CreditIsCovered
<1> QED BY <1>2, <1>3, <1>5, <1>6, <1>7 DEF MirrorIInv

LEMMA ReplacedKeeps == ASSUME MirrorIInv, Replaced PROVE MirrorIInv'
<1>1. /\ proc # 0 /\ proc < MaxProcs /\ proc' = proc + 1
      /\ UNCHANGED <<outputs, desk, reply, down, upward, viewerVars, links>>
  BY DEF Replaced
<1>2. proc \in 0 .. MaxProcs /\ MaxProcs \in Nat
  BY MirrorAssumption DEF MirrorIInv, MirrorTyped
<1>3. proc' \in 0 .. MaxProcs /\ Known(proc) \subseteq Known(proc') /\ proc' \notin Known(proc)
  BY <1>1, <1>2 DEF Known
<1> QED BY <1>1, <1>3, NewProcessKeeps

LEMMA ClosedKeeps == ASSUME MirrorIInv, Closed PROVE MirrorIInv'
<1>1. /\ proc # 0 /\ proc' = 0
      /\ UNCHANGED <<outputs, desk, reply, down, upward, viewerVars, links>>
  BY DEF Closed
<1>2. proc \in 0 .. MaxProcs /\ MaxProcs \in Nat
  BY MirrorAssumption DEF MirrorIInv, MirrorTyped
<1>3. proc' \in 0 .. MaxProcs /\ Known(proc) \subseteq Known(proc') /\ proc' \notin Known(proc)
  BY <1>1, <1>2 DEF Known
<1> QED BY <1>1, <1>3, NewProcessKeeps

\* A link that is new, or gone: nothing is on its way.
LEMMA FreshLink ==
    ASSUME MirrorIInv, NEW on \in BOOLEAN, desk' = [on |-> on, sub |-> NoSub, unacked |-> 0], reply' = NoReply,
           NEW d \in Seq(WireFrame), down' = d, ~on => d = <<>>, \A k \in 1 .. Len(d) : d[k].kind = "welcome",
           upward' = <<>>, unsaid' = 0, links' \in 0 .. MaxLinks, tx' \in BOOLEAN, ~on => ~tx', resub' \in BOOLEAN,
           UNCHANGED <<outputVars, opened, channel, pane>>
    PROVE  MirrorIInv'
<1>1. /\ NoSub \in SubRec /\ NoSub.state = "none" /\ NoSub.backlog = <<>>
      /\ desk'.sub = NoSub /\ desk'.unacked = 0 /\ desk'.on = on
      /\ desk' \in [on : BOOLEAN, sub : SubRec, unacked : Nat]
  BY PlainFrames
<1>2. outputs' = outputs /\ proc' = proc /\ opened' = opened /\ channel' = channel /\ pane' = pane
  BY DEF outputVars
<1>3. reply' \in [proc : 0 .. MaxProcs, at : Nat, size : SizeOr0]
  BY MirrorAssumption DEF NoReply, SizeOr0
<1>4. upward' \in Seq(Told) /\ SaidIn(upward') = 0
  BY SaidNothing, EmptySeq
<1>5. MirrorTyped'
  <2>1. /\ outputs' \in [1 .. MaxProcs -> Seq(Item)] /\ \A p \in 1 .. MaxProcs : ItemsOK(outputs'[p])
        /\ proc' \in 0 .. MaxProcs /\ opened' \in 0 .. MaxPanes /\ channel' \in BOOLEAN
        /\ pane' \in [proc : 0 .. MaxProcs, at : Nat, size : SizeOr0, whole : BOOLEAN, torn : BOOLEAN]
        /\ ~channel' => ~pane'.whole
    BY <1>2 DEF MirrorIInv, MirrorTyped
  <2> QED BY <1>1, <1>3, <1>4, <2>1 DEF MirrorTyped
<1>6. SubOK'
  BY <1>1 DEF SubOK
<1>7. StreamOK'
  <2> DEFINE s == Shows(pane)
             F == <<s>>
  <2>1. s \in WireFrame /\ Chain(proc, PictureFirst(s, down)) /\ Aged(proc, PictureFirst(s, down)) /\ down \in Seq(WireFrame)
    BY FrontIs
  <2> HIDE DEF s
  <2>2. F \in Seq(WireFrame) /\ Chain(proc, F)
    BY <2>1, OneFrame
  <2>3. Aged(proc, F)
    <3> HIDE DEF F
    <3> QED BY <2>1, <2>2, ChainParts DEF PictureFirst, F
  <2>4. Chain(proc, d) /\ Aged(proc, d) /\ (d # <<>> => Joins(proc, End(F), d[1]))
    <3>1. Len(d) \in Nat
      BY LenProperties
    <3>2. \A k \in 1 .. Len(d) : d[k].kind = "welcome"
      OBVIOUS
    <3>3. \A f : \A k \in 1 .. Len(d) : Joins(proc, f, d[k])
      BY <3>2 DEF Joins
    <3>4. Chain(proc, d)
      <4>1. \A k \in 1 .. Len(d) - 1 : k + 1 \in 1 .. Len(d)
        BY <3>1
      <4> QED BY <3>3, <4>1 DEF Chain
    <3>5. Aged(proc, d)
      BY <3>2 DEF Aged, Drawn
    <3>6. d # <<>> => 1 \in 1 .. Len(d)
      BY <3>1, EmptySeq
    <3> QED BY <3>3, <3>4, <3>5, <3>6
  <2>5. Chain(proc, PictureFirst(s, d)) /\ Aged(proc, PictureFirst(s, d))
    <3> HIDE DEF F
    <3> QED BY <2>2, <2>3, <2>4, ChainParts DEF PictureFirst, F
  <2>6. Chain(proc, Wire(Shows(pane), d, desk'.sub.backlog)) /\ Aged(proc, Wire(Shows(pane), d, desk'.sub.backlog))
    BY <1>1, <2>5, QuietStream DEF s
  <2> QED BY <1>1, <1>2, <2>6 DEF StreamOK
<1>8. MirrorExact'
  BY <1>2 DEF MirrorIInv, MirrorExact
<1>9. CreditIsCovered'
  <2>1. Len(d) \in Nat
    BY LenProperties
  <2> QED BY <1>1, <1>4, <2>1 DEF CreditIsCovered
<1> QED BY <1>5, <1>6, <1>7, <1>8, <1>9 DEF MirrorIInv

LEMMA LinkUpKeeps == ASSUME MirrorIInv, LinkUp PROVE MirrorIInv'
<1> DEFINE g == Plain("welcome")
           d == <<g>>
<1>1. /\ links < MaxLinks /\ links' = links + 1
      /\ desk' = [NoDesk EXCEPT !.on = TRUE] /\ reply' = NoReply
      /\ down' = d /\ upward' = <<>> /\ unsaid' = 0
      /\ UNCHANGED <<outputVars, tx, resub, opened, channel, pane>>
  BY DEF LinkUp
<1>2. g \in WireFrame /\ g.kind = "welcome"
  BY PlainFrames
<1> HIDE DEF g
<1>3. d \in Seq(WireFrame) /\ \A k \in 1 .. Len(d) : d[k].kind = "welcome"
  BY <1>2
<1>4. links \in 0 .. MaxLinks /\ MaxLinks \in Nat /\ tx \in BOOLEAN /\ resub \in BOOLEAN
  BY MirrorAssumption DEF MirrorIInv, MirrorTyped
<1>5. links' \in 0 .. MaxLinks /\ tx' \in BOOLEAN /\ resub' \in BOOLEAN
  BY <1>1, <1>4
<1>6. desk' = [on |-> TRUE, sub |-> NoSub, unacked |-> 0]
  BY <1>1 DEF NoDesk
<1> HIDE DEF d
<1> QED BY <1>1, <1>3, <1>5, <1>6, FreshLink

LEMMA LinkLostKeeps == ASSUME MirrorIInv, LinkLost PROVE MirrorIInv'
<1>1. /\ desk' = NoDesk /\ reply' = NoReply /\ down' = <<>> /\ upward' = <<>>
      /\ tx' = FALSE /\ resub' = FALSE /\ unsaid' = 0
      /\ UNCHANGED <<outputVars, opened, channel, pane, links>>
  BY DEF LinkLost
<1>2. <<>> \in Seq(WireFrame) /\ Len(<<>>) = 0
  BY EmptySeq
<1>3. links' \in 0 .. MaxLinks
  BY <1>1 DEF MirrorIInv, MirrorTyped
<1>4. desk' = [on |-> FALSE, sub |-> NoSub, unacked |-> 0]
  BY <1>1 DEF NoDesk
<1> DEFINE d == <<>>
<1>5. d \in Seq(WireFrame) /\ \A k \in 1 .. Len(d) : d[k].kind = "welcome"
  BY <1>2
<1>6. down' = d /\ d = <<>>
  BY <1>1
<1> HIDE DEF d
<1> QED BY <1>1, <1>3, <1>4, <1>5, <1>6, FreshLink

\* What the pane shows gives way to nothing.
LEMMA NoPaneIs ==
    /\ NoPane \in [proc : 0 .. MaxProcs, at : Nat, size : SizeOr0, whole : BOOLEAN, torn : BOOLEAN]
    /\ NoPane.whole = FALSE /\ NoPane.torn = FALSE /\ Shows(NoPane).kind = "partial" /\ Shows(NoPane) \in WireFrame
<1>1. NoPane = [proc |-> 0, at |-> 0, size |-> Rows0, whole |-> FALSE, torn |-> FALSE]
  BY DEF NoPane
<1>2. 0 \in 0 .. MaxProcs /\ Rows0 \in SizeOr0
  BY MirrorAssumption DEF SizeOr0
<1>3. Shows(NoPane) = [kind |-> "partial", proc |-> 0, at |-> 0, size |-> Rows0]
  BY <1>1 DEF Shows
<1> QED BY <1>1, <1>2, <1>3 DEF WireFrame, FrameKinds

\* Another picture in front of what is on its way, when what comes next may follow it.
LEMMA NewFront ==
    ASSUME NEW q, NEW s \in WireFrame, NEW d \in Seq(WireFrame), NEW b \in Seq(WireFrame),
           Chain(q, d \o b), Aged(q, d \o b), s.kind \in Drawn => s.proc \in Known(q),
           d \o b # <<>> => Joins(q, s, (d \o b)[1])
    PROVE  Chain(q, Wire(s, d, b)) /\ Aged(q, Wire(s, d, b))
<1> DEFINE w == d \o b
           F == <<s>>
<1>1. /\ F \in Seq(WireFrame) /\ F # <<>> /\ Chain(q, F) /\ Aged(q, F) /\ End(F) = s
      /\ w \in Seq(WireFrame)
  BY OneFrame, ConcatProperties DEF End
<1> HIDE DEF w, F
<1>2. Chain(q, w) /\ Aged(q, w) /\ (w # <<>> => Joins(q, s, w[1]))
  BY DEF w
<1>3. Chain(q, F \o w) /\ Aged(q, F \o w)
  BY <1>1, <1>2, ChainParts
<1> QED BY <1>3 DEF Wire, F, w

\* What comes last.
LEMMA LastIs ==
    ASSUME NEW s \in WireFrame, NEW d \in Seq(WireFrame), NEW b \in Seq(WireFrame)
    PROVE  End(Wire(s, d, b)) = IF Bare(d \o b) THEN s ELSE End(d \o b)
<1> DEFINE w == d \o b
           F == <<s>>
<1>1. F \in Seq(WireFrame) /\ F # <<>> /\ End(F) = s /\ w \in Seq(WireFrame)
  BY OneFrame, ConcatProperties DEF End
<1> HIDE DEF w, F
<1>2. Wire(s, d, b) = F \o w
  BY DEF Wire, w, F
<1>3. w # <<>> => End(F \o w) = End(w)
  BY <1>1, ChainParts
<1>4. w = <<>> => F \o w = F
  BY <1>1, ConcatEmptySeq
<1> QED BY <1>1, <1>2, <1>3, <1>4 DEF w, Bare

\* What follows the picture, taken by itself.
LEMMA OldFront ==
    ASSUME NEW q, NEW s \in WireFrame, NEW d \in Seq(WireFrame), NEW b \in Seq(WireFrame),
           Chain(q, Wire(s, d, b)), Aged(q, Wire(s, d, b))
    PROVE  /\ d \o b \in Seq(WireFrame) /\ Chain(q, d \o b) /\ Aged(q, d \o b)
           /\ d \o b # <<>> => Joins(q, s, (d \o b)[1])
           /\ s.kind \in Drawn => s.proc \in Known(q)
<1> DEFINE w == d \o b
           F == <<s>>
<1>1. /\ F \in Seq(WireFrame) /\ F # <<>> /\ End(F) = s /\ w \in Seq(WireFrame)
      /\ Aged(q, F) <=> (s.kind \in Drawn => s.proc \in Known(q))
  BY OneFrame, ConcatProperties DEF End
<1> HIDE DEF w, F
<1>2. Chain(q, F \o w) /\ Aged(q, F \o w) /\ Wire(s, d, b) = F \o w
  BY DEF Wire, w, F
<1>3. /\ Chain(q, w) /\ (w # <<>> => Joins(q, End(F), w[1]))
      /\ Aged(q, F) /\ Aged(q, w)
  BY <1>1, <1>2, ChainParts
<1> QED BY <1>1, <1>2, <1>3 DEF w

\* The pane was opened or closed.
LEMMA NewPaneKeeps ==
    ASSUME MirrorIInv, pane' = NoPane, channel' \in BOOLEAN, opened' \in 0 .. MaxPanes,
           NEW m \in Told, Says(m) = 0, Say(m),
           UNCHANGED <<outputVars, desk, reply, down, tx, resub, unsaid, links>>
    PROVE  MirrorIInv'
<1>1. /\ outputs' = outputs /\ proc' = proc /\ desk' = desk /\ reply' = reply /\ down' = down
      /\ tx' = tx /\ resub' = resub /\ unsaid' = unsaid /\ links' = links
  BY DEF outputVars
<1>2. upward' \in Seq(Told) /\ SaidIn(upward') = SaidIn(upward)
  <2>1. upward \in Seq(Told)
    BY DEF MirrorIInv, MirrorTyped
  <2>2. Append(upward, m) \in Seq(Told) /\ SaidIn(Append(upward, m)) = SaidIn(upward)
    BY <2>1, SaidAppend, AppendProperties
  <2> QED BY <2>1, <2>2 DEF Say
<1>3. MirrorTyped'
  BY <1>1, <1>2, NoPaneIs DEF MirrorIInv, MirrorTyped
<1>4. SubOK'
  BY <1>1 DEF MirrorIInv, SubOK
<1>5. StreamOK'
  <2> DEFINE s == Shows(pane)
             n == Shows(NoPane)
             b == desk.sub.backlog
             w == down \o b
  <2>1. /\ s \in WireFrame /\ n \in WireFrame /\ n.kind = "partial" /\ down \in Seq(WireFrame) /\ b \in Seq(WireFrame)
        /\ Chain(proc, Wire(s, down, b)) /\ Aged(proc, Wire(s, down, b))
    BY FrontIs, NoPaneIs DEF MirrorIInv, StreamOK
  <2> HIDE DEF s, n, b
  <2>2. w \in Seq(WireFrame) /\ Chain(proc, w) /\ Aged(proc, w)
    BY <2>1, OldFront
  <2>3. w # <<>> => Joins(proc, n, w[1])
    BY <2>1 DEF Joins
  <2>4. Chain(proc, Wire(n, down, b)) /\ Aged(proc, Wire(n, down, b))
    BY <2>1, <2>2, <2>3, NewFront DEF Drawn
  <2>5. End(Wire(n, down, b)) = IF Bare(w) THEN n ELSE End(w)
    BY <2>1, LastIs
  <2>5a. End(Wire(s, down, b)) = IF Bare(w) THEN s ELSE End(w)
    BY <2>1, LastIs
  <2>6. desk.sub.state = "live" /\ desk.sub.proc = proc =>
            Leads(proc, End(Wire(n, down, b)), outputs[proc], desk.sub.upto, desk.sub.skip)
    <3> HIDE DEF w
    <3>1. CASE w = <<>>
      BY <2>1, <2>5, <3>1 DEF Leads, Bare
    <3>2. CASE w # <<>>
      BY <2>5, <2>5a, <3>2 DEF Bare, MirrorIInv, StreamOK, s, b
    <3> QED BY <3>1, <3>2
  <2> QED BY <1>1, <2>4, <2>6 DEF StreamOK, n, b
<1>6. MirrorExact'
  BY NoPaneIs DEF MirrorExact
<1>7. CreditIsCovered'
  BY <1>1, <1>2 DEF MirrorIInv, CreditIsCovered
<1> QED BY <1>3, <1>4, <1>5, <1>6, <1>7 DEF MirrorIInv

LEMMA OpensKeeps == ASSUME MirrorIInv, Opens PROVE MirrorIInv'
<1> DEFINE m == Plain("sub")
<1>1. /\ opened < MaxPanes /\ opened' = opened + 1 /\ channel' = TRUE /\ pane' = NoPane /\ Say(m)
      /\ UNCHANGED <<outputVars, desk, reply, down, tx, resub, unsaid, links>>
  BY DEF Opens
<1>2. m \in Told /\ Says(m) = 0
  BY PlainFrames DEF Says
<1>3. opened' \in 0 .. MaxPanes /\ channel' \in BOOLEAN
  <2>1. opened \in 0 .. MaxPanes
    BY DEF MirrorIInv, MirrorTyped
  <2>2. MaxPanes \in Nat
    BY MirrorAssumption
  <2>3. opened < MaxPanes /\ opened' = opened + 1 /\ channel' = TRUE
    BY <1>1
  <2> QED BY <2>1, <2>2, <2>3
<1> HIDE DEF m
<1> QED BY <1>1, <1>2, <1>3, NewPaneKeeps

LEMMA ClosesKeeps == ASSUME MirrorIInv, Closes PROVE MirrorIInv'
<1> DEFINE m == Plain("unsub")
<1>1. /\ channel' = FALSE /\ pane' = NoPane /\ Say(m)
      /\ UNCHANGED <<outputVars, desk, reply, down, tx, resub, opened, unsaid, links>>
  BY DEF Closes
<1>2. m \in Told /\ Says(m) = 0
  BY PlainFrames DEF Says
<1>3. opened' \in 0 .. MaxPanes /\ channel' \in BOOLEAN
  BY <1>1 DEF MirrorIInv, MirrorTyped
<1> HIDE DEF m
<1> QED BY <1>1, <1>2, <1>3, NewPaneKeeps

\* What a frame that may come next makes of the pane: what may follow the frame may follow
\* the picture, and a pane that began with a whole screen is torn only by the output of
\* another process.
LEMMA PaintsWell ==
    ASSUME NEW q, NEW w \in [proc : 0 .. MaxProcs, at : Nat, size : SizeOr0, whole : BOOLEAN, torn : BOOLEAN],
           NEW f \in WireFrame, f.kind # "welcome", Joins(q, Shows(w), f), w.whole /\ w.torn => w.proc # q,
           f.kind \in Drawn => f.proc \in Known(q), w.whole => w.proc \in Known(q),
           pane = w, NEW x, x = Painting(f)
    PROVE  /\ x \in [proc : 0 .. MaxProcs, at : Nat, size : SizeOr0, whole : BOOLEAN, torn : BOOLEAN]
           /\ x.whole /\ x.torn => x.proc # q
           /\ \A g : Joins(q, f, g) => Joins(q, Shows(x), g)
           /\ \A items, u, k : Leads(q, f, items, u, k) => Leads(q, Shows(x), items, u, k)
           /\ Shows(x).kind \in Drawn => Shows(x).proc \in Known(q)
<1> DEFINE s == Shows(w)
           t == Shows(x)
           PaneSet == [proc : 0 .. MaxProcs, at : Nat, size : SizeOr0, whole : BOOLEAN, torn : BOOLEAN]
<1>1. /\ f.kind \in FrameKinds /\ f.proc \in 0 .. MaxProcs /\ f.at \in Nat /\ f.size \in SizeOr0
      /\ f = [kind |-> f.kind, proc |-> f.proc, at |-> f.at, size |-> f.size]
  BY DEF WireFrame
<1>2. w.proc \in 0 .. MaxProcs /\ w.at \in Nat /\ w.size \in SizeOr0 /\ w.whole \in BOOLEAN /\ w.torn \in BOOLEAN
  OBVIOUS
<1>3. s.kind = (IF w.whole THEN "snap" ELSE "partial") /\ s.proc = w.proc /\ s.at = w.at /\ s.size = w.size
  BY DEF Shows
<1>4. t.kind = (IF x.whole THEN "snap" ELSE "partial") /\ t.proc = x.proc /\ t.at = x.at /\ t.size = x.size
  BY DEF Shows
<1> DEFINE right == f.proc = w.proc /\ f.at = w.at /\ f.size = w.size
<1>5. CASE f.kind = "snap"
  <2>1. x = [proc |-> f.proc, at |-> f.at, size |-> f.size, whole |-> TRUE, torn |-> FALSE]
    BY <1>5 DEF Painting
  <2>2. t = f
    BY <1>1, <1>5, <2>1 DEF Shows
  <2>3. x \in PaneSet /\ ~x.torn
    BY <1>1, <2>1
  <2> QED BY <1>5, <2>2, <2>3 DEF Drawn
<1>6. CASE f.kind = "partial"
  <2>1. x = [proc |-> f.proc, at |-> f.at, size |-> f.size, whole |-> FALSE, torn |-> FALSE]
    BY <1>6 DEF Painting
  <2>2. x \in PaneSet /\ ~x.torn /\ ~x.whole
    BY <1>1, <2>1
  <2>3. t.kind = "partial"
    BY <1>4, <2>2
  <2> HIDE DEF t
  <2> QED BY <2>2, <2>3 DEF Drawn, Joins, Leads, t
<1>7. CASE f.kind = "byte"
  <2>1. x = [w EXCEPT !.at = f.at + 1, !.proc = f.proc, !.torn = w.torn \/ ~right]
    BY <1>7 DEF Painting
  <2>2. x = [proc |-> f.proc, at |-> f.at + 1, size |-> w.size, whole |-> w.whole, torn |-> w.torn \/ ~right]
    <3> DEFINE b == w.torn \/ ~right
    <3> HIDE DEF b
    <3> QED BY <2>1 DEF b
  <2>3. /\ x \in PaneSet /\ x.proc = f.proc /\ x.at = f.at + 1 /\ x.size = w.size /\ x.whole = w.whole
        /\ x.torn = (w.torn \/ ~right)
    BY <1>1, <1>2, <2>2
  <2>4. CASE ~w.whole
    <3>1. t.kind = "partial" /\ ~x.whole
      BY <1>4, <2>3, <2>4
    <3> HIDE DEF t
    <3> QED BY <2>3, <3>1 DEF Drawn, Joins, Leads, t
  <2>5. CASE w.whole
    <3>1. s.kind = "snap" /\ t.kind = "snap"
      BY <1>3, <1>4, <2>3, <2>5
    <3> HIDE DEF s, t
    <3>2. f.proc = q => w.proc = q /\ f.at = w.at /\ f.size = w.size
      BY <1>3, <1>7, <3>1 DEF Joins, Past, s
    <3>3. x.whole /\ x.torn => x.proc # q
      BY <2>3, <2>5, <3>2
    <3>4. f.proc = q => t.proc = q /\ Past(t) = Past(f) /\ t.size = f.size
      BY <1>4, <1>7, <2>3, <3>1, <3>2 DEF Past
    <3>5. \A g : Joins(q, f, g) => Joins(q, t, g)
      BY <1>7, <3>1, <3>4 DEF Joins, Drawn
    <3>6. \A items, u, k : Leads(q, f, items, u, k) => Leads(q, t, items, u, k)
      BY <1>7, <3>1, <3>4 DEF Leads, Drawn
    <3>7. t.proc \in Known(q)
      BY <1>4, <1>7, <2>3 DEF Drawn
    <3> QED BY <2>3, <3>3, <3>5, <3>6, <3>7 DEF t
  <2> QED BY <1>2, <2>4, <2>5
<1>8. CASE f.kind = "resize"
  <2>1. x = [w EXCEPT !.size = f.size]
    BY <1>8 DEF Painting
  <2>2. x = [proc |-> w.proc, at |-> w.at, size |-> f.size, whole |-> w.whole, torn |-> w.torn]
    BY <2>1
  <2>3. /\ x \in PaneSet /\ x.proc = w.proc /\ x.at = w.at /\ x.size = f.size /\ x.whole = w.whole
        /\ x.torn = w.torn
    BY <1>1, <1>2, <2>2
  <2>4. CASE ~w.whole
    <3>1. t.kind = "partial" /\ ~x.whole
      BY <1>4, <2>3, <2>4
    <3> HIDE DEF t
    <3> QED BY <2>3, <3>1 DEF Drawn, Joins, Leads, t
  <2>5. CASE w.whole
    <3>1. s.kind = "snap" /\ t.kind = "snap"
      BY <1>3, <1>4, <2>3, <2>5
    <3> HIDE DEF s, t
    <3>2. f.proc = q => w.proc = q /\ f.at = w.at
      BY <1>3, <1>8, <3>1 DEF Joins, Past, s
    <3>3. x.whole /\ x.torn => x.proc # q
      BY <2>3
    <3>4. f.proc = q => t.proc = q /\ Past(t) = Past(f) /\ t.size = f.size
      BY <1>4, <1>8, <2>3, <3>1, <3>2 DEF Past
    <3>5. \A g : Joins(q, f, g) => Joins(q, t, g)
      BY <1>8, <3>1, <3>4 DEF Joins, Drawn
    <3>6. \A items, u, k : Leads(q, f, items, u, k) => Leads(q, t, items, u, k)
      BY <1>8, <3>1, <3>4 DEF Leads, Drawn
    <3>7. t.proc \in Known(q)
      BY <1>4, <2>3, <2>5
    <3> QED BY <2>3, <3>3, <3>5, <3>6, <3>7 DEF t
  <2> QED BY <1>2, <2>4, <2>5
<1>9. CASE f.kind = "gone"
  <2>1. x = w
    BY <1>9 DEF Painting
  <2>2. \A g : Joins(q, f, g) => Joins(q, t, g)
    BY <1>9 DEF Joins, Drawn
  <2>3. \A items, u, k : Leads(q, f, items, u, k) => Leads(q, t, items, u, k)
    BY <1>9 DEF Leads, Drawn
  <2>4. t.kind \in Drawn => t.proc \in Known(q)
    BY <1>2, <1>4, <2>1 DEF Drawn
  <2> QED BY <2>1, <2>2, <2>3, <2>4
<1> QED BY <1>1, <1>5, <1>6, <1>7, <1>8, <1>9 DEF FrameKinds, Drawn

LEMMA ViewerReadsKeeps == ASSUME MirrorIInv, ViewerReads PROVE MirrorIInv'
<1> DEFINE f == Head(down)
           rest == Tail(down)
           b == desk.sub.backlog
           s == Shows(pane)
           w == rest \o b
           PaneSet == [proc : 0 .. MaxProcs, at : Nat, size : SizeOr0, whole : BOOLEAN, torn : BOOLEAN]
<1>1. /\ down # <<>> /\ down' = rest /\ unsaid' = unsaid + 1
      /\ UNCHANGED <<outputVars, desk, reply, upward, opened, channel, links>>
      /\ IF f.kind = "welcome" THEN tx' = TRUE /\ resub' = Wanted /\ UNCHANGED pane
         ELSE /\ pane' = IF channel THEN Painting(f) ELSE pane
              /\ UNCHANGED <<tx, resub>>
  BY DEF ViewerReads, Counted
<1>2. /\ outputs' = outputs /\ proc' = proc /\ desk' = desk /\ reply' = reply /\ upward' = upward
      /\ opened' = opened /\ channel' = channel /\ links' = links
  BY <1>1 DEF outputVars
<1>3. /\ s \in WireFrame /\ down \in Seq(WireFrame) /\ b \in Seq(WireFrame) /\ pane \in PaneSet
      /\ Chain(proc, Wire(s, down, b)) /\ Aged(proc, Wire(s, down, b)) /\ MirrorTyped /\ desk.on
      /\ pane.whole /\ pane.torn => pane.proc # proc
  BY <1>1, FrontIs DEF MirrorIInv, StreamOK, MirrorTyped, MirrorExact
<1>4. /\ f \in WireFrame /\ rest \in Seq(WireFrame) /\ Len(rest) = Len(down) - 1 /\ Len(down) \in Nat
      /\ down = <<f>> \o rest
  <2>1. down \in Seq(WireFrame) /\ down # <<>>
    BY <1>1, <1>3
  <2>2. f \in WireFrame /\ rest \in Seq(WireFrame) /\ Len(rest) = Len(down) - 1 /\ Len(down) \in Nat
    BY <2>1, HeadTailProperties, LenProperties
  <2>3. down = <<f>> \o rest
    <3> DEFINE F == <<f>>
    <3>1. F \in Seq(WireFrame) /\ Len(F) = 1 /\ F[1] = f
      BY <2>2, OneFrame
    <3>2. /\ F \o rest \in Seq(WireFrame) /\ Len(F \o rest) = 1 + Len(rest) /\ Len(rest) \in Nat
          /\ (F \o rest)[1] = f
          /\ \A i \in 2 .. 1 + Len(rest) : i - 1 \in 1 .. Len(rest) /\ (F \o rest)[i] = rest[i - 1]
      <4> HIDE DEF F, rest, f
      <4>0. /\ F \o rest \in Seq(WireFrame) /\ Len(F \o rest) = Len(F) + Len(rest) /\ Len(rest) \in Nat
            /\ \A i \in 1 .. Len(F) : (F \o rest)[i] = F[i]
            /\ \A i \in (Len(F) + 1) .. (Len(F) + Len(rest)) :
                   i - Len(F) \in 1 .. Len(rest) /\ (F \o rest)[i] = rest[i - Len(F)]
        BY <2>2, <3>1, ConcatLies
      <4>1. /\ F \o rest \in Seq(WireFrame) /\ Len(F \o rest) = 1 + Len(rest) /\ Len(rest) \in Nat
            /\ \A i \in 1 .. 1 : (F \o rest)[i] = F[i]
            /\ \A i \in (1 + 1) .. (1 + Len(rest)) : i - 1 \in 1 .. Len(rest) /\ (F \o rest)[i] = rest[i - 1]
        BY <3>1, <4>0
      <4> QED BY <3>1, <4>1
    <3>3. \A i \in 1 .. Len(rest) : rest[i] = down[i + 1]
      BY <2>1, HeadTailProperties
    <3>4. f = down[1]
      BY <2>1
    <3> HIDE DEF F, rest, f
    <3>5. \A i \in 1 .. Len(down) : (F \o rest)[i] = down[i]
      <4> TAKE i \in 1 .. Len(down)
      <4>1. CASE i = 1
        BY <3>2, <3>4, <4>1
      <4>2. CASE i # 1
        <5>1. i \in 2 .. 1 + Len(rest) /\ (i - 1) + 1 = i
          BY <2>2, <4>2
        <5> QED BY <3>2, <3>3, <5>1
      <4> QED BY <4>1, <4>2
    <3>6. Len(F \o rest) = Len(down)
      BY <2>2, <3>2
    <3>7. F \o rest = down
      BY <2>1, <3>2, <3>5, <3>6, SeqEqual
    <3> QED BY <3>7 DEF F
  <2> QED BY <2>2, <2>3
<1> HIDE DEF f, rest, s, b
\* The frame read, what comes after it, and what the two say of each other.
<1>5. down \o b = <<f>> \o w /\ w \in Seq(WireFrame)
  <2> DEFINE F == <<f>>
  <2>1. F \in Seq(WireFrame)
    BY <1>4, OneFrame
  <2>2. down = F \o rest
    BY <1>4
  <2> HIDE DEF F
  <2>3. (F \o rest) \o b = F \o (rest \o b)
    <3>1. rest \in Seq(WireFrame) /\ b \in Seq(WireFrame)
      BY <1>3, <1>4
    <3> QED BY <2>1, <3>1, Together
  <2>4. rest \o b \in Seq(WireFrame)
    BY <1>3, <1>4, ConcatProperties
  <2> QED BY <2>2, <2>3, <2>4 DEF F
<1>6. /\ Chain(proc, down \o b) /\ Aged(proc, down \o b)
      /\ down \o b # <<>> => Joins(proc, s, (down \o b)[1])
      /\ s.kind \in Drawn => s.proc \in Known(proc)
  BY <1>3, OldFront
<1>7. /\ Joins(proc, s, f) /\ Chain(proc, w) /\ Aged(proc, w)
      /\ w # <<>> => Joins(proc, f, w[1])
      /\ f.kind \in Drawn => f.proc \in Known(proc)
  <2> DEFINE F == <<f>>
             v == F \o w
  <2>1. /\ F \in Seq(WireFrame) /\ F # <<>> /\ Len(F) = 1 /\ F[1] = f
        /\ Aged(proc, F) <=> (f.kind \in Drawn => f.proc \in Known(proc))
    BY <1>4, OneFrame
  <2>2. End(F) = f
    BY <2>1 DEF End
  <2>3. v = down \o b
    BY <1>5
  <2> HIDE DEF F, w
  <2>4. Chain(proc, v) /\ Aged(proc, v)
    BY <1>6, <2>3
  <2>5. /\ Chain(proc, w) /\ (w # <<>> => Joins(proc, End(F), w[1]))
        /\ Aged(proc, F) /\ Aged(proc, w)
    BY <1>5, <2>1, <2>4, ChainParts
  <2>6. v[1] = f /\ v # <<>>
    <3>1. v[1] = F[1]
      BY <1>5, <2>1, ChainParts
    <3>2. Len(v) = Len(F) + Len(w) /\ Len(w) \in Nat
      BY <1>5, <2>1, ConcatLies
    <3>3. Len(v) # 0
      BY <2>1, <3>2
    <3> HIDE DEF v
    <3>4. v # <<>>
      BY <3>3, EmptySeq
    <3> QED BY <2>1, <3>1, <3>4
  <2>7. Joins(proc, s, f)
    BY <1>6, <2>3, <2>6
  <2> QED BY <2>1, <2>2, <2>5, <2>7
<1>8. End(Wire(s, down, b)) = IF w = <<>> THEN f ELSE End(w)
  <2> DEFINE F == <<f>>
  <2>1. F \in Seq(WireFrame) /\ F # <<>> /\ End(F) = f
    BY <1>4, OneFrame DEF End
  <2>2. down \o b = F \o w
    BY <1>5
  <2> HIDE DEF F, w
  <2>3. End(Wire(s, down, b)) = IF Bare(down \o b) THEN s ELSE End(down \o b)
    BY <1>3, LastIs
  <2>4. ~Bare(F \o w)
    <3>1. Len(F \o w) = Len(F) + Len(w) /\ Len(w) \in Nat /\ Len(F) \in Nat /\ F \o w \in Seq(WireFrame)
      BY <1>5, <2>1, ConcatLies
    <3>2. Len(F) # 0
      BY <2>1, EmptySeq
    <3>3. Len(F \o w) # 0
      BY <3>1, <3>2
    <3> QED BY <3>1, <3>3, EmptySeq DEF Bare
  <2>5. w # <<>> => End(F \o w) = End(w)
    BY <1>5, <2>1, ChainParts
  <2>6. w = <<>> => F \o w = F
    BY <2>1, ConcatEmptySeq
  <2> QED BY <2>1, <2>2, <2>3, <2>4, <2>5, <2>6
<1> HIDE DEF w
\* What the frame makes of the pane.
<1> DEFINE t == Shows(pane')
<1>9. /\ pane' \in PaneSet /\ (~channel => ~pane'.whole) /\ tx' \in BOOLEAN /\ resub' \in BOOLEAN
      /\ pane'.whole /\ pane'.torn => pane'.proc # proc
      /\ \A g : Joins(proc, f, g) => Joins(proc, t, g)
      /\ \A items, u, k : Leads(proc, f, items, u, k) => Leads(proc, t, items, u, k)
      /\ t.kind \in Drawn => t.proc \in Known(proc)
  <2>1. tx \in BOOLEAN /\ resub \in BOOLEAN /\ channel \in BOOLEAN /\ (~channel => ~pane.whole)
    BY <1>3 DEF MirrorTyped
  <2>2. CASE f.kind = "welcome"
    <3>1. tx' = TRUE /\ resub' = channel /\ pane' = pane /\ t = s
      BY <1>1, <2>2 DEF Wanted, s
    <3>2. \A g : Joins(proc, f, g) => Joins(proc, t, g)
      BY <2>2 DEF Joins, Drawn
    <3>3. \A items, u, k : Leads(proc, f, items, u, k) => Leads(proc, t, items, u, k)
      BY <2>2 DEF Leads, Drawn
    <3> HIDE DEF t
    <3> QED BY <1>3, <1>6, <2>1, <3>1, <3>2, <3>3
  <2>3. CASE f.kind # "welcome" /\ channel
    <3>1. pane' = Painting(f) /\ tx' = tx /\ resub' = resub
      BY <1>1, <2>3
    <3>2. pane.whole => pane.proc \in Known(proc)
      <4> HAVE pane.whole
      <4>1. s.kind = "snap" /\ s.proc = pane.proc
        BY DEF Shows, s
      <4> QED BY <1>6, <4>1 DEF Drawn
    <3>3. /\ pane' \in PaneSet
          /\ pane'.whole /\ pane'.torn => pane'.proc # proc
          /\ \A g : Joins(proc, f, g) => Joins(proc, Shows(pane'), g)
          /\ \A items, u, k : Leads(proc, f, items, u, k) => Leads(proc, Shows(pane'), items, u, k)
          /\ Shows(pane').kind \in Drawn => Shows(pane').proc \in Known(proc)
      <4>1. Joins(proc, Shows(pane), f)
        BY <1>7 DEF s
      <4> QED BY <1>3, <1>4, <1>7, <2>3, <3>1, <3>2, <4>1, PaintsWell
    <3> QED BY <2>1, <2>3, <3>1, <3>3
  <2>4. CASE f.kind # "welcome" /\ ~channel
    <3>1. pane' = pane /\ tx' = tx /\ resub' = resub /\ ~pane.whole
      BY <1>1, <2>1, <2>4
    <3>2. t.kind = "partial"
      BY <3>1 DEF Shows
    <3> HIDE DEF t
    <3>3. \A g : Joins(proc, t, g)
      BY <3>2 DEF Joins
    <3>4. \A items, u, k : Leads(proc, t, items, u, k)
      BY <3>2 DEF Leads
    <3> QED BY <1>3, <2>1, <3>1, <3>2, <3>3, <3>4 DEF Drawn
  <2> QED BY <2>1, <2>2, <2>3, <2>4
<1>10. unsaid' \in Nat /\ unsaid' = unsaid + 1 /\ unsaid \in Nat
  BY <1>1, <1>3 DEF MirrorTyped
<1>11. MirrorTyped'
  BY <1>1, <1>2, <1>3, <1>4, <1>9, <1>10 DEF MirrorTyped
<1>12. SubOK'
  BY <1>2 DEF MirrorIInv, SubOK
<1>13. MirrorExact'
  BY <1>2, <1>9 DEF MirrorExact
<1>14. StreamOK'
  <2>1. t \in WireFrame
    <3>1. pane'.proc \in 0 .. MaxProcs /\ pane'.at \in Nat /\ pane'.size \in SizeOr0 /\ pane'.whole \in BOOLEAN
      BY <1>9
    <3> QED BY <3>1 DEF Shows, WireFrame, FrameKinds, Drawn
  <2> HIDE DEF t
  <2>2. w # <<>> => Joins(proc, t, w[1])
    BY <1>7, <1>9
  <2>3. Chain(proc, Wire(t, rest, b)) /\ Aged(proc, Wire(t, rest, b))
    BY <1>3, <1>4, <1>7, <1>9, <2>1, <2>2, NewFront DEF w
  <2>4. End(Wire(t, rest, b)) = IF Bare(w) THEN t ELSE End(w)
    BY <1>3, <1>4, <2>1, LastIs DEF w
  <2>5. desk.sub.state = "live" /\ desk.sub.proc = proc =>
            Leads(proc, End(Wire(t, rest, b)), outputs[proc], desk.sub.upto, desk.sub.skip)
    <3> HAVE desk.sub.state = "live" /\ desk.sub.proc = proc
    <3>1. Leads(proc, End(Wire(s, down, b)), outputs[proc], desk.sub.upto, desk.sub.skip)
      BY DEF MirrorIInv, StreamOK, s, b
    <3>2. CASE w = <<>>
      BY <1>8, <1>9, <2>4, <3>1, <3>2 DEF Bare
    <3>3. CASE w # <<>>
      BY <1>8, <2>4, <3>1, <3>3 DEF Bare
    <3> QED BY <3>2, <3>3
  <2> QED BY <1>1, <1>2, <2>3, <2>5 DEF StreamOK, t, b
<1>15. CreditIsCovered'
  <2>1. desk.unacked <= Len(down) + unsaid + SaidIn(upward) /\ SaidIn(upward) \in Nat /\ desk.unacked \in Nat
    BY <1>3, SaidInType DEF MirrorIInv, MirrorTyped, CreditIsCovered
  <2>2. desk.unacked <= Len(rest) + unsaid' + SaidIn(upward)
    BY <1>4, <1>10, <2>1
  <2> QED BY <1>1, <1>2, <2>2 DEF CreditIsCovered
<1> QED BY <1>11, <1>12, <1>13, <1>14, <1>15 DEF MirrorIInv

\* Credit that is still said, here or on the way.
LEMMA CreditMoves ==
    ASSUME NEW a \in Nat, NEW l \in Nat, NEW u \in Nat, NEW s \in Nat, NEW v \in Nat, NEW w \in Nat,
           a <= l + u + s, u + s <= v + w
    PROVE  a <= l + v + w
OBVIOUS

\* The other Mulpex says something.
LEMMA SpeaksKeeps ==
    ASSUME MirrorIInv, upward' \in Seq(Told), unsaid' \in Nat, resub' \in BOOLEAN,
           unsaid + SaidIn(upward) <= unsaid' + SaidIn(upward'),
           UNCHANGED <<outputVars, desk, reply, down, tx, opened, channel, pane, links>>
    PROVE  MirrorIInv'
<1>1. /\ outputs' = outputs /\ proc' = proc /\ desk' = desk /\ reply' = reply /\ down' = down
      /\ opened' = opened /\ channel' = channel /\ links' = links /\ pane' = pane /\ tx' = tx
  BY DEF outputVars
<1>2. MirrorTyped'
  BY <1>1 DEF MirrorIInv, MirrorTyped
<1>3. SubOK' /\ StreamOK' /\ MirrorExact'
  BY <1>1 DEF MirrorIInv, SubOK, StreamOK, MirrorExact
<1>4. CreditIsCovered'
  <2>1. /\ desk.unacked <= Len(down) + unsaid + SaidIn(upward) /\ desk.unacked \in Nat /\ unsaid \in Nat
        /\ upward \in Seq(Told) /\ down \in Seq(WireFrame)
    BY DEF MirrorIInv, MirrorTyped, CreditIsCovered
  <2>2. SaidIn(upward) \in Nat /\ SaidIn(upward') \in Nat /\ Len(down) \in Nat
    BY <2>1, SaidInType, LenProperties
  <2>3. desk.unacked <= Len(down) + unsaid' + SaidIn(upward')
    <3> DEFINE said == SaidIn(upward)
               later == SaidIn(upward')
               l == Len(down)
               a == desk.unacked
    <3>1. said \in Nat /\ later \in Nat /\ l \in Nat /\ a \in Nat /\ unsaid \in Nat /\ unsaid' \in Nat
          /\ a <= l + unsaid + said /\ unsaid + said <= unsaid' + later
      BY <2>1, <2>2
    <3> HIDE DEF said, later, l, a
    <3>2. a <= l + unsaid' + later
      BY <3>1, CreditMoves
    <3> QED BY <3>2 DEF said, later, l, a
  <2> QED BY <1>1, <2>3 DEF CreditIsCovered
<1> QED BY <1>2, <1>3, <1>4 DEF MirrorIInv

LEMMA ResubscribesKeeps == ASSUME MirrorIInv, Resubscribes PROVE MirrorIInv'
<1> DEFINE m == Plain("sub")
<1>1. /\ resub' = FALSE /\ upward' = (IF tx THEN Append(upward, m) ELSE upward) /\ unsaid' = unsaid
      /\ UNCHANGED <<outputVars, desk, reply, down, tx, opened, channel, pane, links>>
  BY DEF Resubscribes, Say
<1>2. m \in Told /\ Says(m) = 0
  BY PlainFrames DEF Says
<1>3. upward \in Seq(Told) /\ unsaid \in Nat
  BY DEF MirrorIInv, MirrorTyped
<1> HIDE DEF m
<1>4. Append(upward, m) \in Seq(Told) /\ SaidIn(Append(upward, m)) = SaidIn(upward) + 0 /\ SaidIn(upward) \in Nat
  BY <1>2, <1>3, SaidAppend, AppendProperties
<1>5. upward' \in Seq(Told) /\ SaidIn(upward') = SaidIn(upward)
  BY <1>1, <1>3, <1>4
<1>6. unsaid + SaidIn(upward) <= unsaid' + SaidIn(upward') /\ unsaid' \in Nat /\ resub' \in BOOLEAN
  <2>1. resub' = FALSE /\ unsaid' = unsaid
    BY <1>1
  <2> DEFINE y == SaidIn(upward)
             z == SaidIn(upward')
  <2>2. y \in Nat /\ z = y
    BY <1>4, <1>5
  <2> HIDE DEF y, z
  <2>3. unsaid + y <= unsaid' + z
    BY <1>3, <2>1, <2>2
  <2> QED BY <1>3, <2>1, <2>3 DEF y, z
<1> QED BY <1>1, <1>5, <1>6, SpeaksKeeps

LEMMA AcksKeeps == ASSUME MirrorIInv, Acks PROVE MirrorIInv'
<1> DEFINE m == [Plain("ack") EXCEPT !.at = unsaid]
<1>1. /\ upward' = Append(upward, m) /\ unsaid' = 0
      /\ UNCHANGED <<outputVars, desk, reply, down, tx, resub, opened, channel, pane, links>>
  BY DEF Acks
<1>2. upward \in Seq(Told) /\ unsaid \in Nat /\ resub \in BOOLEAN
  BY DEF MirrorIInv, MirrorTyped
<1>3. m \in Told /\ Says(m) = unsaid
  BY <1>2, PlainFrames DEF Says
<1> HIDE DEF m
<1>4. Append(upward, m) \in Seq(Told) /\ SaidIn(Append(upward, m)) = SaidIn(upward) + unsaid /\ SaidIn(upward) \in Nat
  BY <1>2, <1>3, SaidAppend, AppendProperties
<1>5. unsaid + SaidIn(upward) <= unsaid' + SaidIn(upward') /\ upward' \in Seq(Told)
  BY <1>1, <1>2, <1>4
<1> QED BY <1>1, <1>2, <1>5, SpeaksKeeps

LEMMA MirrorStarts == MirrorInit => MirrorIInv
<1> SUFFICES ASSUME MirrorInit PROVE MirrorIInv
  OBVIOUS
<1>1. /\ outputs = [p \in 1 .. MaxProcs |-> <<>>] /\ proc = 1
      /\ desk = NoDesk /\ reply = NoReply /\ down = <<>> /\ upward = <<>>
      /\ tx = FALSE /\ resub = FALSE /\ opened = 0 /\ channel = FALSE /\ unsaid = 0
      /\ pane = NoPane /\ links = 0
  BY DEF MirrorInit
<1>2. MaxProcs \in Nat /\ MaxProcs # 0 /\ MaxLinks \in Nat /\ MaxPanes \in Nat
  BY MirrorAssumption
<1>3. /\ desk = [on |-> FALSE, sub |-> NoSub, unacked |-> 0] /\ NoSub \in SubRec
      /\ NoSub.state = "none" /\ NoSub.backlog = <<>>
  BY <1>1, PlainFrames DEF NoDesk
<1>4. desk.sub = NoSub /\ desk.on = FALSE /\ desk.unacked = 0 /\ desk \in [on : BOOLEAN, sub : SubRec, unacked : Nat]
  BY <1>3
<1>5. /\ outputs \in [1 .. MaxProcs -> Seq(Item)] /\ \A p \in 1 .. MaxProcs : ItemsOK(outputs[p])
      /\ <<>> \in Seq(WireFrame) /\ <<>> \in Seq(Told)
  <2>1. <<>> \in Seq(Item) /\ <<>> \in Seq(WireFrame) /\ <<>> \in Seq(Told) /\ Len(<<>>) = 0
    BY EmptySeq
  <2>2. ItemsOK(<<>>)
    BY <2>1 DEF ItemsOK
  <2> QED BY <1>1, <2>1, <2>2
<1>6. reply \in [proc : 0 .. MaxProcs, at : Nat, size : SizeOr0]
  BY <1>1, MirrorAssumption DEF NoReply, SizeOr0
<1>7. MirrorTyped
  <2>1. proc \in 0 .. MaxProcs /\ links \in 0 .. MaxLinks /\ opened \in 0 .. MaxPanes /\ unsaid \in Nat
    BY <1>1, <1>2
  <2>2. down \in Seq(WireFrame) /\ upward \in Seq(Told) /\ tx \in BOOLEAN /\ resub \in BOOLEAN /\ channel \in BOOLEAN
    BY <1>1, <1>5
  <2>3. /\ pane \in [proc : 0 .. MaxProcs, at : Nat, size : SizeOr0, whole : BOOLEAN, torn : BOOLEAN]
        /\ ~pane.whole
    BY <1>1, NoPaneIs
  <2>4. ~desk.on => desk.sub.state = "none" /\ down = <<>> /\ ~tx
    BY <1>1, <1>3, <1>4
  <2> QED BY <1>4, <1>5, <1>6, <2>1, <2>2, <2>3, <2>4 DEF MirrorTyped
<1>8. SubOK
  BY <1>1, <1>3, <1>4 DEF SubOK
<1>9. StreamOK
  <2> DEFINE s == Shows(NoPane)
             F == <<s>>
  <2>1. s \in WireFrame /\ s.kind = "partial"
    BY NoPaneIs
  <2> HIDE DEF s
  <2>2. F \in Seq(WireFrame) /\ Chain(proc, F) /\ Aged(proc, F)
    BY <2>1, OneFrame DEF Drawn
  <2>3. PictureFirst(s, <<>>) = F
    <3> HIDE DEF F
    <3> QED BY <2>2, ConcatEmptySeq DEF PictureFirst, F
  <2>4. Chain(proc, PictureFirst(s, <<>>)) /\ Aged(proc, PictureFirst(s, <<>>))
    BY <2>2, <2>3
  <2>5. Chain(proc, Wire(Shows(pane), down, desk.sub.backlog)) /\ Aged(proc, Wire(Shows(pane), down, desk.sub.backlog))
    <3>1. Chain(proc, Wire(Shows(NoPane), <<>>, NoSub.backlog)) /\ Aged(proc, Wire(Shows(NoPane), <<>>, NoSub.backlog))
      BY <1>3, <1>5, <2>4, QuietStream DEF s
    <3> QED BY <1>1, <1>4, <3>1
  <2> QED BY <1>3, <1>4, <2>5 DEF StreamOK
<1>10. MirrorExact
  BY <1>1, NoPaneIs DEF MirrorExact
<1>11. CreditIsCovered
  BY <1>1, <1>4, SaidNothing, EmptySeq DEF CreditIsCovered
<1> QED BY <1>7, <1>8, <1>9, <1>10, <1>11 DEF MirrorIInv

LEMMA MirrorSteps == MirrorIInv /\ [MirrorNext]_mirrorVars => MirrorIInv'
<1> SUFFICES ASSUME MirrorIInv, [MirrorNext]_mirrorVars PROVE MirrorIInv'
  OBVIOUS
<1>1. CASE UNCHANGED mirrorVars
  <2>1. /\ UNCHANGED <<outputVars, desk, reply, down, tx, opened, channel, pane, links>>
        /\ upward' = upward /\ unsaid' = unsaid /\ resub' = resub
    BY <1>1 DEF mirrorVars, outputVars
  <2>2. upward \in Seq(Told) /\ unsaid \in Nat /\ resub \in BOOLEAN
    BY DEF MirrorIInv, MirrorTyped
  <2>3. SaidIn(upward) \in Nat
    BY <2>2, SaidInType
  <2>4. unsaid + SaidIn(upward) <= unsaid' + SaidIn(upward')
    BY <2>1, <2>2, <2>3
  <2> QED BY <2>1, <2>2, <2>4, SpeaksKeeps
<1>2. CASE ProcessPrints
  BY <1>2, ProcessPrintsKeeps
<1>3. CASE \E size \in Rows : ProcessResizes(size)
  BY <1>3, ProcessResizesKeeps
<1>4. CASE Replaced
  BY <1>4, ReplacedKeeps
<1>5. CASE Closed
  BY <1>5, ClosedKeeps
<1>6. CASE Serializes
  BY <1>6, SerializesKeeps
<1>7. CASE PumpPending
  BY <1>7, PumpPendingKeeps
<1>8. CASE PumpLive
  BY <1>8, PumpLiveKeeps
<1>9. CASE HostReads
  BY <1>9, HostReadsKeeps
<1>10. CASE LinkUp
  BY <1>10, LinkUpKeeps
<1>11. CASE LinkLost
  BY <1>11, LinkLostKeeps
<1>12. CASE Opens
  BY <1>12, OpensKeeps
<1>13. CASE Closes
  BY <1>13, ClosesKeeps
<1>14. CASE ViewerReads
  BY <1>14, ViewerReadsKeeps
<1>15. CASE Resubscribes
  BY <1>15, ResubscribesKeeps
<1>16. CASE Acks
  BY <1>16, AcksKeeps
<1> QED BY <1>1, <1>2, <1>3, <1>4, <1>5, <1>6, <1>7, <1>8, <1>9, <1>10, <1>11, <1>12, <1>13, <1>14, <1>15, <1>16
        DEF MirrorNext

LEMMA MirrorIsTold == MirrorIInv => MirrorInv
<1> SUFFICES ASSUME MirrorIInv PROVE MirrorInv
  OBVIOUS
<1>1. MirrorTyped /\ MirrorExact /\ CreditIsCovered
  BY DEF MirrorIInv
<1>2. desk.sub \in SubRec /\ desk.on \in BOOLEAN /\ desk.unacked \in Nat /\ (tx => desk.on)
  BY <1>1 DEF MirrorTyped
<1>3. pane.whole \in BOOLEAN /\ pane.torn \in BOOLEAN
  BY <1>1 DEF MirrorTyped
<1>4. ASSUME NEW p \in 1 .. MaxProcs, NEW i \in DOMAIN outputs[p]
      PROVE  outputs[p][i].kind \in {"byte", "resize"} /\ outputs[p][i].size \in Rows
  <2>1. outputs[p] \in Seq(Item)
    BY <1>1 DEF MirrorTyped
  <2>2. outputs[p][i] \in Item
    BY <2>1
  <2> QED BY <2>2 DEF Item
<1>5. MirrorTypeOK
  BY <1>1, <1>2, <1>3, <1>4 DEF MirrorTypeOK, MirrorTyped, SubRec
<1> QED BY <1>1, <1>5 DEF MirrorInv

\* What a pane of another machine's terminal shows is exactly the output of the process there
\* is, and the window of its stream cannot stay closed (remote/desktop.rs, remote/client.rs).
THEOREM PaneIsExact == MirrorSpec => []MirrorInv
<1>1. MirrorInit => MirrorIInv
  BY MirrorStarts
<1>2. MirrorIInv /\ [MirrorNext]_mirrorVars => MirrorIInv'
  BY MirrorSteps
<1>3. MirrorIInv => MirrorInv
  BY MirrorIsTold
<1> QED BY <1>1, <1>2, <1>3, PTL DEF MirrorSpec
=============================================================================
