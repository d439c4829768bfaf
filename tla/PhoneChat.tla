------------------------------ MODULE PhoneChat ------------------------------
(***************************************************************************)
(* A claude's chat on a phone: the transcript, followed line by line       *)
(* (remote/chat.rs and poll_chat in remote/mod.rs). The claude appends     *)
(* while it is read, a line at a time or half of one; a resume moves it to *)
(* another file; the row may end.                                          *)
(***************************************************************************)
EXTENDS Naturals, Sequences, FiniteSets

CONSTANTS
    Messages,     \* what is said, or queued
    MaxLines,     \* bound: the lines of a transcript
    History,      \* HISTORY_BYTES: the lines that are read when a chat is opened
    MaxChatMoves,     \* bound: resumes and rewritten transcripts
    MaxChats      \* bound: the chats the phone opens

ASSUME PhoneChatAssumption ==
    {MaxLines, History, MaxChatMoves, MaxChats} \subseteq Nat /\ History > 0 /\ IsFiniteSet(Messages)

VARIABLES
    text,    \* path |-> the whole lines of the transcript
    half,    \* path |-> a line is being written
    path,    \* the transcript the claude writes to
    rowLives,   \* the row is a live claude
    watch,   \* the session's Watch: whether it has one, its tail and whether it said gone
    due,     \* RESOLVE_EVERY is over: the path is looked up again on the next pass
    chat,    \* what the phone shows: the messages, the queue, and whether it is gone
    since,   \* the first line of the tail's file that the chat has
    chatMoves, chats
chatVars == <<text, half, path, rowLives, watch, due, chat, since, chatMoves, chats>>

Paths == {"first", "resumed"}
Lines == {[op |-> o, msg |-> m] : o \in {"said", "enqueue"}, m \in Messages} \cup {[op |-> "dequeue", msg |-> "none"]}

NoTail == [path |-> "none", offset |-> 0, queue |-> <<>>]
NoWatch == [open |-> FALSE, tail |-> NoTail, gone |-> FALSE]
NoChat == [items |-> <<>>, queue |-> <<>>, gone |-> FALSE]

ChatInit ==
    /\ text = [p \in Paths |-> <<>>] /\ half = [p \in Paths |-> FALSE]
    /\ path = "first" /\ rowLives = TRUE
    /\ watch = NoWatch /\ due = FALSE /\ chat = NoChat /\ since = 1
    /\ chatMoves = 0 /\ chats = 0

transcript == <<text, half, path, rowLives, chatMoves>>

-----------------------------------------------------------------------------
\* Queue::apply.
Queued(q, l) ==
    IF l.op = "enqueue" THEN Append(q, l.msg)
    ELSE IF l.op = "dequeue" /\ q # <<>> THEN Tail(q) ELSE q

\* What a reader of the lines ls has, one line after the other, when it had h.
NothingHeard == [items |-> <<>>, queue |-> <<>>]
Heard(h, l) ==
    [items |-> IF l.op = "said" THEN Append(h.items, l.msg) ELSE h.items,
     queue |-> Queued(h.queue, l)]
HeardAll(h, ls) ==
    LET heard[n \in 0 .. Len(ls)] == IF n = 0 THEN h ELSE Heard(heard[n - 1], ls[n])
    IN  heard[Len(ls)]

\* Mutant: the half line at the end counts as read.
SizeRead_Half(p) == Len(text[p]) + (IF half[p] THEN 1 ELSE 0)

\* Only complete lines are parsed.
SizeRead(p) == Len(text[p])

\* Tail::open_for: the history, from a whole line on.
FromLine(p) == IF Len(text[p]) > History THEN Len(text[p]) - History + 1 ELSE 1
Opened(p) ==
    LET h == HeardAll(NothingHeard, SubSeq(text[p], FromLine(p), Len(text[p])))
    IN  [tail |-> [path |-> p, offset |-> SizeRead(p), queue |-> h.queue], items |-> h.items]

\* Tail::read_new.
NewLines(t) == SubSeq(text[t.path], t.offset + 1, Len(text[t.path]))

Shrunk(t) == Len(text[t.path]) < t.offset

Reload(p) ==
    /\ watch' = [open |-> TRUE, tail |-> Opened(p).tail, gone |-> FALSE]
    /\ chat' = [items |-> Opened(p).items, queue |-> Opened(p).tail.queue, gone |-> FALSE]
    /\ since' = FromLine(p)

Recheck == watch.tail = NoTail \/ due

\* poll_chat.
PollGone ==
    /\ Recheck /\ ~rowLives /\ due' = FALSE
    /\ IF watch.gone THEN UNCHANGED <<watch, chat, since>>
       ELSE /\ watch' = [watch EXCEPT !.gone = TRUE, !.tail = NoTail]
            /\ chat' = [NoChat EXCEPT !.gone = TRUE] /\ since' = 1
PollMoved ==
    /\ Recheck /\ rowLives /\ watch.tail.path # path
    /\ Reload(path) /\ due' = FALSE
PollReads ==
    /\ watch.tail # NoTail /\ ~(Recheck /\ (~rowLives \/ watch.tail.path # path))
    /\ due' = FALSE
    /\ LET t == watch.tail
           h == HeardAll([items |-> chat.items, queue |-> t.queue], NewLines(t))
       IN  IF Shrunk(t) THEN Reload(t.path)
           ELSE /\ watch' = [watch EXCEPT !.tail.offset = SizeRead(t.path), !.tail.queue = h.queue]
                /\ chat' = [chat EXCEPT !.items = h.items, !.queue = h.queue]
                /\ UNCHANGED since
Poll ==
    /\ watch.open /\ (PollGone \/ PollMoved \/ PollReads)
    /\ UNCHANGED <<transcript, chats>>

\* Two seconds pass.
ResolveDue ==
    /\ watch.open /\ ~due /\ due' = TRUE
    /\ UNCHANGED <<transcript, watch, chat, since, chats>>

\* "open" and "close", and a session that ends: the phone comes back with a new one.
OpensChat ==
    /\ ~watch.open /\ chats < MaxChats /\ chats' = chats + 1
    /\ watch' = [NoWatch EXCEPT !.open = TRUE] /\ due' = FALSE
    /\ UNCHANGED <<transcript, chat, since>>
ClosesChat ==
    /\ watch.open /\ watch' = NoWatch /\ due' = FALSE /\ chat' = NoChat /\ since' = 1
    /\ UNCHANGED <<transcript, chats>>

-----------------------------------------------------------------------------
(* The claude.                                                              *)

Begins ==
    /\ rowLives /\ ~half[path] /\ Len(text[path]) < MaxLines
    /\ watch.tail.path = path => ~Shrunk(watch.tail)
    /\ half' = [half EXCEPT ![path] = TRUE]
    /\ UNCHANGED <<text, path, rowLives, watch, due, chat, since, chatMoves, chats>>
Ends ==
    /\ half[path] /\ half' = [half EXCEPT ![path] = FALSE]
    /\ \E l \in Lines : text' = [text EXCEPT ![path] = Append(@, l)]
    /\ UNCHANGED <<path, rowLives, watch, due, chat, since, chatMoves, chats>>

\* An in-TUI /resume, and a transcript that is replaced by a shorter one, which is read
\* before it grows again.
Resumes ==
    /\ chatMoves < MaxChatMoves /\ chatMoves' = chatMoves + 1 /\ path' = "resumed" /\ path = "first" /\ ~half[path]
    /\ UNCHANGED <<text, half, rowLives, watch, due, chat, since, chats>>
FileReplaced ==
    /\ chatMoves < MaxChatMoves /\ chatMoves' = chatMoves + 1 /\ ~half[path] /\ Len(text[path]) > 1
    /\ watch.tail.path = path /\ watch.tail.offset = Len(text[path])
    /\ text' = [text EXCEPT ![path] = <<@[Len(@)]>>]
    /\ UNCHANGED <<half, path, rowLives, watch, due, chat, since, chats>>
Dies ==
    /\ rowLives /\ rowLives' = FALSE
    /\ UNCHANGED <<text, half, path, watch, due, chat, since, chatMoves, chats>>

ChatNext ==
    \/ Begins \/ Ends \/ Resumes \/ FileReplaced \/ Dies
    \/ OpensChat \/ ClosesChat \/ Poll \/ ResolveDue

ChatSpec == ChatInit /\ [][ChatNext]_chatVars

\* The connection's loop passes, and time does.
ChatFair == WF_chatVars(Poll) /\ WF_chatVars(ResolveDue) /\ WF_chatVars(Ends)
ChatFairSpec == ChatSpec /\ ChatFair

-----------------------------------------------------------------------------
ChatTypeOK ==
    /\ \A p \in Paths : Len(text[p]) <= MaxLines
    /\ watch.tail.path \in Paths \cup {"none"}
    /\ watch.tail # NoTail => watch.open
    /\ watch.gone => watch.tail = NoTail

\* chat.rs Tail "Only complete lines are parsed - a line Claude Code is halfway through
\* writing waits for the next read": the chat is what its file said from the line the
\* history began with to the line that was read last, every line once.
ChatIsExact ==
    LET t == watch.tail
    IN  t # NoTail /\ ~Shrunk(t) => chat.items = HeardAll(NothingHeard, SubSeq(text[t.path], since, t.offset)).items

\* chat.rs Queue "a dequeue names nothing, so the order has to be exact": a chat that was
\* opened on the whole transcript shows the queue as it is.
QueueIsExact ==
    LET t == watch.tail
    IN  t # NoTail /\ ~Shrunk(t) /\ since = 1 => chat.queue = HeardAll(NothingHeard, SubSeq(text[t.path], 1, t.offset)).queue

\* "It can change under a running claude, so it is looked up again now and then": an open
\* chat ends up with all of the transcript that the claude writes to, or says it is gone.
ChatCatchesUp ==
    []<>(\/ ~watch.open
         \/ ~rowLives /\ chat.gone
         \/ rowLives /\ watch.tail.path = path /\ watch.tail.offset = Len(text[path]))

\* The chat on the phone is the transcript of the row from where it was opened on, and its
\* queue that of the claude (remote/chat.rs).
ChatInv == ChatTypeOK /\ ChatIsExact /\ QueueIsExact
=============================================================================
