------------------------------- MODULE Board -------------------------------
(***************************************************************************)
(* The project's Board (src-tauri/src/board.rs) and its outbox.            *)
(*                                                                         *)
(* Every edit lands on the board at once.  What it means for the claude a  *)
(* card belongs to is queued: the user's edits wait in `waiting' until     *)
(* UPDATE releases them, a claude's change to another claude's card goes   *)
(* straight to `sending', and the poll loop turns what is in `sending'     *)
(* into one message.  A queue keeps, for each card, how the card was       *)
(* before the first edit in it (`base') and whether its comment is to be   *)
(* told; the message compares the card with `base' as it is delivered, so  *)
(* that a round trip says nothing.                                         *)
(*                                                                         *)
(* `view' is what each claude knows of its cards: what it was told and     *)
(* what the answers of its own hub_board calls showed it.  `cutoff' is a   *)
(* history variable: the claudes and cards for which the comparison with   *)
(* `base' was cut off from what the claude knows.                          *)
(*                                                                         *)
(* A card's title, detail, images and choice are one value `txt'; order    *)
(* within a column, urgency, unread marks and images on disk are left out. *)
(***************************************************************************)
EXTENDS Naturals, FiniteSets, Sequences, SequencesExt

CONSTANTS
    BoardClaudes,  \* the claudes with a row
    MaxCards,      \* cards ever made
    MaxCols,       \* columns ever made
    MaxEdits,      \* bound on the edits of the board
    MaxKills       \* bound on the app's deaths between two saves of one edit

\* No claude: a card without an assignee, an edit of the user's.
Nobody == 0

ASSUME BoardAssumption ==
    /\ IsFiniteSet(BoardClaudes) /\ Nobody \notin BoardClaudes
    /\ MaxCards \in Nat /\ MaxCols \in Nat \ {0, 1}
    /\ MaxEdits \in Nat /\ MaxKills \in Nat

VARIABLES
    board,      \* columns, cards, the last card number, the last column id
    proposals,  \* the claudes' column changes waiting for the user
    waiting,    \* the user's changes, held until UPDATE
    sending,    \* released changes, until their claude can hear them
    rows,       \* the claudes whose row still exists
    view,       \* what each claude knows of its own active cards
    heard,      \* the text of a card's comment as it was told
    cutoff,     \* history: see above
    edits, kills

boardVars == <<board, proposals, waiting, sending, rows, view,
               heard, cutoff, edits, kills>>

CardIds == 1..MaxCards
ColIds == 1..MaxCols
Texts == 1..2

(* A card's comment: none, the user's (in one of two wordings), a claude's, *)
(* or deleted.                                                              *)
Silent == 0
ByClaude == 3
Removed == 4
Says == {Silent, ByClaude, Removed} \cup Texts

NoCard == [col |-> 0, owner |-> Nobody, txt |-> 0, arch |-> FALSE, say |-> Silent]
Unknown == [on |-> FALSE, col |-> 0, txt |-> 0]
NoNews == [on |-> FALSE, base |-> NoCard, said |-> FALSE]

Present(b) == {n \in CardIds : b.cards[n].col # 0}
Cols(b) == Range(b.cols)

---------------------------------------------------------------------------
(* An edit makes a result: the board after it, the claudes it concerns     *)
(* (`news': for each claude the cards it is told about), and whether it    *)
(* was accepted.                                                           *)

Nothing == [c \in BoardClaudes |-> {}]

Done(b, news) == [ok |-> TRUE, b |-> b, news |-> news]
Refused(b) == [ok |-> FALSE, b |-> b, news |-> Nothing]

(* Board::tell: the assignee, unless it is the one who did it.             *)
Tell(b, ns, by) ==
    [c \in BoardClaudes |->
        {n \in ns : b.cards[n].owner = c /\ c # by}]

And(p, q) == [c \in BoardClaudes |-> p[c] \cup q[c]]

WithCard(b, n, card) == [b EXCEPT !.cards[n] = card]

AddCard(b, owner, col, txt, by) ==
    IF b.made = MaxCards \/ col \notin Cols(b) THEN Refused(b)
    ELSE LET n == b.made + 1
             b2 == [WithCard(b, n, [col |-> col, owner |-> owner, txt |-> txt,
                                    arch |-> FALSE, say |-> Silent])
                    EXCEPT !.made = n]
         IN  Done(b2, Tell(b2, {n}, by))

EditCard(b, n, txt, by) ==
    LET b2 == [b EXCEPT !.cards[n].txt = txt]
    IN  Done(b2, Tell(b2, {n}, by))

(* AssignedToYou to the new owner, Unassigned to the old one.              *)
AssignCard(b, n, owner, by) ==
    LET b2 == [b EXCEPT !.cards[n].owner = owner]
    IN  Done(b2, IF b.cards[n].owner = owner THEN Nothing
                 ELSE And(Tell(b2, {n}, by), Tell(b, {n}, by)))

(* A claude's move takes the card out of the archive, the user's does not. *)
MoveCard(b, n, col, by) ==
    LET card == b.cards[n]
        arch == card.arch /\ by = Nobody
        b2 == WithCard(b, n, [card EXCEPT !.col = col, !.arch = arch])
    IN  IF col \notin Cols(b) THEN Refused(b)
        ELSE Done(b2, IF card.col # col \/ card.arch # arch
                      THEN Tell(b2, {n}, by) ELSE Nothing)

SayOn(b, n, say, by) ==
    LET b2 == [b EXCEPT !.cards[n].say = say]
    IN  IF b.cards[n].say # Silent THEN Refused(b) ELSE Done(b2, Tell(b2, {n}, by))

ArchiveCards(b, ns, flag, by) ==
    LET turned == {n \in ns : b.cards[n].arch # flag}
        b2 == [b EXCEPT !.cards = [n \in CardIds |->
                  IF n \in turned THEN [@[n] EXCEPT !.arch = flag] ELSE @[n]]]
    IN  Done(b2, Tell(b2, turned, by))

(* An archived card was already reported gone.                             *)
DeleteCard(b, n) ==
    Done(WithCard(b, n, NoCard),
         IF b.cards[n].arch THEN Nothing ELSE Tell(b, {n}, Nobody))

AddCol(b) ==
    IF b.madeCols = MaxCols THEN Refused(b)
    ELSE Done([b EXCEPT !.cols = Append(@, b.madeCols + 1), !.madeCols = @ + 1], Nothing)

Without(cols, col) == RemoveAt(cols, CHOOSE i \in DOMAIN cols : cols[i] = col)

(* `before' = 0 puts it at the end.                                        *)
MoveCol(b, col, before) ==
    LET rest == Without(b.cols, col)
        at == IF before \in Range(rest) THEN CHOOSE i \in DOMAIN rest : rest[i] = before
              ELSE Len(rest) + 1
    IN  IF col \notin Cols(b) THEN Refused(b)
        ELSE Done([b EXCEPT !.cols = InsertAt(rest, at, col)], Nothing)

(* The board keeps at least one column, and the cards need one to go to.   *)
Deletable(b, col, to) ==
    Len(b.cols) > 1 /\ col \in Cols(b) /\ to # col /\ to \in Cols(b) \cup {0}

(* Mutant: the archived cards stay in the column that goes.                *)
HeldBy_Active(b, col) == {n \in CardIds : b.cards[n].col = col /\ ~b.cards[n].arch}

HeldBy(b, col) == {n \in CardIds : b.cards[n].col = col}

(* Its cards move to column `to', or (`to' = 0) are archived and keep the  *)
(* first other column to come back to.  Archived ones move silently.       *)
DeleteCol(b, col, to) ==
    LET rest == Without(b.cols, col)
        moved(card) == [card EXCEPT !.col = IF to = 0 THEN rest[1] ELSE to,
                                    !.arch = card.arch \/ to = 0]
        b2 == [b EXCEPT !.cols = rest,
                        !.cards = [n \in CardIds |->
                            IF n \in HeldBy(b, col) THEN moved(@[n]) ELSE @[n]]]
    IN  IF ~Deletable(b, col, to) THEN Refused(b)
        ELSE Done(b2, Tell(b, {n \in HeldBy(b, col) : ~b.cards[n].arch}, Nobody))

---------------------------------------------------------------------------
(* Column proposals.  A change names a column by its id, or as the one the *)
(* same proposal adds (ColRef::New).                                       *)

New == MaxCols + 1

Resolve(ref, added) == IF ref = New THEN added ELSE ref

(* Board::apply_change on the outcome `r' of the changes before it.        *)
ApplyChange(r, ch) ==
    LET col == Resolve(ch.col, r.added)
        to == Resolve(ch.to, r.added)
        grown == AddCol(r.b)
        gone == {col, to} \ (Cols(r.b) \cup {0}) # {}
        s == CASE ch.op = "add" /\ (to = 0 \/ ~grown.ok) -> grown
               [] ch.op = "add" /\ to # 0 /\ grown.ok -> MoveCol(grown.b, grown.b.madeCols, to)
               [] ch.op = "move" -> MoveCol(r.b, col, to)
               [] ch.op = "delete" -> DeleteCol(r.b, col, to)
    IN  IF ~r.ok \/ gone \/ ~s.ok
        THEN [r EXCEPT !.ok = FALSE]
        ELSE [ok |-> TRUE, b |-> s.b, news |-> And(r.news, s.news),
              added |-> IF ch.op = "add" THEN s.b.madeCols ELSE r.added]

ApplyAll(b, changes) ==
    LET after[i \in 0..Len(changes)] ==
            IF i = 0 THEN [ok |-> TRUE, b |-> b, news |-> Nothing, added |-> 0]
            ELSE ApplyChange(after[i - 1], changes[i])
    IN  after[Len(changes)]

(* Board::decide: all the changes on a copy, or none.                      *)
Decided(b, changes) ==
    LET r == ApplyAll(b, changes)
    IN  IF r.ok THEN Done(r.b, r.news) ELSE Refused(b)

---------------------------------------------------------------------------
(* The outbox.  Its folded form: for each card the first `base'.           *)

(* Outbox::push after Board::stamp: `b' is the board before the edit.      *)
Pushed(q, news, said, b) ==
    [c \in BoardClaudes |-> [n \in CardIds |->
        IF n \in news[c]
        THEN [on |-> TRUE,
              base |-> IF q[c][n].on THEN q[c][n].base ELSE b.cards[n],
              said |-> q[c][n].said \/ said]
        ELSE q[c][n]]]

(* The comment as it reads now: a deleted one is no change.                *)
Comments(e, card) == e.said /\ card.say \notin {Silent, Removed}

(* net(): the card against its baseline, for claude c.                     *)
Fresh(e) == e.base.col = 0
Gone(card) == card.col = 0
Was(c, e) == e.base.owner = c /\ ~Fresh(e)
Is(c, card) == card.owner = c /\ ~Gone(card)

Concerns(c, e, card) ==
    /\ e.on
    /\ ~(Fresh(e) /\ Gone(card))
    /\ ~(~Fresh(e) /\ ~Was(c, e) /\ ~Is(c, card))

Differs(e, card) ==
    \/ card.col # e.base.col \/ card.txt # e.base.txt \/ card.arch # e.base.arch

(* Net::any.                                                               *)
Real(c, e, card) ==
    /\ Concerns(c, e, card)
    /\ \/ Gone(card) \/ Fresh(e)
       \/ Was(c, e) # Is(c, card)
       \/ Differs(e, card)
       \/ Comments(e, card)

(* Outbox::pending: the claudes UPDATE is offered for.                     *)
PendingFor(c) == {n \in CardIds : Real(c, waiting[c][n], board.cards[n])}

(* What render() leaves claude c knowing of a card, from what it knew.     *)
Read(c, e, card, knew) ==
    IF ~Real(c, e, card) THEN knew
    ELSE IF ~Is(c, card) THEN [knew EXCEPT !.on = FALSE]
    ELSE LET handed == Fresh(e) \/ ~Was(c, e)
         IN  [on |-> IF card.arch # e.base.arch THEN ~card.arch ELSE handed \/ knew.on,
              col |-> IF handed \/ card.col # e.base.col THEN card.col ELSE knew.col,
              txt |-> IF handed \/ card.txt # e.base.txt THEN card.txt ELSE knew.txt]

(* Board::claude_view, the answer to every hub_board call: the claude's    *)
(* active cards (the short form of a long or finished card is left out).   *)
Shown(c, b, knew) ==
    [n \in CardIds |->
        LET card == b.cards[n] IN
        IF Is(c, card) /\ ~card.arch
        THEN [on |-> TRUE, col |-> card.col, txt |-> card.txt]
        ELSE [knew[n] EXCEPT !.on = FALSE]]

Queued(c) == {n \in CardIds : waiting[c][n].on \/ sending[c][n].on}

---------------------------------------------------------------------------
BoardTypeOK ==
    /\ Cols(board) \subseteq ColIds /\ board.madeCols \in ColIds
    /\ board.cols # <<>> /\ IsInjective(board.cols)
    /\ board.made \in 0..MaxCards
    /\ \A n \in CardIds :
          /\ board.cards[n].owner \in BoardClaudes \cup {Nobody}
          /\ board.cards[n].say \in Says
          /\ n > board.made => board.cards[n] = NoCard
    /\ \A c \in BoardClaudes : \A n \in CardIds : n > board.made => n \notin Queued(c)
    /\ rows \subseteq BoardClaudes

BoardInit ==
    /\ board = [cols |-> <<1, 2>>, cards |-> [n \in CardIds |-> NoCard],
                made |-> 0, madeCols |-> 2]
    /\ proposals = {}
    /\ waiting = [c \in BoardClaudes |-> [n \in CardIds |-> NoNews]]
    /\ sending = waiting
    /\ rows = BoardClaudes
    /\ view = [c \in BoardClaudes |-> [n \in CardIds |-> Unknown]]
    /\ heard = [n \in CardIds |-> Silent]
    /\ cutoff = {} /\ edits = 0 /\ kills = 0

Pairs(news) == {p \in BoardClaudes \X CardIds : p[2] \in news[p[1]]}

(* An archived card changes its column without a word to its claude, and   *)
(* is handed over as if it were a card to work on.                         *)
Silently(b) ==
    {<<b.cards[n].owner, n>> : n \in {m \in Present(b) :
        /\ b.cards[m].owner # Nobody /\ b.cards[m].arch
        /\ \/ b.cards[m].col # board.cards[m].col
           \/ b.cards[m].owner # board.cards[m].owner}}

(* BoardStore::mutate saves the board with the queues as they were, and    *)
(* only then are the edit's events pushed and saved: an app killed between *)
(* the two starts again with the edit and without its events.              *)
Saved(r, said, user, looked) ==
    /\ r.ok /\ edits < MaxEdits /\ edits' = edits + 1
    /\ board' = r.b
    /\ \/ /\ waiting' = IF user THEN Pushed(waiting, r.news, said, board) ELSE waiting
          /\ sending' = IF user THEN sending ELSE Pushed(sending, r.news, said, board)
          /\ cutoff' = cutoff \cup looked \cup Silently(r.b)
          /\ UNCHANGED kills
       \/ /\ kills < MaxKills /\ kills' = kills + 1
          /\ r.news # Nothing
          /\ cutoff' = cutoff \cup looked \cup Silently(r.b) \cup Pairs(r.news)
          /\ UNCHANGED <<waiting, sending>>
    /\ UNCHANGED <<rows, heard>>

(* A claude's hub_board call (the board is on): it knows the cards `touched', *)
(* and the answer shows it the others it has.                              *)
ClaudeDoes(c, r, said, touched) ==
    /\ c \in rows
    /\ Saved(r, said, FALSE, {<<c, n>> : n \in Queued(c)})
    /\ view' = [view EXCEPT ![c] = Shown(c, r.b, [n \in CardIds |->
          IF n = touched THEN [on |-> FALSE, col |-> r.b.cards[n].col, txt |-> r.b.cards[n].txt]
          ELSE @[n]])]

ClaudeAdds(c, owner, col) ==
    /\ ClaudeDoes(c, AddCard(board, owner, col, 1, c), FALSE, board.made + 1)
    /\ UNCHANGED proposals

ClaudeEdits(c, n) ==
    /\ \E txt \in Texts : ClaudeDoes(c, EditCard(board, n, txt, c), FALSE, n)
    /\ UNCHANGED proposals

ClaudeAssigns(c, n, owner) ==
    /\ board.cards[n].owner # owner
    /\ ClaudeDoes(c, AssignCard(board, n, owner, c), FALSE, n)
    /\ UNCHANGED proposals

ClaudeMoves(c, n, col) ==
    /\ ClaudeDoes(c, MoveCard(board, n, col, c), FALSE, n)
    /\ UNCHANGED proposals

ClaudeComments(c, n) ==
    /\ ClaudeDoes(c, SayOn(board, n, ByClaude, c), TRUE, n)
    /\ UNCHANGED proposals

ClaudeArchives(c, n) ==
    /\ ClaudeDoes(c, ArchiveCards(board, {n}, TRUE, c), FALSE, n)
    /\ UNCHANGED proposals

ClaudeLists(c) ==
    /\ c \in rows
    /\ view' = [view EXCEPT ![c] = Shown(c, board, @)]
    /\ cutoff' = cutoff \cup {<<c, n>> : n \in Queued(c)}
    /\ UNCHANGED <<board, proposals, waiting, sending, rows, heard, edits, kills>>

(* Board::propose: valid on a copy as the board is now, then queued.       *)
Proposes(c, changes) ==
    /\ c \in rows
    /\ proposals = {}
    /\ ApplyAll(board, changes).ok
    /\ proposals' = {changes}
    /\ view' = [view EXCEPT ![c] = Shown(c, board, @)]
    /\ cutoff' = cutoff \cup {<<c, n>> : n \in Queued(c)}
    /\ UNCHANGED <<board, waiting, sending, rows, heard, edits, kills>>

(* The user's edits (Core::board_edit).                                    *)
UserDoes(r, said) ==
    /\ Saved(r, said, TRUE, {})
    /\ UNCHANGED <<view, proposals>>

UserAdds(owner, col) == UserDoes(AddCard(board, owner, col, 1, Nobody), FALSE)

UserEdits(n) ==
    \E txt \in Texts \ {board.cards[n].txt} :
        UserDoes(EditCard(board, n, txt, Nobody), FALSE)

UserAssigns(n, owner) ==
    /\ board.cards[n].owner # owner
    /\ UserDoes(AssignCard(board, n, owner, Nobody), FALSE)

UserMoves(n, col) == UserDoes(MoveCard(board, n, col, Nobody), FALSE)

UserComments(n) == \E say \in Texts : UserDoes(SayOn(board, n, say, Nobody), TRUE)

(* Outbox::unsent_comments: the comments still waiting for UPDATE.         *)
Unsent(n) ==
    /\ board.cards[n].say \in Texts
    /\ \E c \in BoardClaudes : waiting[c][n].said

CommentEdits(n) ==
    /\ Unsent(n)
    /\ \E say \in ({Removed} \cup Texts) \ {board.cards[n].say} :
          UserDoes(Done([board EXCEPT !.cards[n].say = say], Nothing), FALSE)

UserArchives(n, flag) == UserDoes(ArchiveCards(board, {n}, flag, Nobody), FALSE)

ArchivesColumn(col) ==
    UserDoes(ArchiveCards(board, {n \in CardIds : board.cards[n].col = col}, TRUE, Nobody),
             FALSE)

UserDeletes(n) == UserDoes(DeleteCard(board, n), FALSE)

ColAdds == UserDoes(AddCol(board), FALSE)

ColMoves(col, before) == UserDoes(MoveCol(board, col, before), FALSE)

ColDeletes(col, to) == UserDoes(DeleteCol(board, col, to), FALSE)

(* The proposer is told the answer at once; the cards' events wait.        *)
Approves ==
    \E p \in proposals :
        LET r == Decided(board, p) IN
        /\ Saved(r, FALSE, TRUE, {})
        /\ proposals' = proposals \ {p}
        /\ UNCHANGED view

Rejects ==
    /\ proposals # {}
    /\ proposals' = {}
    /\ UNCHANGED <<board, waiting, sending, rows, view, heard, cutoff, edits, kills>>

(* Released changes go behind those already in `sending', so the baseline  *)
(* of a card in both is the one of `sending', even if the waiting one is   *)
(* older.                                                                  *)
Released(s, w) ==
    IF ~w.on THEN s ELSE IF ~s.on THEN w ELSE [s EXCEPT !.said = @ \/ w.said]

(* UPDATE for claude c (Core::board_update, Outbox::release).  A claude    *)
(* that is not running keeps its changes, and hears later.                 *)
Update(c) ==
    /\ c \in rows
    /\ PendingFor(c) # {}
    /\ sending' = [sending EXCEPT ![c] = [n \in CardIds |-> Released(@[n], waiting[c][n])]]
    /\ waiting' = [waiting EXCEPT ![c] = [n \in CardIds |-> NoNews]]
    /\ cutoff' = cutoff \cup {<<c, n>> : n \in {m \in CardIds :
                                   waiting[c][m].on /\ sending[c][m].on}}
    /\ UNCHANGED <<board, proposals, rows, view, heard, edits, kills>>

(* Core::drain_board_outbox for one claude that can hear it: Outbox::take  *)
(* renders the released changes against the board as it is now.  The queue *)
(* is saved empty before the message is written: killed between, the       *)
(* message is lost.                                                        *)
Delivers(c) ==
    LET due == {n \in CardIds : sending[c][n].on} IN
    /\ c \in rows
    /\ due # {}
    /\ sending' = [sending EXCEPT ![c] = [n \in CardIds |-> NoNews]]
    /\ \/ /\ view' = [view EXCEPT ![c] = [n \in CardIds |->
                Read(c, sending[c][n], board.cards[n], @[n])]]
          /\ heard' = [n \in CardIds |->
                IF Is(c, board.cards[n]) /\ Concerns(c, sending[c][n], board.cards[n])
                   /\ Comments(sending[c][n], board.cards[n])
                THEN board.cards[n].say ELSE heard[n]]
          /\ cutoff' = cutoff \cup {<<c, n>> : n \in {m \in due : waiting[c][m].on}}
          /\ UNCHANGED kills
       \/ /\ kills < MaxKills /\ kills' = kills + 1
          /\ cutoff' = cutoff \cup {<<c, n>> : n \in due}
          /\ UNCHANGED <<view, heard>>
    /\ UNCHANGED <<board, proposals, waiting, rows, edits>>

(* A row that goes for good takes its queues with it.                      *)
RowCloses(c) ==
    /\ c \in rows
    /\ rows' = rows \ {c}
    /\ waiting' = [waiting EXCEPT ![c] = [n \in CardIds |-> NoNews]]
    /\ sending' = [sending EXCEPT ![c] = [n \in CardIds |-> NoNews]]
    /\ UNCHANGED <<board, proposals, view, heard, cutoff, edits, kills>>

Owners == BoardClaudes \cup {Nobody}
(* The proposals tried: a column's cards go to another one, to one the same *)
(* proposal adds in front, or to the archive.                              *)
Change(op, col, to) == [op |-> op, col |-> col, to |-> to]
Proposals ==
    {<<Change("delete", 1, to)>> : to \in {0, 2}}
    \cup {<<Change("add", 0, 1), Change("delete", 2, New)>>}

BoardNext ==
    \/ Approves \/ Rejects \/ ColAdds
    \/ \E owner \in Owners, col \in ColIds : UserAdds(owner, col)
    \/ \E col \in ColIds : ArchivesColumn(col)
    \/ \E col \in ColIds : ColMoves(col, 0)
    \/ \E col \in ColIds, to \in ColIds \cup {0} : ColDeletes(col, to)
    \/ \E n \in Present(board) :
          \/ UserEdits(n) \/ UserComments(n) \/ CommentEdits(n) \/ UserDeletes(n)
          \/ \E owner \in Owners : UserAssigns(n, owner)
          \/ \E col \in ColIds : UserMoves(n, col)
          \/ \E flag \in BOOLEAN : UserArchives(n, flag)
    \/ \E c \in BoardClaudes :
          \/ ClaudeLists(c) \/ Update(c) \/ Delivers(c)
          \/ RowCloses(c)
          \/ \E p \in Proposals : Proposes(c, p)
          \/ \E owner \in Owners, col \in ColIds : ClaudeAdds(c, owner, col)
          \/ \E n \in Present(board) :
                \/ ClaudeEdits(c, n) \/ ClaudeComments(c, n) \/ ClaudeArchives(c, n)
                \/ \E owner \in Owners : ClaudeAssigns(c, n, owner)
                \/ \E col \in ColIds : ClaudeMoves(c, n, col)

BoardSpec == BoardInit /\ [][BoardNext]_boardVars

---------------------------------------------------------------------------
(* Every card is in a column of the board, the archived ones too, whatever *)
(* columns the user or an approved proposal deletes, and a proposal that   *)
(* no longer fits changes nothing.                                         *)
CardsKeepAColumn ==
    \A n \in Present(board) : board.cards[n].col \in Cols(board)

(* A comment that was told to a claude reads on the board as it was told,  *)
(* as long as the card is there: the panel's Edit and Delete end with      *)
(* UPDATE (board_edit's check of unsent_comments).                         *)
ToldCommentStands ==
    \A n \in Present(board) :
        heard[n] # Silent => board.cards[n].say = heard[n]

(* Claude c does not know how its card n stands: it works on a card that   *)
(* is not its own any more, or in another column or with other content.    *)
Stale(c, n) ==
    LET card == board.cards[n]
        mine == Is(c, card) /\ ~card.arch
        v == view[c][n]
    IN  \/ v.on # mine
        \/ mine /\ (v.col # card.col \/ v.txt # card.txt)

Waits(c, n) ==
    \/ Real(c, waiting[c][n], board.cards[n])
    \/ Real(c, sending[c][n], board.cards[n])

(* A change nobody told a claude with a row is pending: UPDATE is offered  *)
(* for it or it is on its way, unless the baseline was cut off from what   *)
(* the claude knows (`cutoff').                                            *)
NewsIsPending ==
    \A c \in rows, n \in CardIds :
        Stale(c, n) /\ <<c, n>> \notin cutoff => Waits(c, n)

\* The board and what its claudes were told of it agree: every card has a column, a told
\* comment stands, and a change nobody told waits to be told (board.rs, Outbox).
BoardInv == BoardTypeOK /\ CardsKeepAColumn /\ ToldCommentStands /\ NewsIsPending
=============================================================================
