----------------------------- MODULE Addresses -----------------------------
(***************************************************************************)
(* The addresses of the hub across projects (registry.rs, and hub_send,    *)
(* sender_label and bounce_dead_inbox where they use it): what a word in   *)
(* "to" names, where an answer to a message goes, and where a message      *)
(* nobody read is returned to. What happens to a message between two rows  *)
(* of one project is HubMail's.                                            *)
(***************************************************************************)
EXTENDS Naturals, Sequences, FiniteSets

CONSTANTS
    Dirs,       \* the project directories, as sequences of path components
    Lower,      \* a component or a sidebar name |-> its lower case
    Labels,     \* the sidebar names
    MaxOpens,   \* bound: how often a project is opened
    MaxRows,    \* bound: the rows of one project
    MaxSends    \* bound: the messages

ASSUME AddressesAssumption ==
    /\ IsFiniteSet(Dirs) /\ Dirs \subseteq Seq(DOMAIN Lower) \ {<<>>}
    /\ Lower["claude"] = "claude" /\ Labels \subseteq DOMAIN Lower /\ {MaxOpens, MaxRows, MaxSends} \subseteq Nat

VARIABLES
    open,       \* dir |-> its Core: handle (0 when closed), rows begun, rows |-> names
    registry,   \* registry.json: the entries of the last tick
    letters,    \* the messages nobody read yet
    strays,     \* the answers that reached another row than the sender
    returned,   \* the bounces
    opens, sends
addressVars == <<open, registry, letters, strays, returned, opens, sends>>

NoLabel == "no name"
ProjectClosed == [handle |-> 0, begun |-> 0, rows |-> <<>>]
AddressesInit ==
    /\ open = [d \in Dirs |-> ProjectClosed] /\ registry = {} /\ letters = {}
    /\ strays = {} /\ returned = {} /\ opens = 0 /\ sends = 0

-----------------------------------------------------------------------------
(* registry.rs                                                              *)

\* A path as it is written: from the root, or a tail. components drops the difference.
Path(c) == [abs |-> FALSE, path |-> c]
FullPath(c) == [abs |-> TRUE, path |-> c]

TailOf(d, n) == SubSeq(d, Len(d) - n + 1, Len(d))
SameComponents(a, b) == Len(a) = Len(b) /\ \A k \in DOMAIN a : Lower[a[k]] = Lower[b[k]]

\* ends_with_components
EndsWith(d, want) == want # <<>> /\ Len(want) <= Len(d) /\ SameComponents(TailOf(d, Len(want)), want)

\* resolve: the candidates; more than one is refused, as none is.
Candidates(reg, q) ==
    LET exact == {p \in reg : q.abs /\ p.dir = q.path}
    IN  IF exact # {} THEN exact ELSE {p \in reg : EndsWith(p.dir, q.path)}

\* Mutant: two projects of that name are settled by taking one.
Resolved_First(reg, q) == IF Candidates(reg, q) = {} THEN {} ELSE {CHOOSE p \in Candidates(reg, q) : TRUE}

Resolved(reg, q) == IF Cardinality(Candidates(reg, q)) = 1 THEN Candidates(reg, q) ELSE {}

\* disambiguating_suffix: the shortest tail only the first candidate has, or its full path.
Suggestion(paths, first) ==
    LET enough == {n \in 1 .. Len(first) : Cardinality({p \in paths : EndsWith(p, TailOf(first, n))}) = 1}
    IN  IF enough = {} THEN FullPath(first)
        ELSE Path(TailOf(first, CHOOSE n \in enough : \A m \in enough : n <= m))

-----------------------------------------------------------------------------
(* Where a message goes.                                                    *)

OneWord(q) == ~q.abs /\ Len(q.path) = 1
KindWord(q) == OneWord(q) /\ Lower[q.path[1]] \in {"claude", "codex"}
TerminalWord(q) == OneWord(q) /\ Lower[q.path[1]] \in {"term", "terminal"}
Row(handle, id) == [handle |-> handle, id |-> id]

\* hub_send to a row of my own project: live_ids.
LocalRow(d, id) == IF id \in DOMAIN open[d].rows THEN {Row(open[d].handle, id)} ELSE {}

\* send_foreign: my own project by its name is a local send.
ForeignRow(d, q, id) ==
    UNION {IF p.dir = d THEN LocalRow(d, id)
           ELSE IF id \in DOMAIN p.rows THEN {Row(p.handle, id)} ELSE {} : p \in Resolved(registry, q)}

\* parse_address: the kind words come before any project.
ReachedAt(d, q, id) ==
    CASE KindWord(q) -> LocalRow(d, id)
      [] TerminalWord(q) -> {}
      [] OTHER -> ForeignRow(d, q, id)

\* resolve_name: a live row of my project that was published under that name, if it is one.
ByName(d, label) ==
    LET hits == {i \in DOMAIN open[d].rows :
                    \E p \in registry : p.dir = d /\ i \in DOMAIN p.rows /\ Lower[p.rows[i]] = Lower[label]}
    IN  IF Cardinality(hits) = 1 THEN {Row(open[d].handle, i) : i \in hits} ELSE {}

DirOf(handle) == {d \in Dirs : open[d].handle = handle /\ handle # 0}

\* sender_label: what the message says an answer goes to. A neighbour is "claude#n".
LabelFor(d, row) == IF DirOf(row.handle) = {d} THEN Path(<<"claude">>) ELSE Path(TailOf(d, 1))

Letter(d, i, row) == [from |-> Row(open[d].handle, i), dir |-> d, to |-> row, back |-> LabelFor(d, row)]

-----------------------------------------------------------------------------
\* A project that was closed is not opened again before the next tick.
Open(d) ==
    /\ open[d] = ProjectClosed /\ (\A p \in registry : p.dir # d) /\ opens < MaxOpens /\ opens' = opens + 1
    /\ open' = [open EXCEPT ![d].handle = opens + 1]
    /\ UNCHANGED <<registry, letters, strays, returned, sends>>

\* With its state dir and every inbox in it.
Close(d) ==
    /\ open[d] # ProjectClosed /\ open' = [open EXCEPT ![d] = ProjectClosed]
    /\ letters' = {l \in letters : l.to.handle # open[d].handle}
    /\ UNCHANGED <<registry, strays, returned, opens, sends>>

RowStarts(d) ==
    /\ open[d] # ProjectClosed /\ open[d].begun < MaxRows
    /\ LET i == open[d].begun + 1
       IN  open' = [open EXCEPT ![d].begun = i,
                                ![d].rows = [k \in DOMAIN @ \cup {i} |-> IF k = i THEN NoLabel ELSE @[k]]]
    /\ UNCHANGED <<registry, letters, strays, returned, opens, sends>>

RowIsNamed(d, i, label) ==
    /\ i \in DOMAIN open[d].rows /\ open' = [open EXCEPT ![d].rows[i] = label]
    /\ UNCHANGED <<registry, letters, strays, returned, opens, sends>>

\* bounce_dead_inbox: to the project the message came from, if it still has that row.
BouncedTo(d, l) ==
    IF l.dir = d THEN {<<d, r>> : r \in LocalRow(d, l.from.id) \ {l.to}}
    ELSE {<<p.dir, Row(p.handle, l.from.id)>> : p \in {p \in registry : p.dir = l.dir /\ l.from.id \in DOMAIN p.rows}}

\* reap: the mail of the row that went is returned.
RowEnds(d, i) ==
    /\ i \in DOMAIN open[d].rows
    /\ open' = [open EXCEPT ![d].rows = [k \in DOMAIN @ \ {i} |-> @[k]]]
    /\ LET unread == {l \in letters : l.to = Row(open[d].handle, i)}
       IN  /\ letters' = letters \ unread
           /\ returned' = returned \cup UNION {{[to |-> b[2], at |-> b[1], of |-> l.from, dir |-> l.dir] :
                                                   b \in BouncedTo(d, l)} : l \in unread}
    /\ UNCHANGED <<registry, strays, opens, sends>>

Entry(d) == [dir |-> d, handle |-> open[d].handle, rows |-> open[d].rows]

Published == {Entry(d) : d \in {d \in Dirs : open[d] # ProjectClosed}}

\* The poll loop: every open project, written when it changed.
TickPublishes ==
    /\ registry' = Published
    /\ registry' # registry
    /\ UNCHANGED <<open, letters, strays, returned, opens, sends>>

\* A row sends: to a number of a project, however it writes it, or to a name of its own.
Qualifiers == {FullPath(d) : d \in Dirs} \cup UNION {{Path(TailOf(d, n)) : n \in 1 .. Len(d)} : d \in Dirs}
Sends(d, i, reached) ==
    /\ i \in DOMAIN open[d].rows /\ sends < MaxSends /\ sends' = sends + 1
    /\ reached # {} /\ letters' = letters \cup {Letter(d, i, r) : r \in reached}
    /\ UNCHANGED <<open, registry, strays, returned, opens>>
SendsTo(d, i) == \E q \in Qualifiers, id \in 1 .. MaxRows : Sends(d, i, ReachedAt(d, q, id))
SendsByName(d, i) == \E label \in Labels : Sends(d, i, ByName(d, label) \ {Row(open[d].handle, i)})

\* The project directory of the inbox an answer is put in.
HomeOf(d, r) == IF r.handle = open[d].handle THEN {d} ELSE {p.dir : p \in {p \in registry : p.handle = r.handle}}

\* A row reads a message and answers at the address it says.
Answers(d, l) ==
    /\ l \in letters /\ l.to.handle = open[d].handle /\ l.to.id \in DOMAIN open[d].rows
    /\ letters' = letters \ {l}
    /\ strays' = strays \cup {[at |-> l.back, known |-> \E p \in registry : p.dir = l.dir, home |-> HomeOf(d, r) = {l.dir}] :
                              r \in ReachedAt(d, l.back, l.from.id) \ {l.from}}
    /\ UNCHANGED <<open, registry, returned, opens, sends>>

AddressesNext ==
    \/ \E d \in Dirs : Open(d) \/ Close(d) \/ RowStarts(d)
    \/ \E d \in Dirs, i \in 1 .. MaxRows :
          RowEnds(d, i) \/ SendsTo(d, i) \/ SendsByName(d, i) \/ \E b \in Labels : RowIsNamed(d, i, b)
    \/ TickPublishes
    \/ \E d \in Dirs, l \in letters : Answers(d, l)

AddressesSpec == AddressesInit /\ [][AddressesNext]_addressVars

-----------------------------------------------------------------------------
\* Every variable keeps its type, a message lies in an open project's inbox or was sent to
\* one the registry still named, and two open projects are two Cores.
AddressesTypeOK ==
    /\ \A d, e \in Dirs : open[d].handle = open[e].handle /\ open[d] # ProjectClosed => d = e
    /\ \A d \in Dirs : DOMAIN open[d].rows \subseteq 1 .. open[d].begun
    /\ \A p, q \in registry : p.dir = q.dir => p = q
    /\ \A l \in letters : l.from # l.to => l.to.handle \in 1 .. opens /\ l.dir \in Dirs
    /\ opens \in 0 .. MaxOpens /\ sends \in 0 .. MaxSends

\* registry.rs "so the ambiguity error can suggest something that actually works": whatever
\* is open, and whichever candidate is the first, what the error suggests is that one.
SuggestionWorks ==
    \A q \in Qualifiers : Cardinality(Candidates(registry, q)) > 1 =>
        \A p \in Candidates(registry, q) :
            LET s == Suggestion({c.dir : c \in Candidates(registry, q)}, p.dir)
            IN  ~KindWord(s) /\ Resolved(registry, s) = {p}

\* registry.rs "sending a message to the wrong repository is a wrong answer": an answer
\* stays in the project directory it was sent from, as long as that project is open and is
\* not called "claude".
AnswersComeHome ==
    \A s \in strays : s.home \/ ~s.known \/ KindWord(s.at)

\* state.rs bounce_dead_inbox "mis-delivery, not a dropped message": what was not read is
\* returned to the number that sent it, in the project directory it was sent from.
BouncesComeHome ==
    \A b \in returned : b.to.id = b.of.id /\ b.at = b.dir

\* Addresses of other projects: a suggested address resolves, and answers and bounces come
\* home to the project the question was sent from (registry.rs, resolve_address).
AddressesInv == AddressesTypeOK /\ SuggestionWorks /\ AnswersComeHome /\ BouncesComeHome
=============================================================================
