----------------------------- MODULE ValidateDocs -----------------------------
(***************************************************************************)
(* scripts/validate_docs.py: the validator of the project's documents.  A  *)
(* run reads every document under the folder, checks each of them, the     *)
(* references between them and the tickets' depends_on graph, and exits    *)
(* with 0 (clean) or 1 (errors found).                                     *)
(*                                                                         *)
(* A document is what parse_frontmatter and strip_code leave of a file:    *)
(* its id, the id its file name starts with, whether its fields pass the   *)
(* checks that look at nothing else (required, status, version), and what  *)
(* it cites.  The loops over documents are one step each, since their      *)
(* iterations do not depend on each other except for ticket_deps, where    *)
(* the last document of an id wins.  The search for a cycle is modelled    *)
(* call by call: stack is both the list it passes along and the recursion, *)
(* todo[n] the dependencies the frame of n has still to look at, in any    *)
(* order the front matter may list them.                                   *)
(***************************************************************************)
EXTENDS Naturals, Sequences

CONSTANTS
    Tickets,     \* ids with the prefix TKT
    Artefacts,   \* ids of the other types that must exist when cited: PRD, ADR...
    Unchecked,   \* ids of the types that need not exist: RV-CODE, BACKLOG, Q...
    Unlisted,    \* ids whose prefix ARTEFACTS does not list: Q-TKT
    NoId,        \* no id in the front matter, or in the file name
    Folders      \* the folders to validate: sequences of documents by path

Ids == Tickets \cup Artefacts \cup Unchecked \cup Unlisted

\* EXISTENCE_CHECKED
Checked == Tickets \cup Artefacts

\* A mention of an artefact, pinned when `@X.Y.Z` follows.
Citation == [ref : Ids, pinned : BOOLEAN]

\* What it cites: in depends_on, in the other reference fields, in its prose.
Document == [id     : Ids \cup {NoId},
             name   : Ids \cup {NoId},
             sound  : BOOLEAN,
             deps   : SUBSET Citation,
             fields : SUBSET Citation,
             prose  : SUBSET Citation]

\* A folder holds finitely many documents; the prefix of an id is one.
ASSUME FoldersAssumption ==
    /\ Folders \subseteq Seq(Document)
    /\ NoId \notin Ids
    /\ Tickets \cap Unlisted = {}

VARIABLES
    folder,      \* the documents found
    phase,       \* the part of main() that runs next, or the way it ended
    known,       \* known_ids
    errors,      \* the kinds of the errors found so far
    ticketDeps,  \* ticket_deps
    color,       \* detect_cycle: 0 unvisited, 1 in the stack, 2 done
    stack,
    todo,
    cycle        \* what detect_cycle returns, <<>> for None

vars == <<folder, phase, known, errors, ticketDeps, color, stack, todo, cycle>>
search == <<color, stack, todo, cycle>>

Phases == {"collect", "check", "cite", "depend", "dag", "report", "ok", "failed"}
Kinds == {"no id", "fields", "name", "unpinned", "dangling", "missing", "cycle"}

Nodes == DOMAIN ticketDeps

\* Everything holds values of its own kind.
TypeOK ==
    /\ folder \in Seq(Document)
    /\ phase \in Phases
    /\ known \subseteq Ids
    /\ errors \subseteq Kinds
    /\ Nodes \subseteq Tickets
    /\ ticketDeps \in [Nodes -> SUBSET Ids]
    /\ color \in [Nodes -> 0..2]
    /\ stack \in Seq(Nodes)
    /\ todo \in [Nodes -> SUBSET Ids]
    /\ cycle \in Seq(Nodes)

-------------------------------------------------------------------------------
\* The documents that have an id, the only ones looked at after the first loop.
Parsed == {k \in DOMAIN folder : folder[k].id # NoId}

Cited(k) == folder[k].deps \cup folder[k].fields \cup folder[k].prose

Refs(citations) == {c.ref : c \in citations}

Failing(kind, failing) == IF failing THEN {kind} ELSE {}

\* Mutant: the id is recorded before it is known to be there.
CollectEverything ==
    /\ phase = "collect"
    /\ known' = {folder[k].id : k \in DOMAIN folder}
    /\ errors' = errors \cup Failing("no id",
           \E k \in DOMAIN folder \ Parsed : folder[k].name # NoId)
    /\ phase' = "check"
    /\ UNCHANGED <<folder, ticketDeps, search>>

Collect ==
    /\ phase = "collect"
    /\ known' = {folder[k].id : k \in Parsed}
    /\ errors' = errors \cup Failing("no id",
           \E k \in DOMAIN folder \ Parsed : folder[k].name # NoId)
    /\ phase' = "check"
    /\ UNCHANGED <<folder, ticketDeps, search>>

\* The document whose depends_on stays in ticket_deps: the last with the id.
LastOf(t) == {k \in Parsed : /\ folder[k].id = t
                             /\ \A j \in Parsed : j > k => folder[j].id # t}

DependsOn(t) == Refs(UNION {folder[k].deps : k \in LastOf(t)})

\* Each document alone; ids of an unlisted type are only warned about.
Check ==
    /\ phase = "check"
    /\ LET listed == {k \in Parsed : folder[k].id \notin Unlisted}
           others(k) == {c \in Cited(k) : c.ref \in Checked /\ c.ref # folder[k].id}
           tickets == {folder[k].id : k \in listed} \cap Tickets
       IN  /\ errors' = errors
                \cup Failing("fields", \E k \in listed : ~folder[k].sound)
                \cup Failing("name", \E k \in listed : folder[k].name # folder[k].id)
                \cup Failing("unpinned",
                       \E k \in listed : \E c \in others(k) : ~c.pinned)
           /\ ticketDeps' = [t \in tickets |-> DependsOn(t)]
           /\ color' = [t \in tickets |-> 0]
           /\ todo' = [t \in tickets |-> {}]
    /\ phase' = "cite"
    /\ UNCHANGED <<folder, known, stack, cycle>>

Dangling(k) == {c \in folder[k].prose : c.ref \in Checked \ (known \cup {folder[k].id})}

Cite ==
    /\ phase = "cite"
    /\ errors' = errors \cup Failing("dangling", \E k \in Parsed : Dangling(k) # {})
    /\ phase' = "depend"
    /\ UNCHANGED <<folder, known, ticketDeps, search>>

\* Mutant: a dependency that is no ticket is left to the check of the prose.
DependOnTickets ==
    /\ phase = "depend"
    /\ errors' = errors \cup Failing("missing",
           \E t \in Nodes : ~(ticketDeps[t] \cap Nodes \subseteq known))
    /\ phase' = "dag"
    /\ UNCHANGED <<folder, known, ticketDeps, search>>

Depend ==
    /\ phase = "depend"
    /\ errors' = errors \cup Failing("missing", \E t \in Nodes : ~(ticketDeps[t] \subseteq known))
    /\ phase' = "dag"
    /\ UNCHANGED <<folder, known, ticketDeps, search>>

-------------------------------------------------------------------------------
\* detect_cycle
Top == stack[Len(stack)]

\* The call dfs(n, stack), made by the loop over tickets or by the caller's frame.
Call(n) ==
    /\ color[n] = 0
    /\ color' = [color EXCEPT ![n] = 1]
    /\ stack' = Append(stack, n)

Root(n) ==
    /\ phase = "dag"
    /\ stack = <<>>
    /\ Call(n)
    /\ todo' = [todo EXCEPT ![n] = ticketDeps[n]]
    /\ UNCHANGED <<folder, phase, known, errors, ticketDeps, cycle>>

\* The frame on top takes its next dependency.
Takes(d) ==
    /\ phase = "dag"
    /\ stack # <<>>
    /\ d \in todo[Top]

Descend(d) ==
    /\ Takes(d)
    /\ d \in Nodes
    /\ Call(d)
    /\ todo' = [todo EXCEPT ![Top] = @ \ {d}, ![d] = ticketDeps[d]]
    /\ UNCHANGED <<folder, phase, known, errors, ticketDeps, cycle>>

\* Mutant: a node seen before is not looked at, in the stack or not.
PassOverSeen(d) ==
    /\ Takes(d)
    /\ d \in Nodes => color[d] # 0
    /\ todo' = [todo EXCEPT ![Top] = @ \ {d}]
    /\ UNCHANGED <<folder, phase, known, errors, ticketDeps, color, stack, cycle>>

PassOver(d) ==
    /\ Takes(d)
    /\ d \in Nodes => color[d] = 2
    /\ todo' = [todo EXCEPT ![Top] = @ \ {d}]
    /\ UNCHANGED <<folder, phase, known, errors, ticketDeps, color, stack, cycle>>

IndexOf(d) == CHOOSE k \in DOMAIN stack : stack[k] = d

\* Mutant: the path to the cycle is reported with it.
FoundFromRoot(d) ==
    /\ Takes(d)
    /\ d \in Nodes
    /\ color[d] = 1
    /\ cycle' = stack \o <<d>>
    /\ errors' = errors \cup {"cycle"}
    /\ phase' = "report"
    /\ UNCHANGED <<folder, known, ticketDeps, color, stack, todo>>

\* The cycle goes up through every frame, none of which runs on.
Found(d) ==
    /\ Takes(d)
    /\ d \in Nodes
    /\ color[d] = 1
    /\ cycle' = SubSeq(stack, IndexOf(d), Len(stack)) \o <<d>>
    /\ errors' = errors \cup {"cycle"}
    /\ phase' = "report"
    /\ UNCHANGED <<folder, known, ticketDeps, color, stack, todo>>

Return ==
    /\ phase = "dag"
    /\ stack # <<>>
    /\ todo[Top] = {}
    /\ stack' = SubSeq(stack, 1, Len(stack) - 1)
    /\ color' = [color EXCEPT ![Top] = 2]
    /\ UNCHANGED <<folder, phase, known, errors, ticketDeps, todo, cycle>>

NoCycle ==
    /\ phase = "dag"
    /\ stack = <<>>
    /\ \A n \in Nodes : color[n] # 0
    /\ phase' = "report"
    /\ UNCHANGED <<folder, known, errors, ticketDeps, search>>

-------------------------------------------------------------------------------
Report ==
    /\ phase = "report"
    /\ phase' = IF errors = {} THEN "ok" ELSE "failed"
    /\ UNCHANGED <<folder, known, errors, ticketDeps, search>>

Init ==
    /\ folder \in Folders
    /\ phase = "collect"
    /\ known = {}
    /\ errors = {}
    /\ ticketDeps = <<>>
    /\ color = <<>>
    /\ todo = <<>>
    /\ stack = <<>>
    /\ cycle = <<>>

Next ==
    \/ Collect \/ Check \/ Cite \/ Depend
    \/ \E n \in Nodes : Root(n)
    \/ \E d \in Ids : Descend(d) \/ PassOver(d) \/ Found(d)
    \/ Return \/ NoCycle \/ Report

Spec == Init /\ [][Next]_vars

-------------------------------------------------------------------------------
\* Tickets every one of which depends on one of them: none can be done first.
Circular(tickets) ==
    /\ tickets # {}
    /\ \A t \in tickets : ticketDeps[t] \cap tickets # {}

Searched == phase \in {"report", "ok", "failed"}

\* detect_cycle says there is a cycle exactly when there is one: when some
\* tickets cannot be put in an order that respects depends_on.
CycleMeansCycle ==
    Searched => ((cycle # <<>>) <=> \E tickets \in SUBSET Nodes : Circular(tickets))

\* The cycle that is printed is one: from a ticket over its dependencies back
\* to the ticket, with nothing before it.
CycleIsClosed ==
    cycle # <<>> =>
        /\ Len(cycle) > 1
        /\ cycle[1] = cycle[Len(cycle)]
        /\ \A k \in 1..(Len(cycle) - 1) : cycle[k + 1] \in ticketDeps[cycle[k]]

\* Exit code 0 means what the folder is validated for: whatever a document's
\* prose cites is there, and the depends_on that counts for a ticket names
\* artefacts that are there, among which the tickets can be put in an order.
CleanMeansSound ==
    phase = "ok" =>
        /\ \A k \in Parsed :
              Refs(folder[k].prose) \cap Checked \subseteq {folder[j].id : j \in Parsed}
        /\ \A k \in Parsed : folder[k].id \in Tickets =>
              DependsOn(folder[k].id) \subseteq {folder[j].id : j \in Parsed}
        /\ \A tickets \in SUBSET (Tickets \cap {folder[k].id : k \in Parsed}) :
              tickets # {} => \E t \in tickets : DependsOn(t) \cap tickets = {}
=============================================================================
