----------------------------- MODULE UserTable -----------------------------
(***************************************************************************)
(* The panel's table of users and the route it reads from.  list_users     *)
(* counts the rows of proxy_users and then selects a page of them, in two  *)
(* snapshots; meanwhile others insert rows, which are not committed in the *)
(* order of their ids.  The table fetches the page it is turned to, and    *)
(* after a toggle the page it was on when the toggle was pressed; whatever *)
(* answer comes in last is what it shows.                                  *)
(***************************************************************************)
EXTENDS Integers, FiniteSets

CONSTANTS
    Jobs,      \* calls of fetchUsers and handleToggle in flight at the same time
    NoData,    \* the table before its first answer
    PerPage,   \* PER_PAGE
    MaxRows    \* bound: rows ever inserted

ASSUME JobsFinite == IsFiniteSet(Jobs)
ASSUME PerPagePositive == PerPage \in Nat \ {0}
ASSUME MaxRowsNatural == MaxRows \in Nat

Ids == 1 .. MaxRows

VARIABLES
    committed,   \* ids of the rows of proxy_users others can see
    inserting,   \* ids of rows whose transactions have not committed
    lastId,      \* the sequence of proxy_users.id
    page,        \* state of the component: the page it is turned to,
    data,        \*   what it shows,
    loading,     \*   whether it shows a spinner instead,
    error,       \*   whether an error,
    acting,      \*   and the row whose button is disabled, 0 for none (actionLoading)
    job,         \* what each call in flight is at
    overlap,     \* history: the page was turned while a toggle was in flight
    goal,        \* history: rows a reader turning the pages must come across
    seen         \* history: rows shown since the table was opened

vars == <<committed, inserting, lastId, page, data, loading, error, acting, job,
          overlap, goal, seen>>
tableVars == <<committed, inserting, lastId>>
viewVars == <<page, data, loading, error, acting>>
history == <<overlap, goal, seen>>

Job == [pc : {"idle", "posting", "count", "select", "answer"}, toggle : BOOLEAN,
        page : Nat, total : Nat, rows : SUBSET Ids]

\* UserListResponse.
Answer == [page : Nat, total : Nat, rows : SUBSET Ids]

\* Nobody's call; its fields mean nothing.
Idle == [pc |-> "idle", toggle |-> FALSE, page |-> 0, total |-> 0, rows |-> {}]

TypeOK ==
    /\ lastId \in 0 .. MaxRows
    /\ committed \subseteq 1 .. lastId /\ inserting \subseteq 1 .. lastId
    /\ committed \cap inserting = {}
    /\ page \in Nat \ {0}
    /\ data \in Answer \cup {NoData}
    /\ loading \in BOOLEAN /\ error \in BOOLEAN /\ acting \in Ids \cup {0}
    /\ job \in [Jobs -> Job]
    /\ overlap \in BOOLEAN
    /\ goal \subseteq Ids /\ seen \subseteq Ids

-----------------------------------------------------------------------------
(* proxy_users, as others write it.                                        *)

\* get_proxy and create_link, each in a transaction of its own.
Insert ==
    /\ lastId < MaxRows
    /\ lastId' = lastId + 1
    /\ inserting' = inserting \cup {lastId + 1}
    /\ UNCHANGED <<committed, viewVars, job, history>>

Commit(id) ==
    /\ id \in inserting
    /\ inserting' = inserting \ {id}
    /\ committed' = committed \cup {id}
    /\ UNCHANGED <<lastId, viewVars, job, history>>

\* The sequence does not go back.
Rollback(id) ==
    /\ id \in inserting
    /\ inserting' = inserting \ {id}
    /\ UNCHANGED <<committed, lastId, viewVars, job, history>>

\* Rows in front of which nothing can come any more.
Settled == {id \in committed : \A other \in inserting : id < other}

-----------------------------------------------------------------------------
(* list_users.                                                             *)

Position(rows, id) == Cardinality({x \in rows : x <= id})

\* Mutant: ORDER BY id DESC.
PageOfNewest(rows, p) ==
    LET position(id) == Cardinality({x \in rows : x >= id})
    IN  {id \in rows : (p - 1) * PerPage < position(id) /\ position(id) <= p * PerPage}

\* ORDER BY id OFFSET (page - 1) * per_page LIMIT per_page.
PageOf(rows, p) ==
    {id \in rows : (p - 1) * PerPage < Position(rows, id) /\ Position(rows, id) <= p * PerPage}

CountUsers(j) ==
    /\ job[j].pc = "count"
    /\ job' = [job EXCEPT ![j].pc = "select", ![j].total = Cardinality(committed)]
    /\ UNCHANGED <<tableVars, viewVars, history>>

\* Then telemt is asked, and the numbers are merged with the rows.
SelectPage(j) ==
    /\ job[j].pc = "select"
    /\ job' = [job EXCEPT ![j].pc = "answer", ![j].rows = PageOf(committed, job[j].page)]
    /\ UNCHANGED <<tableVars, viewVars, history>>

-----------------------------------------------------------------------------
(* The component.                                                          *)

InFlight == {j \in Jobs : job[j].pc # "idle"}
Toggles == {j \in InFlight : job[j].toggle}
Fetches == {j \in InFlight : job[j].pc # "posting"}

Fetch(p, toggle) == [Idle EXCEPT !.pc = "count", !.page = p, !.toggle = toggle]

\* The component is mounted.  What calls of an earlier one are still in flight
\* set the state of a component that is gone.
Open(j) ==
    /\ page' = 1
    /\ data' = NoData
    /\ loading' = TRUE
    /\ error' = FALSE
    /\ acting' = 0
    /\ job' = [i \in Jobs |-> IF i = j THEN Fetch(1, FALSE) ELSE Idle]
    /\ overlap' = FALSE
    /\ goal' = Settled
    /\ seen' = {}
    /\ UNCHANGED tableVars

\* Math.ceil(data.total / data.per_page) > p
HasPageAfter(p) == p * PerPage < data.total

\* setPage, and the effect that follows it.  An unseen page is no error of the
\* table's if it showed one.
TurnTo(p, j) ==
    /\ job[j].pc = "idle"
    /\ page' = p
    /\ loading' = TRUE
    /\ error' = FALSE
    /\ job' = [job EXCEPT ![j] = Fetch(p, FALSE)]
    /\ overlap' = (InFlight # {} /\ (overlap \/ Toggles # {}))
    /\ goal' = IF error \/ overlap \/ Toggles # {} THEN {} ELSE goal
    /\ UNCHANGED <<data, acting, seen, tableVars>>

\* Mutant: the button is not disabled while the table is loading.
NextPageWhileLoading(j) ==
    /\ data # NoData
    /\ HasPageAfter(page)
    /\ TurnTo(page + 1, j)

NextPage(j) ==
    /\ data # NoData
    /\ ~loading
    /\ HasPageAfter(page)
    /\ TurnTo(page + 1, j)

\* Mutant: the button is not disabled on the first page.
PreviousPageAlways(j) ==
    /\ data # NoData
    /\ ~loading
    /\ TurnTo(page - 1, j)

PreviousPage(j) ==
    /\ data # NoData
    /\ ~loading
    /\ page > 1
    /\ TurnTo(page - 1, j)

\* handleToggle, on a row of the table, which a spinner would hide.
Toggle(j) ==
    /\ data # NoData
    /\ ~loading
    /\ job[j].pc = "idle"
    /\ \E id \in data.rows : id # acting /\ acting' = id
    /\ job' = [job EXCEPT ![j] = [Idle EXCEPT !.pc = "posting", !.page = page, !.toggle = TRUE]]
    /\ UNCHANGED <<page, data, loading, error, tableVars, history>>

\* The page is that of the closure.
ToggleDone(j) ==
    /\ job[j].pc = "posting"
    /\ job' = [job EXCEPT ![j] = Fetch(job[j].page, TRUE)]
    /\ loading' = TRUE
    /\ error' = FALSE
    /\ UNCHANGED <<page, data, acting, history, tableVars>>

ToggleFails(j) ==
    /\ job[j].pc = "posting"
    /\ job' = [job EXCEPT ![j] = Idle]
    /\ error' = TRUE
    /\ acting' = 0
    /\ UNCHANGED <<page, data, loading, history, tableVars>>

\* The toggle this call belongs to is over, if it belongs to one.
EndAction(j) == acting' = IF job[j].toggle THEN 0 ELSE acting

Show(j) ==
    /\ job[j].pc = "answer"
    /\ job' = [job EXCEPT ![j] = Idle]
    /\ data' = [page |-> job[j].page, total |-> job[j].total, rows |-> job[j].rows]
    /\ loading' = FALSE
    /\ seen' = seen \cup job[j].rows
    /\ EndAction(j)
    /\ UNCHANGED <<page, error, overlap, goal, tableVars>>

\* An answer that is none of 200, or none within the client's 15 seconds.
FetchFails(j) ==
    /\ j \in Fetches
    /\ job' = [job EXCEPT ![j] = Idle]
    /\ loading' = FALSE
    /\ error' = TRUE
    /\ EndAction(j)
    /\ UNCHANGED <<page, data, history, tableVars>>

Init ==
    /\ committed = {} /\ inserting = {} /\ lastId = 0
    /\ page = 1 /\ data = NoData /\ loading = TRUE /\ error = FALSE /\ acting = 0
    /\ \E j \in Jobs : job = [i \in Jobs |-> IF i = j THEN Fetch(1, FALSE) ELSE Idle]
    /\ overlap = FALSE /\ goal = {} /\ seen = {}

Next ==
    \/ Insert
    \/ \E id \in Ids : Commit(id) \/ Rollback(id)
    \/ \E j \in Jobs :
        \/ Open(j) \/ NextPage(j) \/ PreviousPage(j)
        \/ Toggle(j) \/ ToggleDone(j) \/ ToggleFails(j)
        \/ CountUsers(j) \/ SelectPage(j) \/ Show(j) \/ FetchFails(j)

Spec == Init /\ [][Next]_vars

-----------------------------------------------------------------------------
(* Properties.                                                             *)

AtRest == Fetches = {} /\ ~error /\ data # NoData

\* Answers are stored in the order in which they come.  As long as the page is
\* not turned while a toggle is in flight, that is the order of the requests,
\* and the table at rest shows the page its buttons count from.  (handleToggle
\* fetches the page of its closure: turned meanwhile, the table may rest on one
\* page and Next lead to the one after another.)
ShownPageIsAsked == AtRest /\ ~overlap => data.page = page

\* Whoever opens the table and turns the pages until Next is disabled has seen
\* every user that was settled when it was opened: neither a row committed
\* between the count and the page of a request nor one committed between two
\* pages makes a user disappear, unless a page failed to load or was turned
\* while a toggle was in flight.
PagesShowEveryone == AtRest /\ ~HasPageAfter(page) /\ ~overlap => goal \subseteq seen
=============================================================================
