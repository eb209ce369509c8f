-------------------------- MODULE UserTableProofs --------------------------
(***************************************************************************)
(* That the table rests on the page its buttons count from, and that its   *)
(* pages show everyone, for any number of calls in flight, any size of a   *)
(* page and any number of rows.                                            *)
(***************************************************************************)
EXTENDS UserTable, FiniteSetTheorems, TLAPS

Rank(id) == Position(committed, id)

\* While nothing overlaps, every call in flight is for the page the table is
\* turned to, and a fetch that follows a turn is the only one.
OnePage ==
    ~overlap =>
        /\ \A j \in Jobs : job[j].pc # "idle" => job[j].page = page
        /\ \A j \in Jobs : job[j].pc # "idle" /\ ~job[j].toggle =>
              /\ loading
              /\ \A i \in Jobs : job[i].pc # "idle" => i = j
        /\ AtRest => data.page = page

\* What the reader must see lies where it lay when the table was opened, and
\* every answer tells of it.
GoalStays ==
    /\ goal \subseteq Settled
    /\ overlap => goal = {}
    /\ \A j \in Jobs : \A id \in goal :
          /\ job[j].pc \in {"select", "answer"} => Rank(id) <= job[j].total
          /\ job[j].pc = "answer"
                /\ (job[j].page - 1) * PerPage < Rank(id) /\ Rank(id) <= job[j].page * PerPage
             => id \in job[j].rows
    /\ data # NoData => \A id \in goal : Rank(id) <= data.total

\* The pages in front of the one on display were seen, and at rest that one too.
PagesSeen ==
    /\ \A id \in goal : Rank(id) <= (page - 1) * PerPage => id \in seen
    /\ AtRest => \A id \in goal : Rank(id) <= page * PerPage => id \in seen

-----------------------------------------------------------------------------
(* Positions.                                                              *)

LEMMA PositionBounded ==
  ASSUME NEW S \in SUBSET Ids, NEW id
  PROVE  /\ IsFiniteSet(S) /\ Cardinality(S) \in Nat
         /\ Position(S, id) \in Nat
         /\ Position(S, id) <= Cardinality(S)
<1>0. IsFiniteSet(Ids)
  BY MaxRowsNatural, FS_Interval DEF Ids
<1>1. IsFiniteSet(S)
  BY <1>0, FS_Subset
<1>2. {x \in S : x <= id} \in SUBSET S
  OBVIOUS
<1>3. IsFiniteSet({x \in S : x <= id}) /\ Cardinality({x \in S : x <= id}) <= Cardinality(S)
  BY <1>1, <1>2, FS_Subset
<1> QED
  BY <1>1, <1>3, FS_CardinalityType DEF Position

LEMMA PositionPositive ==
  ASSUME NEW S \in SUBSET Ids, NEW id \in S
  PROVE  Position(S, id) # 0
<1>1. id \in {x \in S : x <= id}
  BY DEF Ids
<1>2. IsFiniteSet({x \in S : x <= id})
  BY PositionBounded, FS_Subset
<1> QED
  BY <1>1, <1>2, FS_EmptySet DEF Position

-----------------------------------------------------------------------------
(* Types.                                                                  *)

LEMMA FetchTyped ==
  ASSUME NEW p \in Nat, NEW t \in BOOLEAN
  PROVE  Idle \in Job /\ Fetch(p, t) \in Job
BY DEF Idle, Fetch, Job

LEMMA CommittedIds == TypeOK => committed \subseteq Ids
  BY MaxRowsNatural DEF TypeOK, Ids

LEMMA TypesStep == TypeOK /\ [Next]_vars => TypeOK'
<1> SUFFICES ASSUME TypeOK, [Next]_vars PROVE TypeOK'
  OBVIOUS
<1> USE PerPagePositive, MaxRowsNatural DEF TypeOK, tableVars, viewVars, history
<1>1. CASE Insert
  BY <1>1 DEF Insert
<1>2. ASSUME NEW id \in Ids, Commit(id) PROVE TypeOK'
  BY <1>2 DEF Commit
<1>3. ASSUME NEW id \in Ids, Rollback(id) PROVE TypeOK'
  BY <1>3 DEF Rollback
<1>4. ASSUME NEW j \in Jobs, Open(j) PROVE TypeOK'
  <2>0. Fetch(1, FALSE) \in Job /\ Idle \in Job
    BY FetchTyped
  <2>1. job' \in [Jobs -> Job]
    BY <1>4, <2>0 DEF Open
  <2>2. Settled \subseteq Ids
    BY CommittedIds DEF Settled
  <2>3. data' \in Answer \cup {NoData} /\ page' \in Nat \ {0} /\ acting' \in Ids \cup {0}
    BY <1>4 DEF Open
  <2>4. loading' \in BOOLEAN /\ error' \in BOOLEAN /\ overlap' \in BOOLEAN
    BY <1>4 DEF Open
  <2>5. goal' \subseteq Ids /\ seen' \subseteq Ids
    BY <1>4, <2>2 DEF Open
  <2>6. UNCHANGED tableVars
    BY <1>4 DEF Open
  <2> QED
    BY <2>1, <2>3, <2>4, <2>5, <2>6
<1>5. ASSUME NEW j \in Jobs, NEW p \in Nat \ {0}, TurnTo(p, j) PROVE TypeOK'
  <2>1. job' \in [Jobs -> Job]
    BY <1>5, FetchTyped DEF TurnTo
  <2> QED
    BY <1>5, <2>1 DEF TurnTo
<1>6. ASSUME NEW j \in Jobs, NextPage(j) \/ PreviousPage(j) PROVE TypeOK'
  <2>1. CASE NextPage(j)
    BY <2>1, <1>5 DEF NextPage
  <2>2. CASE PreviousPage(j)
    <3>1. page - 1 \in Nat \ {0}
      BY <2>2 DEF PreviousPage
    <3> QED
      BY <2>2, <3>1, <1>5 DEF PreviousPage
  <2> QED
    BY <1>6, <2>1, <2>2
<1>7. ASSUME NEW j \in Jobs, Toggle(j) PROVE TypeOK'
  <2>1. [Idle EXCEPT !.pc = "posting", !.page = page, !.toggle = TRUE] \in Job
    BY DEF Idle, Job
  <2>2. job' \in [Jobs -> Job]
    BY <1>7, <2>1 DEF Toggle
  <2>3. acting' \in Ids \cup {0}
    <3>1. data.rows \subseteq Ids
      BY <1>7 DEF Toggle, Answer
    <3> QED
      BY <1>7, <3>1 DEF Toggle
  <2>4. UNCHANGED <<page, data, loading, error, tableVars, history>>
    BY <1>7 DEF Toggle
  <2> QED
    BY <2>2, <2>3, <2>4
<1>8. ASSUME NEW j \in Jobs, ToggleDone(j) \/ ToggleFails(j) PROVE TypeOK'
  <2>1. Fetch(job[j].page, TRUE) \in Job /\ Idle \in Job
    BY FetchTyped DEF Job
  <2>2. job' \in [Jobs -> Job]
    BY <1>8, <2>1 DEF ToggleDone, ToggleFails
  <2> QED
    BY <1>8, <2>2 DEF ToggleDone, ToggleFails
<1>9. ASSUME NEW j \in Jobs, CountUsers(j) \/ SelectPage(j) PROVE TypeOK'
  <2>1. Cardinality(committed) \in Nat /\ PageOf(committed, job[j].page) \in SUBSET Ids
    BY PositionBounded, CommittedIds DEF PageOf
  <2>2. job' \in [Jobs -> Job]
    BY <1>9, <2>1 DEF CountUsers, SelectPage, Job
  <2> QED
    BY <1>9, <2>2 DEF CountUsers, SelectPage
<1>10. ASSUME NEW j \in Jobs, Show(j) \/ FetchFails(j) PROVE TypeOK'
  <2>0. Idle \in Job
    BY FetchTyped
  <2>1. job' \in [Jobs -> Job]
    BY <1>10, <2>0 DEF Show, FetchFails
  <2>2. job[j].page \in Nat /\ job[j].total \in Nat /\ job[j].rows \in SUBSET Ids
    BY DEF Job
  <2>3. [page |-> job[j].page, total |-> job[j].total, rows |-> job[j].rows] \in Answer
    BY <2>2 DEF Answer
  <2> QED
    BY <1>10, <2>1, <2>2, <2>3 DEF Show, FetchFails, EndAction
<1>11. CASE UNCHANGED vars
  BY <1>11 DEF vars
<1> QED
  BY <1>1, <1>2, <1>3, <1>4, <1>6, <1>7, <1>8, <1>9, <1>10, <1>11 DEF Next

LEMMA TypesInit == Init => TypeOK
<1> SUFFICES ASSUME Init PROVE TypeOK
  OBVIOUS
<1>1. job \in [Jobs -> Job]
  BY FetchTyped DEF Init
<1>2. lastId \in 0 .. MaxRows /\ committed \subseteq 1 .. lastId /\ inserting \subseteq 1 .. lastId
  BY MaxRowsNatural DEF Init
<1>3. page \in Nat \ {0} /\ acting \in Ids \cup {0}
  BY DEF Init
<1>4. data \in Answer \cup {NoData} /\ committed \cap inserting = {}
  BY DEF Init
<1>5. loading \in BOOLEAN /\ error \in BOOLEAN /\ overlap \in BOOLEAN
  BY DEF Init
<1>6. goal \subseteq Ids /\ seen \subseteq Ids
  BY DEF Init
<1> QED
  BY <1>1, <1>2, <1>3, <1>4, <1>5, <1>6 DEF TypeOK

\* Every variable stays in its set (UserTable.tsx: the state of the component;
\* 001_initial.py: ids come from a sequence).
THEOREM TypesHold == Spec => []TypeOK
  BY TypesInit, TypesStep, PTL DEF Spec

-----------------------------------------------------------------------------
(* One page.                                                               *)

LEMMA OnePageStep == TypeOK /\ OnePage /\ [Next]_vars => OnePage'
<1> SUFFICES ASSUME TypeOK, OnePage, [Next]_vars PROVE OnePage'
  OBVIOUS
<1> USE DEF OnePage, AtRest, Fetches, InFlight, tableVars, viewVars, history
<1>0. job \in [Jobs -> Job] /\ loading \in BOOLEAN /\ error \in BOOLEAN /\ overlap \in BOOLEAN
  BY DEF TypeOK
<1>1. CASE Insert \/ \E id \in Ids : Commit(id) \/ Rollback(id)
  BY <1>1 DEF Insert, Commit, Rollback
<1>2. ASSUME NEW j \in Jobs, Open(j) PROVE OnePage'
  BY <1>0, <1>2 DEF Open, Fetch, Idle
<1>3. ASSUME NEW j \in Jobs, NEW p \in Nat \ {0}, ~loading, TurnTo(p, j) PROVE OnePage'
  <2> SUFFICES ASSUME ~overlap' PROVE OnePage'
    OBVIOUS
  <2>1. \A i \in Jobs : job[i].pc # "idle" => FALSE
    \* Were a call in flight, it would be a toggle's or the table would be loading.
    BY <1>0, <1>3 DEF TurnTo, Toggles
  <2>2. job'[j] = Fetch(p, FALSE) /\ \A i \in Jobs \ {j} : job'[i] = job[i]
    BY <1>0, <1>3 DEF TurnTo
  <2>3. /\ job'[j].pc = "count" /\ job'[j].page = p /\ job'[j].toggle = FALSE
        /\ \A i \in Jobs \ {j} : job'[i].pc = "idle"
    BY <2>1, <2>2 DEF Fetch, Idle
  <2>4. page' = p /\ loading'
    BY <1>3 DEF TurnTo
  <2>5. ~AtRest'
    BY <2>3
  <2> QED
    BY <2>3, <2>4, <2>5
<1>4. ASSUME NEW j \in Jobs, NextPage(j) \/ PreviousPage(j) PROVE OnePage'
  BY <1>3, <1>4 DEF NextPage, PreviousPage, TypeOK
<1>5. ASSUME NEW j \in Jobs, Toggle(j) PROVE OnePage'
  <2>1. job'[j].pc = "posting" /\ job'[j].page = page /\ job'[j].toggle
    BY <1>0, <1>5 DEF Toggle, Idle
  <2>2. \A i \in Jobs \ {j} : job'[i] = job[i]
    BY <1>0, <1>5 DEF Toggle
  <2> QED
    BY <1>5, <2>1, <2>2 DEF Toggle
<1>6. ASSUME NEW j \in Jobs, ToggleDone(j) PROVE OnePage'
  <2>1. job'[j].pc = "count" /\ job'[j].page = job[j].page /\ job'[j].toggle
    BY <1>0, <1>6 DEF ToggleDone, Fetch, Idle
  <2>2. \A i \in Jobs \ {j} : job'[i] = job[i]
    BY <1>0, <1>6 DEF ToggleDone
  <2> QED
    BY <1>6, <2>1, <2>2 DEF ToggleDone
<1>7. ASSUME NEW j \in Jobs, ToggleFails(j) PROVE OnePage'
  <2>1. job'[j].pc = "idle" /\ \A i \in Jobs \ {j} : job'[i] = job[i]
    BY <1>0, <1>7 DEF ToggleFails, Idle
  <2> QED
    BY <1>7, <2>1 DEF ToggleFails
<1>8. ASSUME NEW j \in Jobs, CountUsers(j) \/ SelectPage(j) PROVE OnePage'
  <2>1. /\ job[j].pc # "idle" /\ job[j].pc # "posting"
        /\ job'[j].pc # "idle" /\ job'[j].pc # "posting"
        /\ job'[j].page = job[j].page /\ job'[j].toggle = job[j].toggle
    BY <1>0, <1>8 DEF CountUsers, SelectPage, Job
  <2>2. \A i \in Jobs \ {j} : job'[i] = job[i]
    BY <1>0, <1>8 DEF CountUsers, SelectPage
  <2> QED
    BY <1>8, <2>1, <2>2 DEF CountUsers, SelectPage
<1>9. ASSUME NEW j \in Jobs, Show(j) PROVE OnePage'
  <2>1. job'[j].pc = "idle" /\ \A i \in Jobs \ {j} : job'[i] = job[i]
    BY <1>0, <1>9 DEF Show, Idle
  <2>2. data'.page = job[j].page
    BY <1>9 DEF Show
  <2> QED
    BY <1>9, <2>1, <2>2 DEF Show
<1>10. ASSUME NEW j \in Jobs, FetchFails(j) PROVE OnePage'
  <2>1. job'[j].pc = "idle" /\ \A i \in Jobs \ {j} : job'[i] = job[i]
    BY <1>0, <1>10 DEF FetchFails, Idle
  <2> QED
    BY <1>10, <2>1 DEF FetchFails
<1>11. CASE UNCHANGED vars
  BY <1>11 DEF vars
<1> QED
  BY <1>1, <1>2, <1>4, <1>5, <1>6, <1>7, <1>8, <1>9, <1>10, <1>11 DEF Next

LEMMA OnePageInit == Init => OnePage
  BY DEF Init, OnePage, AtRest, Fetch, Idle

\* The table at rest shows the page its buttons count from
\* (UserTable.tsx: fetchUsers, handleToggle, the two buttons).
THEOREM TableShowsItsPage == Spec => []ShownPageIsAsked
<1>1. OnePage => ShownPageIsAsked
  BY DEF OnePage, ShownPageIsAsked
<1> QED
  BY <1>1, TypesHold, OnePageInit, OnePageStep, PTL DEF Spec

-----------------------------------------------------------------------------
(* What must be seen stays where it is.                                    *)

\* Others change the table only behind the rows that are settled.
LEMMA TableStep ==
  ASSUME TypeOK, goal \subseteq Settled,
         Insert \/ \E id \in Ids : Commit(id) \/ Rollback(id)
  PROVE  /\ goal \subseteq Settled'
         /\ \A id \in goal : Rank(id)' = Rank(id)
<1> USE DEF TypeOK, Settled, Rank, Position, tableVars, viewVars, history
<1>0. goal \subseteq committed /\ committed \subseteq Int /\ inserting \subseteq Int /\ lastId \in Int
  OBVIOUS
<1>1. CASE Insert
  <2>1. \A id \in goal : id < lastId + 1
    BY <1>0
  <2> QED
    BY <1>1, <2>1 DEF Insert
<1>2. ASSUME NEW x \in Ids, Commit(x)
      PROVE /\ goal \subseteq Settled'
            /\ \A id \in goal : Rank(id)' = Rank(id)
  <2>1. \A id \in goal : id < x
    BY <1>2 DEF Commit
  <2>2. ASSUME NEW id \in goal
        PROVE  {y \in committed' : y <= id} = {y \in committed : y <= id}
    BY <1>0, <1>2, <2>1 DEF Commit, Ids
  <2> QED
    BY <1>2, <2>2 DEF Commit
<1>3. ASSUME NEW x \in Ids, Rollback(x)
      PROVE /\ goal \subseteq Settled'
            /\ \A id \in goal : Rank(id)' = Rank(id)
  BY <1>3 DEF Rollback
<1> QED
  BY <1>1, <1>2, <1>3

\* What GoalStays says of one call, and of the table.
Tells(j) ==
    \A id \in goal :
        /\ job[j].pc \in {"select", "answer"} => Rank(id) <= job[j].total
        /\ job[j].pc = "answer"
              /\ (job[j].page - 1) * PerPage < Rank(id) /\ Rank(id) <= job[j].page * PerPage
           => id \in job[j].rows

Shows == data # NoData => \A id \in goal : Rank(id) <= data.total

LEMMA GoalStaysSplit ==
  GoalStays <=> /\ goal \subseteq Settled
                /\ overlap => goal = {}
                /\ \A j \in Jobs : Tells(j)
                /\ Shows
BY DEF GoalStays, Tells, Shows

LEMMA GoalStaysStep == TypeOK /\ GoalStays /\ [Next]_vars => GoalStays'
<1> SUFFICES ASSUME TypeOK, GoalStays, [Next]_vars PROVE GoalStays'
  OBVIOUS
<1>0. /\ goal \subseteq Settled
      /\ overlap => goal = {}
      /\ \A j \in Jobs : Tells(j)
      /\ Shows
      /\ job \in [Jobs -> Job]
  BY GoalStaysSplit DEF TypeOK
<1>a. SUFFICES /\ goal' \subseteq Settled'
               /\ overlap' => goal' = {}
               /\ \A j \in Jobs : Tells(j)'
               /\ Shows'
  BY GoalStaysSplit DEF GoalStays, Tells, Shows
<1> USE DEF tableVars, viewVars, history
<1>1. CASE Insert \/ \E id \in Ids : Commit(id) \/ Rollback(id)
  <2>1. goal \subseteq Settled' /\ \A id \in goal : Rank(id)' = Rank(id)
    BY <1>0, <1>1, TableStep
  <2>2. UNCHANGED <<data, job, goal, overlap>>
    BY <1>1 DEF Insert, Commit, Rollback
  <2> QED
    BY <1>0, <2>1, <2>2 DEF Tells, Shows
\* From here on the rows stay, and with them Settled and every rank.
<1>2. ASSUME UNCHANGED tableVars PROVE Settled' = Settled /\ \A id : Rank(id)' = Rank(id)
  BY <1>2 DEF Settled, Rank
<1>3. ASSUME NEW j \in Jobs, UNCHANGED tableVars, goal' \subseteq goal, job' \in [Jobs -> Job],
             \A i \in Jobs \ {j} : job'[i] = job[i],
             overlap' => goal' = {}, Shows', Tells(j)'
      PROVE  /\ goal' \subseteq Settled'
             /\ overlap' => goal' = {}
             /\ \A i \in Jobs : Tells(i)'
             /\ Shows'
  BY <1>0, <1>2, <1>3 DEF Tells
<1>4. ASSUME NEW j \in Jobs, Open(j)
      PROVE  /\ goal' \subseteq Settled'
             /\ overlap' => goal' = {}
             /\ \A i \in Jobs : Tells(i)'
             /\ Shows'
  <2>1. goal' \subseteq Settled' /\ ~overlap' /\ Shows'
    BY <1>2, <1>4 DEF Open, Shows
  <2>2. \A i \in Jobs : job'[i].pc \in {"idle", "count"}
    BY <1>4 DEF Open, Fetch, Idle
  <2> QED
    BY <2>1, <2>2 DEF Tells
<1>t. job' \in [Jobs -> Job]
  BY TypesStep DEF TypeOK
<1>5. ASSUME NEW j \in Jobs, NEW p, TurnTo(p, j)
      PROVE  /\ goal' \subseteq Settled'
             /\ overlap' => goal' = {}
             /\ \A i \in Jobs : Tells(i)'
             /\ Shows'
  <2>1. job'[j].pc = "count" /\ \A i \in Jobs \ {j} : job'[i] = job[i]
    BY <1>0, <1>5 DEF TurnTo, Fetch, Idle
  <2>2. goal' \subseteq goal /\ UNCHANGED tableVars /\ UNCHANGED data
    BY <1>5 DEF TurnTo
  <2>3. overlap' => goal' = {}
    BY <1>5 DEF TurnTo
  <2>4. Shows' /\ Tells(j)'
    BY <1>0, <1>2, <2>1, <2>2 DEF Shows, Tells
  <2> QED
    BY <1>3, <1>t, <2>1, <2>2, <2>3, <2>4
<1>6. ASSUME NEW j \in Jobs, Toggle(j) \/ ToggleDone(j) \/ ToggleFails(j) \/ FetchFails(j)
      PROVE  /\ goal' \subseteq Settled'
             /\ overlap' => goal' = {}
             /\ \A i \in Jobs : Tells(i)'
             /\ Shows'
  <2>1. job'[j].pc \in {"idle", "posting", "count"} /\ \A i \in Jobs \ {j} : job'[i] = job[i]
    <3>1. CASE Toggle(j)
      BY <1>0, <3>1 DEF Toggle, Idle
    <3>2. CASE ToggleDone(j)
      BY <1>0, <3>2 DEF ToggleDone, Fetch, Idle
    <3>3. CASE ToggleFails(j) \/ FetchFails(j)
      BY <1>0, <3>3 DEF ToggleFails, FetchFails, Idle
    <3> QED
      BY <1>6, <3>1, <3>2, <3>3
  <2>2. UNCHANGED <<tableVars, data, goal, overlap>>
    BY <1>6 DEF Toggle, ToggleDone, ToggleFails, FetchFails
  <2>3. Shows' /\ Tells(j)'
    BY <1>0, <1>2, <2>1, <2>2 DEF Shows, Tells
  <2> QED
    BY <1>0, <1>3, <1>t, <2>1, <2>2, <2>3
<1>7. ASSUME NEW j \in Jobs, CountUsers(j)
      PROVE  /\ goal' \subseteq Settled'
             /\ overlap' => goal' = {}
             /\ \A i \in Jobs : Tells(i)'
             /\ Shows'
  <2>1. /\ job'[j].pc = "select" /\ job'[j].total = Cardinality(committed)
        /\ \A i \in Jobs \ {j} : job'[i] = job[i]
        /\ UNCHANGED <<tableVars, data, goal, overlap>>
    BY <1>0, <1>7 DEF CountUsers, Job
  <2>2. \A id : Rank(id) <= Cardinality(committed)
    BY PositionBounded, CommittedIds DEF Rank
  <2>3. Shows' /\ Tells(j)'
    BY <1>0, <1>2, <2>1, <2>2 DEF Shows, Tells
  <2> QED
    BY <1>0, <1>3, <1>t, <2>1, <2>3
<1>8. ASSUME NEW j \in Jobs, SelectPage(j)
      PROVE  /\ goal' \subseteq Settled'
             /\ overlap' => goal' = {}
             /\ \A i \in Jobs : Tells(i)'
             /\ Shows'
  <2>1. /\ job[j].pc = "select"
        /\ job'[j].pc = "answer" /\ job'[j].total = job[j].total /\ job'[j].page = job[j].page
        /\ job'[j].rows = PageOf(committed, job[j].page)
        /\ \A i \in Jobs \ {j} : job'[i] = job[i]
        /\ UNCHANGED <<tableVars, data, goal, overlap>>
    BY <1>0, <1>8 DEF SelectPage, Job
  <2>2. goal \subseteq committed
    BY <1>0 DEF Settled
  <2>3. Shows' /\ Tells(j)'
    BY <1>0, <1>2, <2>1, <2>2 DEF Shows, Tells, PageOf, Rank
  <2> QED
    BY <1>0, <1>3, <1>t, <2>1, <2>3
<1>9. ASSUME NEW j \in Jobs, Show(j)
      PROVE  /\ goal' \subseteq Settled'
             /\ overlap' => goal' = {}
             /\ \A i \in Jobs : Tells(i)'
             /\ Shows'
  <2>1. /\ job[j].pc = "answer" /\ job'[j].pc = "idle"
        /\ data'.total = job[j].total
        /\ \A i \in Jobs \ {j} : job'[i] = job[i]
        /\ UNCHANGED <<tableVars, goal, overlap>>
    BY <1>0, <1>9 DEF Show, Idle
  <2>2. Shows'
    BY <1>0, <1>2, <2>1 DEF Shows, Tells
  <2>3. Tells(j)'
    BY <2>1 DEF Tells
  <2> QED
    BY <1>0, <1>3, <1>t, <2>1, <2>2, <2>3
<1>10. CASE UNCHANGED vars
  BY <1>0, <1>2, <1>10 DEF vars, Tells, Shows
<1> QED
  BY <1>1, <1>4, <1>5, <1>6, <1>7, <1>8, <1>9, <1>10 DEF Next, NextPage, PreviousPage

-----------------------------------------------------------------------------
(* What was seen.                                                          *)

\* A page further: the page on display belongs to those in front.
LEMMA PageBefore ==
  ASSUME NEW p \in Nat \ {0}
  PROVE  /\ (p + 1 - 1) * PerPage = p * PerPage
         /\ (p - 1 - 1) * PerPage <= (p - 1) * PerPage
         /\ (p - 1) * PerPage \in Int /\ p * PerPage \in Int
<1>1. PerPage \in Nat
  BY PerPagePositive
<1>2. (p - 1) * PerPage = (p - 1 - 1) * PerPage + PerPage
  BY <1>1
<1>3. (p - 1 - 1) * PerPage \in Int
  BY <1>1
<1> QED
  BY <1>1, <1>2, <1>3

LEMMA PagesSeenStep ==
  TypeOK /\ OnePage /\ GoalStays /\ PagesSeen /\ [Next]_vars => PagesSeen'
<1> SUFFICES ASSUME TypeOK, OnePage, GoalStays, PagesSeen, [Next]_vars PROVE PagesSeen'
  OBVIOUS
<1> USE DEF tableVars, viewVars, history
<1>0. /\ job \in [Jobs -> Job] /\ page \in Nat \ {0}
      /\ goal \subseteq Settled /\ goal \subseteq committed
      /\ \A id : Rank(id) \in Nat
  BY PositionBounded, CommittedIds DEF TypeOK, GoalStays, Settled, Rank
<1>2. ASSUME UNCHANGED tableVars PROVE \A id : Rank(id)' = Rank(id)
  BY <1>2 DEF Rank
<1>1. CASE Insert \/ \E id \in Ids : Commit(id) \/ Rollback(id)
  <2>1. \A id \in goal : Rank(id)' = Rank(id)
    BY <1>0, <1>1, TableStep
  <2>2. UNCHANGED <<page, data, error, job, goal, seen>>
    BY <1>1 DEF Insert, Commit, Rollback
  <2> QED
    BY <2>1, <2>2 DEF PagesSeen, AtRest, Fetches, InFlight
<1>3. ASSUME NEW j \in Jobs, Open(j) PROVE PagesSeen'
  <2>1. page' = 1 /\ data' = NoData /\ UNCHANGED tableVars /\ goal' \subseteq committed
    BY <1>3 DEF Open, Settled
  <2>2. (page' - 1) * PerPage = 0
    BY <2>1, PerPagePositive
  <2>3. \A id \in goal' : Rank(id)' # 0 /\ Rank(id)' \in Nat
    BY <1>0, <1>2, <2>1, PositionPositive, CommittedIds DEF Rank
  <2>4. \A id \in goal' : ~(Rank(id)' <= (page' - 1) * PerPage)
    BY <2>2, <2>3
  <2> QED
    BY <2>1, <2>4 DEF PagesSeen, AtRest
<1>4. ASSUME NEW j \in Jobs, NextPage(j) \/ PreviousPage(j) PROVE PagesSeen'
  <2>1. PICK p \in {page + 1, page - 1} : /\ TurnTo(p, j) /\ ~loading /\ data # NoData
                                          /\ p \in Nat \ {0}
    BY <1>0, <1>4 DEF NextPage, PreviousPage
  <2>2. /\ page' = p /\ UNCHANGED <<seen, tableVars>>
        /\ job[j].pc = "idle" /\ job'[j].pc = "count"
        /\ goal' = IF error \/ overlap \/ Toggles # {} THEN {} ELSE goal
    BY <1>0, <2>1 DEF TurnTo, Fetch, Idle
  <2>3. ~AtRest'
    BY <2>2 DEF AtRest, Fetches, InFlight
  <2>4. ASSUME NEW id \in goal', Rank(id) <= (p - 1) * PerPage PROVE id \in seen
    <3>1. ~error /\ ~overlap /\ Toggles = {} /\ id \in goal
      BY <2>2, <2>4
    <3>2. AtRest
      \* No toggle is in flight, and no fetch, for it would show a spinner.
      BY <1>0, <2>1, <3>1 DEF AtRest, Fetches, Toggles, InFlight, OnePage
    <3>3. /\ Rank(id) <= page * PerPage => id \in seen
          /\ Rank(id) <= (page - 1) * PerPage => id \in seen
      BY <3>1, <3>2 DEF PagesSeen
    <3>4. CASE p = page + 1
      BY <1>0, <2>4, <3>3, <3>4, PageBefore
    <3>5. CASE p = page - 1
      <4>1. (page - 1 - 1) * PerPage \in Int
        BY <1>0, PerPagePositive
      <4> QED
        BY <1>0, <2>4, <3>3, <3>5, <4>1, PageBefore
    <3> QED
      BY <2>1, <3>4, <3>5
  <2> QED
    BY <1>2, <2>2, <2>3, <2>4 DEF PagesSeen
<1>5. ASSUME NEW j \in Jobs, Toggle(j) PROVE PagesSeen'
  <2>1. /\ job'[j].pc = "posting" /\ job[j].pc = "idle"
        /\ \A i \in Jobs \ {j} : job'[i] = job[i]
        /\ UNCHANGED <<page, data, error, goal, seen, tableVars>>
    BY <1>0, <1>5 DEF Toggle, Idle
  <2>2. AtRest' => AtRest
    BY <2>1 DEF AtRest, Fetches, InFlight
  <2> QED
    BY <1>2, <2>1, <2>2 DEF PagesSeen
<1>6. ASSUME NEW j \in Jobs, CountUsers(j) \/ SelectPage(j) \/ ToggleDone(j) PROVE PagesSeen'
  <2>1. job'[j].pc \in {"select", "answer", "count"}
    BY <1>0, <1>6 DEF CountUsers, SelectPage, ToggleDone, Fetch, Idle, Job
  <2>2. UNCHANGED <<page, goal, seen, tableVars>>
    BY <1>6 DEF CountUsers, SelectPage, ToggleDone
  <2>3. ~AtRest'
    BY <2>1 DEF AtRest, Fetches, InFlight
  <2> QED
    BY <1>2, <2>2, <2>3 DEF PagesSeen
<1>7. ASSUME NEW j \in Jobs, ToggleFails(j) \/ FetchFails(j) PROVE PagesSeen'
  <2>1. UNCHANGED <<page, goal, seen, tableVars>> /\ error'
    BY <1>7 DEF ToggleFails, FetchFails
  <2> QED
    BY <1>2, <2>1 DEF PagesSeen, AtRest
<1>8. ASSUME NEW j \in Jobs, Show(j) PROVE PagesSeen'
  <2>1. /\ job[j].pc = "answer" /\ seen' = seen \cup job[j].rows
        /\ UNCHANGED <<page, goal, tableVars>>
    BY <1>8 DEF Show
  <2>2. ASSUME NEW id \in goal
        PROVE  /\ Rank(id) <= (page - 1) * PerPage => id \in seen
               /\ Rank(id) <= page * PerPage => id \in seen'
    <3>1. job[j].page = page
      BY <2>1 DEF GoalStays, OnePage
    <3>2. (page - 1) * PerPage < Rank(id) /\ Rank(id) <= page * PerPage => id \in job[j].rows
      BY <2>1, <3>1 DEF GoalStays
    <3>3. Rank(id) <= (page - 1) * PerPage => id \in seen
      BY DEF PagesSeen
    <3> QED
      BY <1>0, <2>1, <3>2, <3>3, PageBefore
  <2> QED
    BY <1>2, <2>1, <2>2 DEF PagesSeen
<1>9. CASE UNCHANGED vars
  BY <1>2, <1>9 DEF vars, PagesSeen, AtRest, Fetches, InFlight
<1> QED
  BY <1>1, <1>3, <1>4, <1>5, <1>6, <1>7, <1>8, <1>9 DEF Next

LEMMA SeenInit == Init => GoalStays /\ PagesSeen
  BY DEF Init, GoalStays, PagesSeen, AtRest

\* The inductive invariant: what is in flight agrees with what is shown, and
\* what must be seen keeps its place.
TableInv == TypeOK /\ OnePage /\ GoalStays /\ PagesSeen

\* That invariant holds of every step (UserTable.tsx, users.py: list_users).
THEOREM TableInductive == Spec => []TableInv
<1>1. Init => TableInv
  BY TypesInit, OnePageInit, SeenInit DEF TableInv
<1>2. TableInv /\ [Next]_vars => TableInv'
  BY TypesStep, OnePageStep, GoalStaysStep, PagesSeenStep DEF TableInv
<1> QED
  BY <1>1, <1>2, PTL DEF Spec

\* Turning the pages shows every user that was there before
\* (users.py: list_users; UserTable.tsx: the button of the next page).
THEOREM EveryoneIsShown == Spec => []PagesShowEveryone
<1>1. TableInv => PagesShowEveryone
  <2> SUFFICES ASSUME TableInv, AtRest, ~HasPageAfter(page), NEW id \in goal
               PROVE  id \in seen
    BY DEF PagesShowEveryone
  <2>1. data \in Answer /\ data.total \in Nat
    BY DEF TableInv, TypeOK, AtRest, Answer
  <2>2. Rank(id) <= data.total
    BY DEF TableInv, GoalStays, AtRest
  <2>3. data.total <= page * PerPage
    BY <2>1, PageBefore DEF HasPageAfter, TableInv, TypeOK
  <2>4. Rank(id) \in Nat
    BY PositionBounded, CommittedIds DEF TableInv, Rank
  <2>5. Rank(id) <= page * PerPage
    BY <2>1, <2>2, <2>3, <2>4, PageBefore DEF TableInv, TypeOK
  <2> QED
    BY <2>5 DEF TableInv, PagesSeen
<1> QED
  BY <1>1, TableInductive, PTL
=============================================================================
