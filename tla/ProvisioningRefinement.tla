----------------------- MODULE ProvisioningRefinement -----------------------
(* Provisioning implements Lifecycle, for every value of the constants.    *)
EXTENDS ProvisioningProofs

USE DEF Names, Tasks, NoSecret, RowNext, KnownNext

\* Stage in the next state.
StageNext(n) ==
    IF ~KnownNext(n) THEN "unknown"
    ELSE IF ~RowNext(n) THEN "orphan"
    ELSE IF n \in TelegramUsers THEN "known"
    ELSE IF \E r \in links' : r.label = n THEN "listed" ELSE "retired"

\* The refinement mapping after a step.
LEMMA MappingNext ==
    [n \in Names |-> Stage(n)]' = [n \in Names |-> StageNext(n)]
BY DEF Stage, StageNext, Known, HasRow, HasLink

\* Advancing one account is a step of the abstract specification's kind.
LEMMA AdvanceOne ==
    ASSUME NEW m \in Names, NEW from, NEW to, UNCHANGED served,
           Stage(m) = from, StageNext(m) = to,
           \A n \in Names \ {m} : StageNext(n) = Stage(n)
    PROVE  L!Advance(m, from, to)
<1>1. [n \in Names |-> StageNext(n)] = [[n \in Names |-> Stage(n)] EXCEPT ![m] = to]
    OBVIOUS
<1>2. [n \in Names |-> Stage(n)][m] = from
    OBVIOUS
<1> QED BY <1>1, <1>2, MappingNext DEF L!Advance

\* An insert gives one account a row and no other.
LEMMA OneRowMore ==
    ASSUME NEW m, NEW source, AddProxyUser(m, source)
    PROVE  RowNext(m) /\ \A n \in Names \ {m} : RowNext(n) <=> HasRow(n)
<1> DEFINE row == [telemt_username |-> m, source |-> source, is_active |-> TRUE]
<1>1. proxyUsers' = proxyUsers \cup {row} /\ row.telemt_username = m
    BY DEF AddProxyUser
<1> HIDE DEF row
<1> QED BY <1>1 DEF HasRow

\* Initially every account is unknown.
LEMMA InitImplements == Init => L!LifecycleInit
BY DEF Init, L!LifecycleInit, L!Accounts, Stage, Known

\* A step that writes no table creates an account in telemt, hands out a link
\* or changes nothing the abstract specification sees.
LEMMA TablesUntouched ==
    ASSUME IndInv, StepShape, UNCHANGED dbVars
    PROVE  [L!LifecycleNext]_(L!lifecycleVars)
<1> USE DEF IndInv
<1>1. \A n : (RowNext(n) <=> HasRow(n)) /\ ((\E r \in links' : r.label = n) <=> HasLink(n))
    BY DEF dbVars, HasRow, HasLink
<1>2. CASE \E m \in Names : ~Known(m) /\ Known(m)'
              /\ \A n \in Names \ {m} : Known(n)' <=> Known(n)
    <2>1. PICK m \in Names : ~Known(m) /\ KnownNext(m)
              /\ \A n \in Names \ {m} : KnownNext(n) <=> Known(n)
        BY <1>2 DEF Known
    <2>2. UNCHANGED served
        BY <2>1 DEF StepShape, AccountStep, Known
    <2>3. ~HasRow(m)
        BY <2>1 DEF RowsHaveTelemtUser, HasRow
    <2>4. Stage(m) = "unknown" /\ StageNext(m) = "orphan"
        BY <1>1, <2>1, <2>3 DEF Stage, StageNext
    <2>5. \A n \in Names \ {m} : StageNext(n) = Stage(n)
        BY <1>1, <2>1 DEF Stage, StageNext
    <2>6. L!Provision(m)
        BY <2>2, <2>4, <2>5, AdvanceOne DEF L!Provision
    <2> QED BY <2>6 DEF L!LifecycleNext, L!Accounts
<1>3. CASE \A n \in Names : Known(n)' <=> Known(n)
    <2>1. \A n \in Names : StageNext(n) = Stage(n)
        BY <1>1, <1>3 DEF Stage, StageNext, Known
    <2>2. UNCHANGED [n \in Names |-> Stage(n)]
        BY <2>1, MappingNext
    <2>3. CASE UNCHANGED served
        BY <2>2, <2>3 DEF L!lifecycleVars
    <2>4. ASSUME NEW t \in BotTasks, pc[t] = "sending",
                 served' = served \cup {[name |-> name[t], secret |-> held[t]]}
          PROVE  \E u \in TelegramUsers : L!Deliver(u)
        <3>1. name[t] \in TelegramUsers /\ HasRow(name[t])
            BY <2>4 DEF NamesFit, TaskKnowledge
        <3>2. Stage(name[t]) = "known"
            BY <3>1 DEF Stage, RowsHaveTelemtUser, HasRow
        <3>3. {s.name : s \in served'} = {s.name : s \in served} \cup {name[t]}
            <4> DEFINE sent == [name |-> name[t], secret |-> held[t]]
            <4>1. served' = served \cup {sent} /\ sent.name = name[t]
                BY <2>4
            <4> HIDE DEF sent
            <4> QED BY <4>1
        <3>4. [n \in Names |-> Stage(n)][name[t]] = "known"
            BY <3>1, <3>2
        <3>5. {s.name : s \in served}' = {s.name : s \in served}  \cup {name[t]}
            BY <3>3
        <3>6. PICK u \in TelegramUsers : u = name[t]
            BY <3>1
        <3>7. L!Deliver(u)
            BY <2>2, <3>4, <3>5, <3>6, Zenon DEF L!Deliver
        <3> QED BY <3>7
    <2>5. CASE ~ UNCHANGED served
        <3>1. \E u \in TelegramUsers : L!Deliver(u)
            BY <2>4, <2>5, Zenon DEF StepShape, ServedStep
        <3> QED BY <3>1 DEF L!LifecycleNext
    <2> QED BY <2>3, <2>5
<1> QED BY <1>2, <1>3 DEF StepShape, AccountStep

\* A step that writes a table registers a user, lists a label or retires one.
LEMMA TablesWritten ==
    ASSUME IndInv, StepShape, ~ UNCHANGED dbVars
    PROVE  L!LifecycleNext
<1> USE DEF IndInv
<1>1. UNCHANGED served /\ \A n \in Names : KnownNext(n) <=> Known(n)
    BY DEF StepShape, ServedStep, AccountStep, Known
<1>2. ASSUME NEW t \in BotTasks, pc[t] = "created", ~HasRow(name[t]),
             AddProxyUser(name[t], "bot"), UNCHANGED links
      PROVE  L!LifecycleNext
    <2>1. name[t] \in TelegramUsers /\ Known(name[t])
        BY <1>2 DEF NamesFit, RowsHaveTelemtUser
    <2>2. RowNext(name[t]) /\ \A n \in Names \ {name[t]} : RowNext(n) <=> HasRow(n)
        BY <1>2, OneRowMore
    <2>3. Stage(name[t]) = "orphan" /\ StageNext(name[t]) = "known"
        BY <1>1, <1>2, <2>1, <2>2 DEF Stage, StageNext
    <2>4. \A n \in Names \ {name[t]} : StageNext(n) = Stage(n)
        BY <1>1, <1>2, <2>2 DEF Stage, StageNext, HasLink
    <2>5. L!Register(name[t])
        BY <1>1, <2>1, <2>3, <2>4, AdvanceOne DEF L!Register
    <2> QED BY <2>1, <2>5 DEF L!LifecycleNext
<1>3. ASSUME NEW t \in ApiTasks, pc[t] = "flushed", InsertLink(t)
      PROVE  L!LifecycleNext
    <2>1. /\ name[t] \in Labels /\ name[t] \notin TelegramUsers
          /\ Known(name[t]) /\ ~HasRow(name[t])
        BY <1>3, AccountsDisjoint DEF NamesFit, RowsHaveTelemtUser, SecondConflictUnreachable
    <2>2. RowNext(name[t]) /\ \A n \in Names \ {name[t]} : RowNext(n) <=> HasRow(n)
        BY <1>3, OneRowMore DEF InsertLink
    <2>3. /\ \E r \in links' : r.label = name[t]
          /\ \A n \in Names \ {name[t]} : (\E r \in links' : r.label = n) <=> HasLink(n)
        <3> DEFINE row == [label |-> name[t], secret |-> held[t]]
        <3>1. links' = links \cup {row} /\ row.label = name[t]
            BY <1>3 DEF InsertLink
        <3> HIDE DEF row
        <3> QED BY <3>1 DEF HasLink
    <2>4. Stage(name[t]) = "orphan" /\ StageNext(name[t]) = "listed"
        BY <1>1, <2>1, <2>2, <2>3 DEF Stage, StageNext
    <2>5. \A n \in Names \ {name[t]} : StageNext(n) = Stage(n)
        BY <1>1, <2>2, <2>3 DEF Stage, StageNext
    <2>6. L!List(name[t])
        BY <1>1, <2>1, <2>4, <2>5, AdvanceOne DEF L!List
    <2> QED BY <2>1, <2>6 DEF L!LifecycleNext
<1>4. ASSUME NEW t \in ApiTasks, pc[t] = "removing", DropLink(t)
      PROVE  L!LifecycleNext
    <2>1. /\ name[t] \in Labels /\ name[t] \notin TelegramUsers
          /\ HasRow(name[t]) /\ Known(name[t])
        BY <1>4, AccountsDisjoint DEF NamesFit, TaskKnowledge, RowsHaveTelemtUser, HasRow
    <2>2. HasLink(name[t])
        BY <1>4 DEF DropLink, HasLink, dbVars
    <2>3. \A n : RowNext(n) <=> HasRow(n)
        BY <1>4 DEF DropLink, HasRow
    <2>4. /\ ~ \E r \in links' : r.label = name[t]
          /\ \A n \in Names \ {name[t]} : (\E r \in links' : r.label = n) <=> HasLink(n)
        BY <1>4 DEF DropLink, HasLink
    <2>5. Stage(name[t]) = "listed" /\ StageNext(name[t]) = "retired"
        BY <1>1, <2>1, <2>2, <2>3, <2>4 DEF Stage, StageNext
    <2>6. \A n \in Names \ {name[t]} : StageNext(n) = Stage(n)
        BY <1>1, <2>3, <2>4 DEF Stage, StageNext
    <2>7. L!Retire(name[t])
        BY <1>1, <2>1, <2>5, <2>6, AdvanceOne DEF L!Retire
    <2> QED BY <2>1, <2>7 DEF L!LifecycleNext
<1> QED BY <1>2, <1>3, <1>4 DEF StepShape, TablesStep

\* Provisioning implements Lifecycle: an account is created in telemt, then
\* committed, a label is retired once and for all, and links go to users the
\* database knows, for every number of users, handlers and failures.
THEOREM Implements == Spec => RefinesLifecycle
<1>1. Init => L!LifecycleInit
    BY InitImplements
<1>2. IndInv /\ [Next]_vars => [L!LifecycleNext]_(L!lifecycleVars)
    <2> SUFFICES ASSUME IndInv, [Next]_vars
                 PROVE  [L!LifecycleNext]_(L!lifecycleVars)
        OBVIOUS
    <2>1. StepShape
        BY NextShape DEF IndInv
    <2> QED BY <2>1, TablesUntouched, TablesWritten
<1> QED BY <1>1, <1>2, Inductive, PTL DEF Spec, RefinesLifecycle, L!LifecycleSpec
=============================================================================
