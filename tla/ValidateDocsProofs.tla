-------------------------- MODULE ValidateDocsProofs --------------------------
(***************************************************************************)
(* That detect_cycle finds a cycle exactly when there is one, and what     *)
(* exit code 0 of the validator means, for every folder of documents.      *)
(***************************************************************************)
EXTENDS ValidateDocs, SequenceTheorems, TLAPS

Early == phase \in {"collect", "check", "cite", "depend"}

\* The search has not begun.
Unbegun ==
    Early => /\ stack = <<>>
             /\ \A n \in Nodes : color[n] = 0

TypeInv == TypeOK /\ Unbegun /\ (cycle # <<>> => Searched)

\* The nodes in the stack are those in colour 1, each there once.
Marked ==
    /\ \A n \in Nodes : color[n] = 1 <=> \E k \in 1..Len(stack) : stack[k] = n
    /\ \A j, k \in 1..Len(stack) : stack[j] = stack[k] => j = k

\* Each node in the stack depends on the next one.
IsPath == \A k \in 1..(Len(stack) - 1) : stack[k + 1] \in ticketDeps[stack[k]]

\* What a frame has taken is done, or the frame above it.
Taken ==
    /\ \A k \in 1..Len(stack) : todo[stack[k]] \subseteq ticketDeps[stack[k]]
    /\ \A k \in 1..Len(stack) : \A d \in Nodes :
          d \in ticketDeps[stack[k]] /\ d \notin todo[stack[k]] =>
              color[d] = 2 \/ (k < Len(stack) /\ d = stack[k + 1])

\* What a node depends on is done before it.
DoneClosed ==
    \A n \in Nodes : color[n] = 2 => \A d \in ticketDeps[n] \cap Nodes : color[d] = 2

\* The nodes that are done do not wait for each other in a circle.
DoneOrdered ==
    \A tickets \in SUBSET Nodes : Circular(tickets) => \E n \in tickets : color[n] # 2

Searching == Marked /\ IsPath /\ Taken /\ DoneClosed /\ DoneOrdered

SearchInv ==
    /\ ~Searched => Searching
    /\ Searched /\ cycle = <<>> => \A tickets \in SUBSET Nodes : ~Circular(tickets)
    /\ CycleIsClosed

\* What each loop has established when no error was found.
Established ==
    LET ids == {folder[k].id : k \in Parsed} IN
    /\ phase # "collect" => known = ids
    /\ phase \notin {"collect", "check"} =>
          /\ Nodes = Tickets \cap ids
          /\ \A t \in Nodes : ticketDeps[t] = DependsOn(t)
    /\ phase \notin {"collect", "check", "cite"} /\ "dangling" \notin errors =>
          \A k \in Parsed : Dangling(k) = {}
    /\ phase \notin {"collect", "check", "cite", "depend"} /\ "missing" \notin errors =>
          \A t \in Nodes : ticketDeps[t] \subseteq known
    /\ cycle # <<>> => "cycle" \in errors
    /\ phase = "ok" => errors = {}

-------------------------------------------------------------------------------
(* Types.                                                                  *)

LEMMA ParsedIds ==
  ASSUME TypeOK
  PROVE  /\ \A k \in Parsed : folder[k].id \in Ids
         /\ \A k \in DOMAIN folder : folder[k] \in Document
         /\ \A t : DependsOn(t) \subseteq Ids
<1>1. \A k \in DOMAIN folder : folder[k] \in Document
  BY LenProperties, ElementOfSeq DEF TypeOK
<1>2. \A k \in Parsed : folder[k].id \in Ids
  BY <1>1 DEF Parsed, Document
<1>3. \A k \in DOMAIN folder : folder[k].deps \in SUBSET Citation
  BY <1>1 DEF Document
<1>4. ASSUME NEW t PROVE DependsOn(t) \subseteq Ids
  <2>1. UNION {folder[k].deps : k \in LastOf(t)} \subseteq Citation
    BY <1>3 DEF LastOf, Parsed
  <2> QED
    BY <2>1 DEF DependsOn, Refs, Citation
<1> QED
  BY <1>1, <1>2, <1>4

\* A call pushes an unvisited node.
LEMMA CallTyped ==
  ASSUME TypeOK, NEW n \in Nodes, Call(n), ticketDeps' = ticketDeps
  PROVE  /\ color' \in [Nodes -> 0..2]'
         /\ stack' \in Seq(Nodes)'
         /\ Len(stack') = Len(stack) + 1
         /\ \A k \in 1..Len(stack) : stack'[k] = stack[k]
         /\ stack'[Len(stack) + 1] = n
<1>1. color' \in [Nodes -> 0..2]
  BY DEF TypeOK, Call
<1>2. stack \in Seq(Nodes) /\ stack' = Append(stack, n)
  BY DEF TypeOK, Call
<1>3. /\ stack' \in Seq(Nodes)
      /\ Len(stack') = Len(stack) + 1
      /\ \A k \in 1..Len(stack) : stack'[k] = stack[k]
      /\ stack'[Len(stack) + 1] = n
  BY <1>2, AppendProperties
<1> QED
  BY <1>1, <1>3 DEF Nodes

\* The frame on top is one of a node.
LEMMA TopNode ==
  ASSUME TypeOK, stack # <<>>
  PROVE  /\ Len(stack) \in Nat \ {0}
         /\ Top \in Nodes
         /\ \A k \in 1..Len(stack) : stack[k] \in Nodes
<1>1. Len(stack) \in Nat \ {0}
  BY EmptySeq DEF TypeOK
<1>2. \A k \in 1..Len(stack) : stack[k] \in Nodes
  BY ElementOfSeq DEF TypeOK
<1> QED
  BY <1>1, <1>2 DEF Top
\* The stack from the node it comes back to, and the node again.
LEMMA FoundCycle ==
  ASSUME TypeOK, Marked, NEW d \in Nodes, Found(d)
  PROVE  LET i == IndexOf(d) IN
         /\ i \in 1..Len(stack) /\ stack[i] = d
         /\ Len(stack) \in Nat
         /\ cycle' \in Seq(Nodes)
         /\ Len(cycle') = Len(stack) - i + 2
         /\ \A k \in 1..(Len(stack) - i + 1) : cycle'[k] = stack[i + k - 1]
         /\ cycle'[Len(stack) - i + 2] = d
<1> DEFINE i == IndexOf(d)
           rest == SubSeq(stack, i, Len(stack))
<1>0. Len(stack) \in Nat \ {0} /\ DOMAIN stack = 1..Len(stack)
  BY TopNode, LenProperties DEF TypeOK, Found, Takes
<1>1. \E k \in DOMAIN stack : stack[k] = d
  BY <1>0 DEF Marked, Found
<1>2. i \in 1..Len(stack) /\ stack[i] = d
  BY <1>0, <1>1 DEF IndexOf
<1>3. \A k \in i..Len(stack) : stack[k] \in Nodes
  BY <1>0, <1>2, ElementOfSeq DEF TypeOK
<1>4. /\ rest \in Seq(Nodes)
      /\ Len(rest) = Len(stack) - i + 1
      /\ \A k \in 1..(Len(stack) - i + 1) : rest[k] = stack[i + k - 1]
  BY <1>0, <1>2, <1>3, SubSeqProperties
<1>5. cycle' = Append(rest, d)
  BY <1>4, AppendIsConcat DEF Found
<1>6. /\ cycle' \in Seq(Nodes)
      /\ Len(cycle') = Len(rest) + 1
      /\ \A k \in 1..Len(rest) : cycle'[k] = rest[k]
      /\ cycle'[Len(rest) + 1] = d
  BY <1>4, <1>5, AppendProperties
<1>7. Len(rest) + 1 = Len(stack) - i + 2
  BY <1>0, <1>2, <1>4
<1>8. \A k \in 1..(Len(stack) - i + 1) : cycle'[k] = stack[i + k - 1]
  BY <1>4, <1>6
<1> QED
  BY <1>0, <1>2, <1>6, <1>7, <1>8

\* A return pops the frame on top.
LEMMA ReturnTyped ==
  ASSUME TypeOK, Return
  PROVE  /\ stack' \in Seq(Nodes)
         /\ Len(stack') = Len(stack) - 1
         /\ \A k \in 1..(Len(stack) - 1) : stack'[k] = stack[k]
         /\ color' \in [Nodes -> 0..2]
<1>1. /\ Len(stack) \in Nat \ {0}
      /\ Top \in Nodes
      /\ \A k \in 1..(Len(stack) - 1) : stack[k] \in Nodes
  BY TopNode DEF Return
<1>2. /\ stack' \in Seq(Nodes)
      /\ Len(stack') = Len(stack) - 1
      /\ \A k \in 1..(Len(stack) - 1) : stack'[k] = stack[k]
  <2> DEFINE last == Len(stack) - 1
  <2>1. last \in Nat /\ 1 \in Int /\ last \in Int
    BY <1>1
  <2>2. stack' = SubSeq(stack, 1, last)
    BY DEF Return
  <2>3. /\ SubSeq(stack, 1, last) \in Seq(Nodes)
        /\ Len(SubSeq(stack, 1, last)) = IF 1 <= last THEN last - 1 + 1 ELSE 0
        /\ \A k \in 1..(last - 1 + 1) : SubSeq(stack, 1, last)[k] = stack[1 + k - 1]
    BY <1>1, <2>1, SubSeqProperties
  <2> QED
    BY <2>1, <2>2, <2>3
<1>3. color' \in [Nodes -> 0..2]
  BY <1>1 DEF Return, TypeOK
<1> QED
  BY <1>2, <1>3

LEMMA TypedStep ==
  ASSUME TypeInv, ~Searched => Marked, [Next]_vars
  PROVE  TypeInv'
<1> USE DEF Nodes, TypeInv, Unbegun, Early, Searched, Phases
<1>1. CASE Collect
  <2>1. known' \subseteq Ids
    BY <1>1, ParsedIds DEF Collect
  <2>2. errors' \subseteq Kinds
    BY <1>1 DEF Collect, Failing, Kinds, TypeOK
  <2> QED
    BY <1>1, <2>1, <2>2 DEF Collect, search, TypeOK
<1>2. CASE Check
  <2> DEFINE listed == {k \in Parsed : folder[k].id \notin Unlisted}
             tickets == {folder[k].id : k \in listed} \cap Tickets
  <2>1. errors' \subseteq Kinds
    BY <1>2 DEF Check, Failing, Kinds, TypeOK
  <2>2. /\ ticketDeps' = [t \in tickets |-> DependsOn(t)]
        /\ color' = [t \in tickets |-> 0]
        /\ todo' = [t \in tickets |-> {}]
        /\ Nodes' = tickets
    BY <1>2 DEF Check
  <2>3. ticketDeps' \in [tickets -> SUBSET Ids]
    BY <2>2, ParsedIds
  <2>4. stack' = <<>> /\ cycle' = <<>> /\ <<>> \in Seq(Nodes')
    BY <1>2, EmptySeq DEF Check
  <2>5. color' \in [tickets -> 0..2] /\ todo' \in [tickets -> SUBSET Ids]
    BY <2>2
  <2>6. folder' = folder /\ known' = known /\ phase' = "cite"
    BY <1>2 DEF Check
  <2> QED
    BY <2>1, <2>2, <2>3, <2>4, <2>5, <2>6 DEF TypeOK
<1>3. CASE Cite
  <2>1. errors' \subseteq Kinds
    BY <1>3 DEF Cite, Failing, Kinds, TypeOK
  <2> QED
    BY <1>3, <2>1 DEF Cite, search, TypeOK
<1>4. CASE Depend
  <2>1. errors' \subseteq Kinds
    BY <1>4 DEF Depend, Failing, Kinds, TypeOK
  <2> QED
    BY <1>4, <2>1 DEF Depend, search, TypeOK
<1>5. ASSUME NEW n \in Nodes, Root(n) PROVE TypeInv'
  <2>1. todo' \in [Nodes -> SUBSET Ids]
    BY <1>5 DEF Root, TypeOK
  <2> QED
    BY <1>5, <2>1, CallTyped DEF Root, TypeOK
<1>6. ASSUME NEW d \in Ids, Descend(d) PROVE TypeInv'
  <2>1. todo' \in [Nodes -> SUBSET Ids]
    BY <1>6, TopNode DEF Descend, Takes, TypeOK
  <2> QED
    BY <1>6, <2>1, CallTyped DEF Descend, Takes, TypeOK
<1>7. ASSUME NEW d \in Ids, PassOver(d) PROVE TypeInv'
  <2>1. todo' \in [Nodes -> SUBSET Ids]
    BY <1>7, TopNode DEF PassOver, Takes, TypeOK
  <2> QED
    BY <1>7, <2>1 DEF PassOver, Takes, TypeOK
<1>8. ASSUME NEW d \in Ids, Found(d) PROVE TypeInv'
  <2>1. cycle' \in Seq(Nodes)
    BY <1>8, FoundCycle DEF Found, Takes
  <2> QED
    BY <1>8, <2>1 DEF Found, Takes, TypeOK, Kinds
<1>9. CASE Return
  <2>1. /\ stack' \in Seq(Nodes)
        /\ color' \in [Nodes -> 0..2]
    BY <1>9, ReturnTyped
  <2> QED
    BY <1>9, <2>1 DEF Return, TypeOK
<1>10. CASE NoCycle
  BY <1>10 DEF NoCycle, search, TypeOK
<1>11. CASE Report
  BY <1>11 DEF Report, search, TypeOK
<1>12. CASE UNCHANGED vars
  BY <1>12 DEF vars, TypeOK
<1> QED
  BY <1>1, <1>2, <1>3, <1>4, <1>5, <1>6, <1>7, <1>8, <1>9, <1>10, <1>11, <1>12 DEF Next

-------------------------------------------------------------------------------
(* The search.                                                             *)

\* The search starts with nothing marked.
LEMMA NothingMarked ==
  ASSUME stack = <<>>, \A n \in Nodes : color[n] = 0
  PROVE  Searching
<1>1. 1..Len(stack) = {} /\ 1..(Len(stack) - 1) = {}
  OBVIOUS
<1>2. Marked /\ IsPath /\ Taken
  BY <1>1 DEF Marked, IsPath, Taken
<1>3. DoneClosed /\ DoneOrdered
  BY DEF DoneClosed, DoneOrdered, Circular
<1> QED
  BY <1>2, <1>3 DEF Searching

\* A node is entered from the loop over tickets.
LEMMA RootSearches ==
  ASSUME TypeOK, Searching, NEW n \in Nodes, Root(n)
  PROVE  Searching'
<1>1. /\ Len(stack) = 0
      /\ Len(stack') = 1
      /\ stack'[1] = n
  BY CallTyped DEF Root
<1>2. /\ Nodes' = Nodes
      /\ ticketDeps' = ticketDeps
      /\ \A m \in Nodes : color'[m] = IF m = n THEN 1 ELSE color[m]
      /\ color[n] = 0
      /\ todo'[n] = ticketDeps[n]
  BY DEF Root, Call, TypeOK, Nodes
<1>3. \A m \in Nodes : color[m] # 1
  BY <1>1 DEF Searching, Marked
<1>4. Marked' /\ IsPath' /\ Taken'
  BY <1>1, <1>2, <1>3 DEF Marked, IsPath, Taken
<1>5. DoneClosed'
  BY <1>2 DEF Searching, DoneClosed
<1>6. DoneOrdered'
  BY <1>2 DEF Searching, DoneOrdered, Circular
<1> QED
  BY <1>4, <1>5, <1>6 DEF Searching

\* The frame on top calls itself for a dependency.
LEMMA DescendSearches ==
  ASSUME TypeOK, Searching, NEW d \in Nodes, Descend(d)
  PROVE  Searching'
<1> DEFINE L == Len(stack)
<1>1. L \in Nat \ {0} /\ Top \in Nodes /\ \A k \in 1..L : stack[k] \in Nodes
  BY TopNode DEF Descend, Takes
<1>2. /\ Len(stack') = L + 1
      /\ \A k \in 1..L : stack'[k] = stack[k]
      /\ stack'[L + 1] = d
  BY CallTyped DEF Descend
<1>3. /\ Nodes' = Nodes
      /\ ticketDeps' = ticketDeps
      /\ \A m \in Nodes : color'[m] = IF m = d THEN 1 ELSE color[m]
      /\ color[d] = 0
      /\ d \in todo[Top]
  BY DEF Descend, Takes, Call, TypeOK, Nodes
<1>4. \A k \in 1..L : stack[k] # d
  BY <1>3 DEF Searching, Marked
<1>5. /\ Top = stack[L]
      /\ \A k \in 1..(L - 1) : stack[k] # Top
  BY <1>1 DEF Searching, Marked, Top
<1>6. /\ todo'[d] = ticketDeps[d]
      /\ todo'[Top] = todo[Top] \ {d}
      /\ \A m \in Nodes : m # d /\ m # Top => todo'[m] = todo[m]
  <2>1. /\ todo' = [todo EXCEPT ![Top] = @ \ {d}, ![d] = ticketDeps[d]]
        /\ todo \in [Nodes -> SUBSET Ids]
    BY DEF Descend, TypeOK
  <2>2. Top # d
    BY <1>1, <1>4, <1>5
  <2> QED
    BY <1>1, <2>1, <2>2
<1>7. d \in ticketDeps[Top]
  <2>1. L \in 1..L
    BY <1>1
  <2>2. todo[stack[L]] \subseteq ticketDeps[stack[L]]
    BY <2>1 DEF Searching, Taken
  <2> QED
    BY <1>3, <1>5, <2>2
<1>8. Marked'
  <2>1. \A m \in Nodes : color'[m] = 1 <=> \E k \in 1..(L + 1) : stack'[k] = m
    <3> TAKE m \in Nodes
    <3>1. CASE m = d
      BY <1>1, <1>2, <1>3, <3>1
    <3>2. CASE m # d
      BY <1>1, <1>2, <1>3, <3>2 DEF Searching, Marked
    <3> QED
      BY <3>1, <3>2
  <2>2. \A j, k \in 1..(L + 1) : stack'[j] = stack'[k] => j = k
    BY <1>1, <1>2, <1>4 DEF Searching, Marked
  <2> QED
    BY <1>2, <1>3, <2>1, <2>2 DEF Marked
<1>9. IsPath'
  <2> SUFFICES ASSUME NEW k \in 1..L PROVE stack'[k + 1] \in ticketDeps[stack'[k]]
    BY <1>1, <1>2, <1>3 DEF IsPath
  <2>1. CASE k = L
    BY <1>1, <1>2, <1>5, <1>7, <2>1
  <2>2. CASE k # L
    BY <1>1, <1>2, <2>2 DEF Searching, IsPath
  <2> QED
    BY <2>1, <2>2
<1>10. Taken'
  <2>1. ASSUME NEW k \in 1..(L + 1)
        PROVE  /\ todo'[stack'[k]] \subseteq ticketDeps[stack'[k]]
               /\ \A e \in Nodes :
                     e \in ticketDeps[stack'[k]] /\ e \notin todo'[stack'[k]] =>
                     color'[e] = 2 \/ (k < L + 1 /\ e = stack'[k + 1])
    <3>1. CASE k = L + 1
      BY <1>2, <1>6, <3>1
    <3>2. CASE k = L
      <4>1. stack'[k] = Top /\ stack'[k + 1] = d
        BY <1>1, <1>2, <1>5, <3>2
      <4>2. todo[Top] \subseteq ticketDeps[Top]
        BY <1>1, <1>5 DEF Searching, Taken
      <4>3. \A e \in Nodes :
                  e \in ticketDeps[Top] /\ e \notin todo[Top] => color[e] = 2
        BY <1>1, <1>5 DEF Searching, Taken
      <4> QED
        BY <1>1, <1>3, <1>6, <3>2, <4>1, <4>2, <4>3
    <3>3. CASE k \in 1..(L - 1)
      <4>1. stack'[k] = stack[k] /\ stack'[k + 1] = stack[k + 1] /\ stack[k] \in Nodes
        BY <1>1, <1>2, <3>3
      <4>2. todo'[stack[k]] = todo[stack[k]]
        BY <1>1, <1>4, <1>5, <1>6, <3>3
      <4>3. /\ todo[stack[k]] \subseteq ticketDeps[stack[k]]
            /\ \A e \in Nodes : e \in ticketDeps[stack[k]] /\ e \notin todo[stack[k]] =>
                  color[e] = 2 \/ e = stack[k + 1]
        BY <1>1, <3>3 DEF Searching, Taken
      <4>4. \A e \in Nodes : color[e] = 2 => color'[e] = 2
        BY <1>3
      <4>5. k < L + 1
        BY <1>1, <3>3
      <4> QED
        BY <4>1, <4>2, <4>3, <4>4, <4>5
    <3> QED
      BY <1>1, <3>1, <3>2, <3>3
  <2> QED
    BY <1>2, <1>3, <2>1 DEF Taken
<1>11. DoneClosed'
  BY <1>3 DEF Searching, DoneClosed
<1>12. DoneOrdered'
  BY <1>3 DEF Searching, DoneOrdered, Circular
<1> QED
  BY <1>8, <1>9, <1>10, <1>11, <1>12 DEF Searching

\* The frame on top takes a dependency that is done, or no ticket.
LEMMA PassOverSearches ==
  ASSUME TypeOK, Searching, NEW d \in Ids, PassOver(d)
  PROVE  Searching'
<1>1. /\ Len(stack) \in Nat \ {0} /\ Top \in Nodes
      /\ Top = stack[Len(stack)]
      /\ \A k \in 1..Len(stack) : stack[k] \in Nodes
  BY TopNode DEF PassOver, Takes, Top
<1>2. /\ Nodes' = Nodes /\ ticketDeps' = ticketDeps
      /\ color' = color /\ stack' = stack
      /\ d \in Nodes => color[d] = 2
      /\ \A m \in Nodes : todo'[m] = IF m = Top THEN todo[m] \ {d} ELSE todo[m]
  BY DEF PassOver, Nodes, TypeOK
<1>3. Marked' /\ IsPath' /\ DoneClosed' /\ DoneOrdered'
  BY <1>2 DEF Searching, Marked, IsPath, DoneClosed, DoneOrdered, Circular
<1>4. Taken'
  <2>1. ASSUME NEW k \in 1..Len(stack)
        PROVE  /\ todo'[stack[k]] \subseteq ticketDeps[stack[k]]
               /\ \A e \in Nodes : e \in ticketDeps[stack[k]] /\ e \notin todo'[stack[k]] =>
                     color[e] = 2 \/ (k < Len(stack) /\ e = stack[k + 1])
    <3>1. /\ todo[stack[k]] \subseteq ticketDeps[stack[k]]
          /\ \A e \in Nodes : e \in ticketDeps[stack[k]] /\ e \notin todo[stack[k]] =>
                color[e] = 2 \/ (k < Len(stack) /\ e = stack[k + 1])
      BY DEF Searching, Taken
    <3>2. todo[stack[k]] \ {d} \subseteq todo'[stack[k]] /\ todo'[stack[k]] \subseteq todo[stack[k]]
      BY <1>1, <1>2
    <3> QED
      BY <1>2, <3>1, <3>2
  <2> QED
    BY <1>2, <2>1 DEF Taken
<1> QED
  BY <1>3, <1>4 DEF Searching

\* The frame on top is done: a set of tickets that wait for each other among
\* those that are done now would have been one without it.
LEMMA ReturnSearches ==
  ASSUME TypeOK, Searching, Return
  PROVE  Searching'
<1> DEFINE L == Len(stack)
<1>1. /\ L \in Nat \ {0} /\ Top \in Nodes /\ Top = stack[L]
      /\ \A k \in 1..L : stack[k] \in Nodes
  BY TopNode DEF Return, Top
<1>2. /\ Len(stack') = L - 1
      /\ \A k \in 1..(L - 1) : stack'[k] = stack[k]
  BY ReturnTyped
<1>3. /\ Nodes' = Nodes /\ ticketDeps' = ticketDeps /\ todo' = todo
      /\ todo[Top] = {}
      /\ \A m \in Nodes : color'[m] = IF m = Top THEN 2 ELSE color[m]
  BY <1>1 DEF Return, Nodes, TypeOK
<1>4. color[Top] = 1 /\ \A k \in 1..(L - 1) : stack[k] # Top
  BY <1>1 DEF Searching, Marked
<1>5. \A d \in ticketDeps[Top] \cap Nodes : color[d] = 2
  BY <1>1, <1>3 DEF Searching, Taken
<1>6. Marked'
  <2>1. \A m \in Nodes : color'[m] = 1 <=> \E k \in 1..(L - 1) : stack'[k] = m
    <3> TAKE m \in Nodes
    <3>1. CASE m = Top
      BY <1>2, <1>3, <1>4, <3>1
    <3>2. CASE m # Top
      BY <1>1, <1>2, <1>3, <3>2 DEF Searching, Marked
    <3> QED
      BY <3>1, <3>2
  <2> QED
    BY <1>1, <1>2, <1>3, <2>1 DEF Searching, Marked
<1>7. IsPath'
  BY <1>1, <1>2, <1>3 DEF Searching, IsPath
<1>8. Taken'
  <2>1. ASSUME NEW k \in 1..(L - 1)
        PROVE  /\ todo[stack[k]] \subseteq ticketDeps[stack[k]]
               /\ \A e \in Nodes :
                     e \in ticketDeps[stack[k]] /\ e \notin todo[stack[k]] =>
                     color'[e] = 2 \/ (k < L - 1 /\ e = stack[k + 1])
    <3>1. /\ todo[stack[k]] \subseteq ticketDeps[stack[k]]
          /\ \A e \in Nodes : e \in ticketDeps[stack[k]] /\ e \notin todo[stack[k]] =>
                color[e] = 2 \/ e = stack[k + 1]
      BY <1>1 DEF Searching, Taken
    <3>2. stack[k + 1] # Top => k < L - 1
      BY <1>1
    <3> QED
      BY <1>3, <3>1, <3>2
  <2>2. ASSUME NEW k \in 1..(L - 1)
        PROVE  /\ todo'[stack'[k]] \subseteq ticketDeps'[stack'[k]]
               /\ \A e \in Nodes' : e \in ticketDeps'[stack'[k]] /\ e \notin todo'[stack'[k]] =>
                     color'[e] = 2 \/ (k < L - 1 /\ e = stack'[k + 1])
    <3>1. stack'[k] = stack[k] /\ (k < L - 1 => stack'[k + 1] = stack[k + 1])
      BY <1>1, <1>2
    <3> QED
      BY <1>3, <2>1, <3>1
  <2> QED
    BY <1>2, <2>2 DEF Taken
<1>9. DoneClosed'
  BY <1>3, <1>5 DEF Searching, DoneClosed
<1>10. DoneOrdered'
  <2> SUFFICES ASSUME NEW tickets \in SUBSET Nodes, Circular(tickets),
                      \A n \in tickets : color'[n] = 2
               PROVE  FALSE
    BY <1>3 DEF DoneOrdered, Circular
  <2>1. CASE Top \notin tickets
    BY <1>3, <2>1 DEF Searching, DoneOrdered
  <2>2. CASE Top \in tickets
    <3> DEFINE rest == tickets \ {Top}
    <3>1. \A n \in rest : color[n] = 2
      BY <1>3
    <3>2. rest # {}
      BY <1>4, <1>5, <2>2 DEF Circular
    <3>3. \A n \in rest : ticketDeps[n] \cap rest # {}
      BY <1>4, <3>1 DEF Circular, Searching, DoneClosed
    <3>4. Circular(rest) /\ rest \in SUBSET Nodes
      BY <3>2, <3>3 DEF Circular
    <3> QED
      BY <3>1, <3>4 DEF Searching, DoneOrdered
  <2> QED
    BY <2>1, <2>2
<1> QED
  BY <1>6, <1>7, <1>8, <1>9, <1>10 DEF Searching

\* The nodes of a closed path wait for each other.
LEMMA CycleCircular ==
  ASSUME TypeOK, CycleIsClosed, cycle # <<>>
  PROVE  \E tickets \in SUBSET Nodes : Circular(tickets)
<1> DEFINE last == Len(cycle)
           tickets == {cycle[k] : k \in 1..last}
<1>1. last \in Nat /\ last > 1 /\ \A k \in 1..last : cycle[k] \in Nodes
  BY LenProperties, ElementOfSeq DEF TypeOK, CycleIsClosed
<1>2. tickets \in SUBSET Nodes
  BY <1>1
<1>3. cycle[1] \in tickets
  BY <1>1
<1>4. ASSUME NEW k \in 1..last
      PROVE  ticketDeps[cycle[k]] \cap tickets # {}
  <2>1. CASE k < last
    <3>1. cycle[k + 1] \in ticketDeps[cycle[k]]
      BY <1>1, <2>1 DEF CycleIsClosed
    <3>2. cycle[k + 1] \in tickets
      BY <1>1, <2>1
    <3> QED
      BY <3>1, <3>2
  <2>2. CASE k = last
    <3>1. cycle[2] \in ticketDeps[cycle[1]]
      <4>1. 1 \in 1..(last - 1) /\ 1 + 1 = 2
        BY <1>1
      <4> QED
        BY <4>1 DEF CycleIsClosed
    <3>2. cycle[2] \in tickets
      BY <1>1
    <3>3. cycle[k] = cycle[1]
      BY <2>2 DEF CycleIsClosed
    <3> QED
      BY <3>1, <3>2, <3>3
  <2> QED
    BY <1>1, <2>1, <2>2
<1>5. Circular(tickets)
  BY <1>3, <1>4 DEF Circular
<1> QED
  BY <1>2, <1>5

\* What is found is a cycle.
LEMMA FoundCloses ==
  ASSUME TypeOK, Searching, NEW d \in Nodes, Found(d)
  PROVE  CycleIsClosed' /\ cycle' # <<>>
<1> DEFINE L == Len(stack)
           i == IndexOf(d)
           n == L - i + 1
<1>1. /\ L \in Nat /\ i \in 1..L /\ stack[i] = d
      /\ cycle' \in Seq(Nodes)
      /\ Len(cycle') = n + 1
      /\ \A k \in 1..n : cycle'[k] = stack[i + k - 1]
      /\ cycle'[n + 1] = d
  <2>1. L - i + 2 = n + 1
    BY FoundCycle DEF Searching
  <2> QED
    BY <2>1, FoundCycle DEF Searching
<1>2. n \in Nat \ {0}
  BY <1>1
<1> HIDE DEF i
<1>3. Top = stack[L] /\ d \in todo[Top] /\ ticketDeps' = ticketDeps
  BY DEF Found, Takes, Top
<1>4. todo[stack[L]] \subseteq ticketDeps[stack[L]]
  <2>1. L \in 1..L
    BY <1>1
  <2> QED
    BY <2>1 DEF Searching, Taken
<1>5. cycle'[1] = d
  <2>1. 1 \in 1..n /\ i + 1 - 1 = i
    BY <1>1, <1>2
  <2>2. cycle'[1] = stack[i + 1 - 1]
    BY <1>1, <2>1
  <2> QED
    BY <1>1, <2>1, <2>2
<1>6. ASSUME NEW k \in 1..n
      PROVE  cycle'[k + 1] \in ticketDeps[cycle'[k]]
  <2>1. CASE k = n
    <3>1. i + k - 1 = L /\ k + 1 = n + 1
      BY <1>1, <2>1
    <3>2. cycle'[k] = stack[L] /\ cycle'[k + 1] = d
      BY <1>1, <3>1
    <3> QED
      BY <1>3, <1>4, <3>2
  <2>2. CASE k # n
    <3>1. k + 1 \in 1..n /\ i + (k + 1) - 1 = (i + k - 1) + 1 /\ i + k - 1 \in 1..(L - 1)
      <4>1. k \in Nat /\ 1 <= k /\ k <= n
        BY <1>2
      <4>2. k < n
        BY <1>2, <2>2, <4>1
      <4> QED
        BY <1>1, <4>1, <4>2
    <3>2. cycle'[k] = stack[i + k - 1] /\ cycle'[k + 1] = stack[(i + k - 1) + 1]
      BY <1>1, <3>1
    <3>3. stack[(i + k - 1) + 1] \in ticketDeps[stack[i + k - 1]]
      BY <3>1 DEF Searching, IsPath
    <3> QED
      BY <3>2, <3>3
  <2> QED
    BY <2>1, <2>2
<1>7. cycle' # <<>> /\ Len(cycle') > 1 /\ Len(cycle') - 1 = n
  BY <1>1, <1>2, EmptySeq
<1> QED
  BY <1>1, <1>3, <1>5, <1>6, <1>7 DEF CycleIsClosed

LEMMA SearchStep ==
  ASSUME TypeInv, SearchInv, [Next]_vars
  PROVE  SearchInv'
<1> USE DEF TypeInv
<1>0. \/ Collect \/ Check \/ Cite \/ Depend \/ Return \/ NoCycle \/ Report
      \/ \E n \in Nodes : Root(n)
      \/ \E d \in Ids : Descend(d) \/ PassOver(d) \/ Found(d)
      \/ UNCHANGED vars
  BY DEF Next
<1>1. CASE Collect \/ Cite \/ Depend
  <2>1. /\ ~Searched /\ ~Searched'
        /\ UNCHANGED <<search, ticketDeps, folder>>
    BY <1>1 DEF Collect, Cite, Depend, Searched
  <2> QED
    BY <2>1 DEF SearchInv, Searching, Marked, IsPath, Taken, DoneClosed,
                DoneOrdered, Circular, CycleIsClosed, search, Nodes
<1>2. CASE Check
  <2>1. stack' = <<>> /\ cycle' = <<>> /\ ~Searched'
    BY <1>2 DEF Check, Unbegun, Early, Searched
  <2>2. \A n \in Nodes' : color'[n] = 0
    BY <1>2 DEF Check, Nodes
  <2>3. Searching'
    <3>1. 1..Len(stack') = {} /\ 1..(Len(stack') - 1) = {}
      BY <2>1
    <3>2. Marked' /\ IsPath' /\ Taken'
      BY <2>2, <3>1 DEF Marked, IsPath, Taken
    <3>3. DoneClosed' /\ DoneOrdered'
      BY <2>2 DEF DoneClosed, DoneOrdered, Circular
    <3> QED
      BY <3>2, <3>3 DEF Searching
  <2> QED
    BY <2>1, <2>3 DEF SearchInv, CycleIsClosed
<1>3. ASSUME ~Searched, ~Searched', Searching', UNCHANGED cycle
      PROVE  SearchInv'
  BY <1>3 DEF SearchInv, CycleIsClosed
<1>4. CASE \E n \in Nodes : Root(n)
  BY <1>3, <1>4, RootSearches DEF Root, Searched, SearchInv
<1>5. CASE \E d \in Ids : Descend(d)
  BY <1>3, <1>5, DescendSearches DEF Descend, Takes, Searched, SearchInv
<1>6. CASE \E d \in Ids : PassOver(d)
  BY <1>3, <1>6, PassOverSearches DEF PassOver, Takes, Searched, SearchInv
<1>7. CASE Return
  BY <1>3, <1>7, ReturnSearches DEF Return, Searched, SearchInv
<1>8. ASSUME NEW d \in Ids, Found(d) PROVE SearchInv'
  <2>1. CycleIsClosed' /\ cycle' # <<>>
    BY <1>8, FoundCloses DEF Found, Takes, Searched, SearchInv
  <2>2. Searched'
    BY <1>8 DEF Found, Searched
  <2> QED
    BY <2>1, <2>2 DEF SearchInv
<1>9. CASE NoCycle
  <2>1. \A n \in Nodes : color[n] = 2
    <3>1. Searching /\ Len(stack) = 0
      BY <1>9 DEF NoCycle, SearchInv, Searched
    <3>2. \A n \in Nodes : color[n] \in 0..2 /\ color[n] # 0 /\ color[n] # 1
      BY <1>9, <3>1 DEF NoCycle, TypeOK, Searching, Marked
    <3> QED
      BY <3>2
  <2>2. \A tickets \in SUBSET Nodes : ~Circular(tickets)
    BY <1>9, <2>1 DEF NoCycle, SearchInv, Searched, Searching, DoneOrdered
  <2>3. Searched' /\ UNCHANGED <<ticketDeps, cycle>>
    BY <1>9 DEF NoCycle, Searched, search
  <2> QED
    BY <2>2, <2>3 DEF SearchInv, CycleIsClosed, Circular, Nodes
<1>10. CASE Report
  <2>1. Searched /\ Searched' /\ UNCHANGED <<ticketDeps, cycle>>
    BY <1>10 DEF Report, Searched, search
  <2> QED
    BY <2>1 DEF SearchInv, CycleIsClosed, Circular, Nodes
<1>11. CASE UNCHANGED vars
  BY <1>11 DEF vars, SearchInv, Searching, Searched, Marked, IsPath, Taken, DoneClosed,
               DoneOrdered, Circular, CycleIsClosed, Nodes
<1> QED
  BY <1>0, <1>1, <1>2, <1>4, <1>5, <1>6, <1>7, <1>8, <1>9, <1>10, <1>11

-------------------------------------------------------------------------------
(* What the loops establish.                                               *)

LEMMA EstablishedStep ==
  ASSUME TypeInv, Established, [Next]_vars
  PROVE  Established'
<1> USE DEF TypeInv, Phases
<1> DEFINE ids == {folder[k].id : k \in Parsed}
<1>0. /\ folder' = folder
      /\ Parsed' = Parsed /\ ids' = ids
      /\ \A t : DependsOn(t)' = DependsOn(t)
  BY DEF Next, vars, Collect, Check, Cite, Depend, Root, Descend, PassOver, Found,
         Return, NoCycle, Report, Parsed, DependsOn, LastOf
<1>1. CASE Collect
  BY <1>0, <1>1 DEF Collect, Established, search, Unbegun
<1>2. CASE Check
  <2> DEFINE listed == {k \in Parsed : folder[k].id \notin Unlisted}
             tickets == {folder[k].id : k \in listed} \cap Tickets
  <2>1. tickets = Tickets \cap ids
    BY FoldersAssumption
  <2>2. /\ ticketDeps' = [t \in tickets |-> DependsOn(t)]
        /\ phase' = "cite" /\ phase = "check"
        /\ known' = known /\ cycle' = cycle /\ errors \subseteq errors'
    BY <1>2 DEF Check
  <2>3. Nodes' = tickets /\ \A t \in tickets : ticketDeps'[t] = DependsOn(t)
    BY <2>2 DEF Nodes
  <2> QED
    BY <1>0, <2>1, <2>2, <2>3 DEF Established
<1>3. CASE Cite
  <2>1. /\ phase = "cite" /\ phase' = "depend"
        /\ known' = known /\ ticketDeps' = ticketDeps /\ cycle' = cycle
        /\ errors \subseteq errors'
    BY <1>3 DEF Cite, search
  <2>2. "dangling" \notin errors' => \A k \in Parsed : Dangling(k) = {}
    BY <1>3 DEF Cite, Failing
  <2>3. \A k \in Parsed : Dangling(k)' = Dangling(k)
    BY <1>0, <2>1 DEF Dangling
  <2> QED
    BY <1>0, <2>1, <2>2, <2>3 DEF Established, Nodes
<1>4. CASE Depend
  <2>1. /\ phase = "depend" /\ phase' = "dag"
        /\ known' = known /\ ticketDeps' = ticketDeps /\ cycle' = cycle
        /\ errors \subseteq errors'
        /\ "dangling" \in errors' => "dangling" \in errors
    BY <1>4 DEF Depend, search, Failing
  <2>2. "missing" \notin errors' => \A t \in Nodes : ticketDeps[t] \subseteq known
    BY <1>4 DEF Depend, Failing
  <2>3. \A k \in Parsed : Dangling(k)' = Dangling(k)
    BY <1>0, <2>1 DEF Dangling
  <2> QED
    BY <1>0, <2>1, <2>2, <2>3 DEF Established, Nodes
<1>5. ASSUME phase \in {"dag", "report", "ok", "failed"},
             phase' \in {"dag", "report", "ok", "failed"},
             UNCHANGED <<known, ticketDeps>>, errors \subseteq errors',
             cycle' # cycle => "cycle" \in errors',
             phase' = "ok" => errors' = {}
      PROVE  Established'
  <2>1. \A k \in Parsed : Dangling(k)' = Dangling(k)
    BY <1>0, <1>5 DEF Dangling
  <2> QED
    BY <1>0, <1>5, <2>1 DEF Established, Nodes
<1>6. CASE \/ \E n \in Nodes : Root(n)
           \/ \E d \in Ids : Descend(d) \/ PassOver(d) \/ Found(d)
           \/ Return \/ NoCycle
  BY <1>5, <1>6 DEF Root, Descend, PassOver, Found, Takes, Return, NoCycle, search
<1>7. CASE Report
  BY <1>5, <1>7 DEF Report, search
<1>8. CASE UNCHANGED vars
  <2>1. \A k \in Parsed : Dangling(k)' = Dangling(k)
    BY <1>0, <1>8 DEF Dangling, vars
  <2> QED
    BY <1>0, <1>8, <2>1 DEF vars, Established, Nodes
<1> QED
  BY <1>1, <1>2, <1>3, <1>4, <1>6, <1>7, <1>8 DEF Next

IInv == TypeInv /\ SearchInv /\ Established

LEMMA Inductive == Spec => []IInv
<1>1. Init => IInv
  <2> SUFFICES ASSUME Init PROVE IInv
    OBVIOUS
  <2> USE DEF Init
  <2>1. Nodes = {} /\ stack = <<>> /\ cycle = <<>> /\ <<>> \in Seq(Nodes)
    BY EmptySeq DEF Nodes
  <2>2. TypeOK
    BY <2>1, FoldersAssumption DEF TypeOK, Phases, Nodes
  <2>3. TypeInv
    BY <2>1, <2>2 DEF TypeInv, Unbegun
  <2>4. SearchInv
    BY <2>1, NothingMarked DEF SearchInv, Searched, CycleIsClosed
  <2>5. Established
    BY <2>1 DEF Established
  <2> QED
    BY <2>3, <2>4, <2>5 DEF IInv
<1>2. IInv /\ [Next]_vars => IInv'
  <2> SUFFICES ASSUME IInv, [Next]_vars PROVE IInv'
    OBVIOUS
  <2>1. ~Searched => Marked
    BY DEF IInv, SearchInv, Searching
  <2> QED
    BY <2>1, TypedStep, SearchStep, EstablishedStep DEF IInv
<1> QED
  BY <1>1, <1>2, PTL DEF Spec

-------------------------------------------------------------------------------
\* For every folder, main() and detect_cycle keep values of their kinds; above
\* all, only tickets are ever in the stack or in the cycle.
THEOREM TypesHold == Spec => []TypeOK
<1>1. IInv => TypeOK
  BY DEF IInv, TypeInv
<1> QED
  BY <1>1, Inductive, PTL

\* For every folder, what detect_cycle returns is a cycle of depends_on.
THEOREM ReportedCyclesAreCycles == Spec => []CycleIsClosed
<1>1. IInv => CycleIsClosed
  BY DEF IInv, SearchInv
<1> QED
  BY <1>1, Inductive, PTL

\* For every folder, detect_cycle finds a cycle when, and only when, the
\* tickets cannot be put in an order that respects depends_on.
THEOREM CyclesAreFound == Spec => []CycleMeansCycle
<1>1. IInv => CycleMeansCycle
  BY CycleCircular DEF IInv, TypeInv, SearchInv, CycleMeansCycle
<1> QED
  BY <1>1, Inductive, PTL

\* For every folder, a clean run means that everything cited in prose and every
\* dependency in force is there, and that the tickets can be put in an order.
THEOREM CleanFoldersAreSound == Spec => []CleanMeansSound
<1>1. IInv => CleanMeansSound
  <2> SUFFICES ASSUME IInv, phase = "ok" PROVE CleanMeansSound
    BY DEF CleanMeansSound
  <2> DEFINE ids == {folder[k].id : k \in Parsed}
  <2>1. /\ known = ids
        /\ Nodes = Tickets \cap ids
        /\ \A t \in Nodes : ticketDeps[t] = DependsOn(t)
        /\ \A k \in Parsed : Dangling(k) = {}
        /\ \A t \in Nodes : ticketDeps[t] \subseteq known
        /\ cycle = <<>>
    BY DEF IInv, Established
  <2>2. ASSUME NEW k \in Parsed PROVE Refs(folder[k].prose) \cap Checked \subseteq ids
    BY <2>1 DEF Refs, Dangling
  <2>3. ASSUME NEW k \in Parsed, folder[k].id \in Tickets
        PROVE  DependsOn(folder[k].id) \subseteq ids
    BY <2>1, <2>3
  <2>4. ASSUME NEW tickets \in SUBSET (Tickets \cap ids), tickets # {}
        PROVE  \E t \in tickets : DependsOn(t) \cap tickets = {}
    <3>1. ~Circular(tickets)
      BY <2>1 DEF IInv, SearchInv, Searched
    <3> QED
      BY <2>1, <2>4, <3>1 DEF Circular
  <2> QED
    BY <2>2, <2>3, <2>4 DEF CleanMeansSound
<1> QED
  BY <1>1, Inductive, PTL
=============================================================================
