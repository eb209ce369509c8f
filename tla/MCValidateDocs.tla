---------------------------- MODULE MCValidateDocs ----------------------------
(* ValidateDocs for TLC: folders of at most Size documents of a sample. *)
EXTENDS ValidateDocs, FiniteSets, TLC

CONSTANTS Size

Bare == [name |-> NoId, id |-> NoId, sound |-> TRUE,
         deps |-> {}, fields |-> {}, prose |-> {}]

Written(i) == [Bare EXCEPT !.id = i, !.name = i]

Pin(ids) == {[ref |-> i, pinned |-> TRUE] : i \in ids}

\* Tickets with at most two dependencies, and some documents of every other kind:
\* without an id, with a wrong name or field, citing with and without a pin.
Sample ==
    {[Written(t) EXCEPT !.deps = Pin(ds)] :
        t \in Tickets, ds \in {s \in SUBSET (Tickets \cup Artefacts) : Cardinality(s) <= 2}}
    \cup {Written(i) : i \in Artefacts \cup Unchecked \cup Unlisted}
    \cup UNION {{[Written(p) EXCEPT !.sound = FALSE],
                 [Written(p) EXCEPT !.prose = Pin(Ids), !.fields = Pin(Ids)],
                 [Written(p) EXCEPT !.name = NoId],
                 [Bare EXCEPT !.name = p]} : p \in Artefacts}
    \cup {[Written(q) EXCEPT !.deps = {[ref |-> p, pinned |-> FALSE]},
                             !.prose = {[ref |-> p, pinned |-> FALSE]}] :
             p \in Artefacts, q \in Unchecked \cup Unlisted}
    \cup {[Written(t) EXCEPT !.prose = {[ref |-> p, pinned |-> FALSE]}] :
             t \in Tickets, p \in Artefacts}
    \cup {Bare}

MCFolders == UNION {[1..n -> Sample] : n \in 0..Size}

\* No id or document is told from another by the ticket it names.
TicketSymmetry == Permutations(Tickets)
=============================================================================
