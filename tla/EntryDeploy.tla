---------------------------- MODULE EntryDeploy ----------------------------
(***************************************************************************)
(* infra/entry/deploy-entry.sh on the entry server.  It has no secrets of  *)
(* its own: the operator enters what the summary of deploy-exit.sh told    *)
(* him.  EXIT_SERVER_IP is left out, and so is the firewall.               *)
(***************************************************************************)
EXTENDS Naturals, EnvFile

CONSTANTS
    EntryValues,      \* what can be entered
    EntryDefaultSni,  \* the default of the question for EXIT_REALITY_SNI
    AcceptsDefaults,  \* does the operator press Enter where there is a default?
    MaxEntryTroubles  \* bound: interrupted and failing runs

EntryNames == {"EXIT_VLESS_UUID", "EXIT_PUBLIC_KEY", "EXIT_REALITY_SNI", "EXIT_SHORT_ID"}

VARIABLES
    told,           \* what the operator knows; Unset before deploy-exit.sh told him
    entryEnv,       \* the .env file
    entryShell,     \* variables of the running script
    entryPc,        \* the step it is at, "off" when no script runs
    entryFile,      \* the values in xray-config.json
    entryLoaded,    \* the values Xray was last started with
    entryUp,        \* does Xray run?
    entryTroubles

entryVars == <<entryEnv, entryShell, entryPc, entryFile, entryLoaded, entryUp,
               entryTroubles>>

EntrySteps == EntryNames \cup {"generate", "down", "up"}

EntryTypeOK ==
    /\ entryEnv \in [EntryNames -> EntryValues \cup {Unset}]
    /\ entryShell \in [EntryNames -> EntryValues \cup {Unset}]
    /\ entryPc \in EntrySteps \cup {"off"}
    /\ entryFile \in [EntryNames -> EntryValues \cup {Unset}]
    /\ entryLoaded \in [EntryNames -> EntryValues \cup {Unset}]
    /\ entryUp \in BOOLEAN
    /\ entryTroubles \in 0 .. MaxEntryTroubles

EntryInit ==
    /\ entryEnv = Nothing(EntryNames)
    /\ entryShell = Nothing(EntryNames)
    /\ entryPc = "off"
    /\ entryFile = Nothing(EntryNames)
    /\ entryLoaded = Nothing(EntryNames)
    /\ entryUp = FALSE
    /\ entryTroubles = 0

EntryMoves(from, to) == entryPc = from /\ entryPc' = to

StartEntry ==
    /\ Loadable(entryEnv)
    /\ EntryMoves("off", "EXIT_VLESS_UUID")
    /\ entryShell' = entryEnv
    /\ UNCHANGED <<entryEnv, entryFile, entryLoaded, entryUp, entryTroubles>>

\* Ctrl-C, a lost connection, an empty answer, or docker fails.  There is no
\* rollback here.
EntryRunFails ==
    /\ entryPc # "off"
    /\ entryTroubles < MaxEntryTroubles
    /\ entryTroubles' = entryTroubles + 1
    /\ entryPc' = "off"
    /\ entryShell' = Nothing(EntryNames)
    /\ UNCHANGED <<entryEnv, entryFile, entryLoaded, entryUp>>

\* What the operator enters: Enter where there is a default, or what he was told.
Answers(n) ==
    IF n = "EXIT_REALITY_SNI" /\ AcceptsDefaults THEN {EntryDefaultSni}
    ELSE {told[n]} \ {Unset}

AskEntry(n, to) ==
    /\ EntryMoves(n, to)
    /\ \E value \in PromptFor(entryShell, n, Answers(n)) :
           /\ entryShell' = Save(entryShell, n, value)
           /\ entryEnv' = Save(entryEnv, n, value)
    /\ UNCHANGED <<entryFile, entryLoaded, entryUp, entryTroubles>>

GenerateEntry ==
    /\ EntryMoves("generate", "down")
    /\ entryFile' = entryShell
    /\ UNCHANGED <<entryEnv, entryShell, entryLoaded, entryUp, entryTroubles>>

\* `compose down` may fail; that is ignored.
EntryDown ==
    /\ EntryMoves("down", "up")
    /\ entryUp' \in {FALSE, entryUp}
    /\ UNCHANGED <<entryEnv, entryShell, entryFile, entryLoaded, entryTroubles>>

\* A container that still runs keeps the values it was created with.
EntryStarts ==
    /\ EntryMoves("up", "off")
    /\ entryUp' = TRUE
    /\ entryLoaded' = IF entryUp THEN entryLoaded ELSE entryFile
    /\ entryShell' = Nothing(EntryNames)
    /\ UNCHANGED <<entryEnv, entryFile, entryTroubles>>

EntryNext ==
    \/ StartEntry \/ EntryRunFails
    \/ AskEntry("EXIT_VLESS_UUID", "EXIT_PUBLIC_KEY")
    \/ AskEntry("EXIT_PUBLIC_KEY", "EXIT_REALITY_SNI")
    \/ AskEntry("EXIT_REALITY_SNI", "EXIT_SHORT_ID")
    \/ AskEntry("EXIT_SHORT_ID", "generate")
    \/ GenerateEntry \/ EntryDown \/ EntryStarts
=============================================================================
