------------------------------- MODULE Tunnel -------------------------------
(***************************************************************************)
(* The tunnel between entry and exit server: the two deploy scripts, run,  *)
(* interrupted and run again in any order, and the operator who carries    *)
(* the summary of one to the questions of the other.  Xray on both sides   *)
(* must have been started with matching values.                            *)
(***************************************************************************)
EXTENDS ExitDeploy

CONSTANTS EntryDefaultSni, AcceptsDefaults, MaxEntryTroubles

ASSUME DefaultIsAValue == EntryDefaultSni # Unset
ASSUME AcceptsDefaultsIsBoolean == AcceptsDefaults \in BOOLEAN
ASSUME EntryBoundIsNatural == MaxEntryTroubles \in Nat

VARIABLES entryEnv, entryShell, entryPc, entryFile, entryLoaded, entryUp, entryTroubles

\* The entry server's name for a value of the summary.  EXIT_SHORT_ID is the
\* first of the short ids.
Counterpart ==
    [EXIT_VLESS_UUID |-> "EXIT_VLESS_UUID", EXIT_PUBLIC_KEY |-> "EXIT_REALITY_PUBLIC_KEY",
     EXIT_REALITY_SNI |-> "EXIT_REALITY_SNI", EXIT_SHORT_ID |-> "EXIT_REALITY_SHORT_IDS"]

Entry == INSTANCE EntryDeploy WITH
    told <- [n \in DOMAIN Counterpart |-> summary[Counterpart[n]]],
    EntryValues <- ExitSnis \cup {EntryDefaultSni} \cup Minted

entryVars == <<entryEnv, entryShell, entryPc, entryFile, entryLoaded, entryUp,
               entryTroubles>>
tunnelVars == <<exitVars, entryVars>>

TypeOK == ExitTypeOK /\ Entry!EntryTypeOK

Init == ExitInit /\ Entry!EntryInit

Next ==
    \/ ExitNext /\ UNCHANGED entryVars
    \/ Entry!EntryNext /\ UNCHANGED exitVars

Spec == Init /\ [][Next]_tunnelVars

\* The scheduling ExitFairSpec assumes; of the entry server nothing is assumed.
FairSpec == Spec /\ WF_exitVars(ExitStep) /\ WF_exitVars(StartExit \/ StartExitFails)

-----------------------------------------------------------------------------
(* Properties.                                                             *)

TunnelUp == entryUp /\ "xray-exit" \in exitUp

\* What Xray on the exit server has for a name of the entry server.  It holds
\* the private key; the halves of a pair have one number.
ExitSide(n) ==
    exitLoaded[IF n = "EXIT_PUBLIC_KEY" THEN "EXIT_REALITY_PRIVATE_KEY" ELSE Counterpart[n]]

\* Whenever both ends run, they were started with matching values: no re-run of
\* either script, finished or not, breaks the tunnel.
TunnelMatches ==
    TunnelUp => \A n \in Entry!EntryNames : entryLoaded[n] = ExitSide(n)

\* Nothing that the operator entered on the entry server is ever out of date:
\* a repaired exit server does not need the entry server to be set up again.
EnteredStaysValid ==
    \A n \in Entry!EntryNames :
        IsSet(entryEnv, n) => exitEnv[Counterpart[n]] = entryEnv[n]
=============================================================================
