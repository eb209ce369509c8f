----------------------------- MODULE TunnelProofs -----------------------------
(***************************************************************************)
(* What holds of the exit server's deploy script, of the entry server's,   *)
(* and of the tunnel between them, for any domains, addresses and SNIs and *)
(* any number of secrets, interruptions, failures and edits.               *)
(***************************************************************************)
EXTENDS Tunnel, TLAPS

\* The place of a step in the script.
Place ==
    [off |-> 0, TLS_DOMAIN |-> 1, self_steal |-> 2, verify_dns |-> 3, certificate |-> 4,
     TELEMT_SECRET |-> 5, MANAGEMENT_IPS |-> 6, AUTH_HEADER |-> 7, key_pair |-> 8,
     EXIT_REALITY_PRIVATE_KEY |-> 9, EXIT_REALITY_PUBLIC_KEY |-> 10,
     EXIT_VLESS_UUID |-> 11, EXIT_REALITY_SNI |-> 12, EXIT_REALITY_SHORT_IDS |-> 13,
     config_toml |-> 14, xray_config |-> 15, angie_conf |-> 16, compose_down |-> 17,
     compose_up |-> 18, summary |-> 19]

at == Place[exitPc]

\* Every name but the two that the self-steal block sets; those the tunnel needs
\* and the operator does not edit.
Saved == ExitNames \ {"SELF_STEAL_DOMAIN", "SELF_STEAL_DNS_VERIFIED"}
Fixed == Secrets \cup ({"EXIT_REALITY_SNI"} \ Edited)

\* A value of such a name is one that was made, or an answer.
WellSorted(vars) ==
    /\ \A n \in Secrets : vars[n] \in Minted \cup {Unset}
    /\ vars["EXIT_REALITY_SNI"] \in ExitSnis \cup {Unset}

Sorted ==
    /\ WellSorted(exitEnv) /\ WellSorted(exitShell)
    /\ \A n \in TunnelNames \cap Fixed : IsSet(summary, n) => summary[n] = exitEnv[n]
    /\ summary["EXIT_REALITY_SNI"] \in ExitSnis \cup {Unset}

\* What .env holds the script has, but for SELF_STEAL_DOMAIN.
ShellFollows ==
    exitPc # "off" =>
        \A n \in ExitNames \ {"SELF_STEAL_DOMAIN"} :
            IsSet(exitEnv, n) => exitShell[n] = exitEnv[n]

\* What the script has been through is in .env and in its variables.
Progress ==
    \A n \in Saved : at > Place[n] => IsSet(exitEnv, n) /\ exitShell[n] = exitEnv[n]

\* The two halves of a key pair belong together wherever both are.
Pairs ==
    /\ IsSet(exitEnv, "EXIT_REALITY_PUBLIC_KEY") =>
           exitEnv["EXIT_REALITY_PUBLIC_KEY"] = exitEnv["EXIT_REALITY_PRIVATE_KEY"]
    /\ IsSet(exitShell, "EXIT_REALITY_PUBLIC_KEY") =>
           exitShell["EXIT_REALITY_PUBLIC_KEY"] = exitShell["EXIT_REALITY_PRIVATE_KEY"]
    /\ at > 8 => IsSet(exitShell, "EXIT_REALITY_PRIVATE_KEY")
    /\ at > 9 => IsSet(exitShell, "EXIT_REALITY_PUBLIC_KEY")

\* The script's own domain, if it has one, is saved, confirmed and certified.
SelfSteal ==
    /\ at > 0 => exitShell["SELF_STEAL_DNS_VERIFIED"] = exitEnv["SELF_STEAL_DNS_VERIFIED"]
    /\ at \in 3 .. 4 => exitShell["TLS_DOMAIN"] \in OwnDomains
    /\ at > 2 =>
           IF exitShell["TLS_DOMAIN"] \in OwnDomains
           THEN /\ exitShell["SELF_STEAL_DOMAIN"] = exitShell["TLS_DOMAIN"]
                /\ exitEnv["SELF_STEAL_DOMAIN"] = exitShell["TLS_DOMAIN"]
           ELSE exitShell["SELF_STEAL_DOMAIN"] = Unset
    /\ at > 3 /\ exitShell["TLS_DOMAIN"] \in OwnDomains =>
           exitEnv["SELF_STEAL_DNS_VERIFIED"] = exitShell["TLS_DOMAIN"]
    /\ at > 4 /\ exitShell["TLS_DOMAIN"] \in OwnDomains => exitShell["TLS_DOMAIN"] \in certs

\* Files and containers hold values .env holds, once they were written they hold
\* all of them, and Xray runs with none missing.
FilesAreSaved ==
    /\ \A n \in Fixed :
           /\ IsSet(exitFiles, n) => exitFiles[n] = exitEnv[n]
           /\ IsSet(exitLoaded, n) => exitLoaded[n] = exitEnv[n]
    /\ IsSet(exitFiles, "EXIT_REALITY_PRIVATE_KEY") \/ IsSet(exitLoaded, "EXIT_REALITY_PRIVATE_KEY")
           => IsSet(exitEnv, "EXIT_REALITY_PUBLIC_KEY")
    /\ at > 14 => \A n \in TelemtNames : exitFiles[n] = exitShell[n]
    /\ at > 15 => \A n \in XrayNames : exitFiles[n] = exitShell[n]
    /\ at > 16 => \A n \in AngieNames : exitFiles[n] = exitShell[n]
    /\ "xray-exit" \in exitUp => \A n \in XrayNames : IsSet(exitLoaded, n)

\* What a completed run leaves: nothing to ask for and nothing to change.
Complete ==
    /\ \A n \in Saved : IsSet(exitEnv, n)
    /\ exitEnv["TLS_DOMAIN"] \in OwnDomains =>
           /\ exitEnv["SELF_STEAL_DOMAIN"] = exitEnv["TLS_DOMAIN"]
           /\ exitEnv["SELF_STEAL_DNS_VERIFIED"] = exitEnv["TLS_DOMAIN"]
           /\ exitEnv["TLS_DOMAIN"] \in certs
    /\ \A n \in TelemtNames \cup XrayNames : exitFiles[n] = exitEnv[n]
    /\ exitFiles["SELF_STEAL_DOMAIN"] =
           IF exitEnv["TLS_DOMAIN"] \in OwnDomains THEN exitEnv["TLS_DOMAIN"] ELSE Unset

Repeats ==
    /\ lastRun = "done" => Complete
    /\ exitPc # "off" => (repeat <=> lastRun = "done")
    /\ exitPc = "off" \/ repeat => asked = {}

ExitInv ==
    /\ Sorted /\ ShellFollows /\ Progress /\ Pairs /\ SelfSteal /\ FilesAreSaved /\ Repeats

\* What the entry server was told is what .env of the exit server holds.
Told(vars) ==
    /\ \A n \in Entry!EntryNames : IsSet(vars, n) => exitEnv[Counterpart[n]] = vars[n]
    /\ IsSet(vars, "EXIT_VLESS_UUID") => IsSet(exitEnv, "EXIT_REALITY_SNI")

Entered(names) == \A n \in names : IsSet(entryShell, n)

EntryInv ==
    /\ Told(entryEnv) /\ Told(entryShell) /\ Told(entryFile) /\ Told(entryLoaded)
    /\ \A n \in TunnelNames : IsSet(summary, "EXIT_VLESS_UUID") => IsSet(exitEnv, n)
    /\ entryPc = "EXIT_PUBLIC_KEY" => Entered({"EXIT_VLESS_UUID"})
    /\ entryPc = "EXIT_REALITY_SNI" => Entered({"EXIT_VLESS_UUID", "EXIT_PUBLIC_KEY"})
    /\ entryPc = "EXIT_SHORT_ID" => Entered(Entry!EntryNames \ {"EXIT_SHORT_ID"})
    /\ entryPc \in {"generate", "down", "up"} => Entered(Entry!EntryNames)
    /\ entryPc \in {"down", "up"} => \A n \in Entry!EntryNames : IsSet(entryFile, n)
    /\ entryUp => \A n \in Entry!EntryNames : IsSet(entryLoaded, n)

\* What is inductive of the exit server alone, and of both.
ExitIInv == TypeOK /\ ExitInv
IInv == ExitIInv /\ EntryInv

-------------------------------------------------------------------------------
(* Places, names and values.                                               *)

LEMMA PlaceValues ==
    /\ Place["off"] = 0 /\ Place["TLS_DOMAIN"] = 1 /\ Place["self_steal"] = 2
    /\ Place["verify_dns"] = 3 /\ Place["certificate"] = 4 /\ Place["TELEMT_SECRET"] = 5
    /\ Place["MANAGEMENT_IPS"] = 6 /\ Place["AUTH_HEADER"] = 7 /\ Place["key_pair"] = 8
    /\ Place["EXIT_REALITY_PRIVATE_KEY"] = 9 /\ Place["EXIT_REALITY_PUBLIC_KEY"] = 10
    /\ Place["EXIT_VLESS_UUID"] = 11 /\ Place["EXIT_REALITY_SNI"] = 12
    /\ Place["EXIT_REALITY_SHORT_IDS"] = 13 /\ Place["config_toml"] = 14
    /\ Place["xray_config"] = 15 /\ Place["angie_conf"] = 16 /\ Place["compose_down"] = 17
    /\ Place["compose_up"] = 18 /\ Place["summary"] = 19
  BY DEF Place

\* Nothing that is made or answered is Unset.
LEMMA ValuesAreSet ==
    /\ Unset \notin Domains /\ Unset \notin OwnDomains /\ Unset \notin IpLists
    /\ Unset \notin ExitSnis /\ Unset \notin Minted /\ Unset \notin Nat
    /\ Minted \subseteq Nat
  BY ValuesAreDistinct, ExitBoundsAreNaturals DEF Domains, Minted

\* What is edited is no secret, and becomes an answer.
LEMMA EditedTyped ==
    \A n \in Edited :
        /\ n \in ExitNames \ Secrets /\ AnswersFor[n] \subseteq ExitValues
        /\ n = "EXIT_REALITY_SNI" => AnswersFor[n] = ExitSnis
  BY EditedAreAnswers DEF AnswersFor, ExitNames, ExitValues, Secrets

\* What is saved by a question.
LEMMA AskTyped ==
  ASSUME ExitTypeOK, NEW n \in ExitNames, NEW answers \in SUBSET ExitValues, NEW to \in ExitSteps,
         Ask(n, answers, to)
  PROVE  ExitTypeOK'
  BY DEF ExitTypeOK, Ask, Step, PromptFor, Save, restVars

LEMMA SecretTyped ==
  ASSUME ExitTypeOK, NEW n \in Secrets, NEW to \in ExitSteps, Secret(n, to)
  PROVE  ExitTypeOK'
<1>1. exitShell' \in [ExitNames -> ExitValues] /\ minted' \in 0 .. MaxMinted
  BY ExitBoundsAreNaturals DEF ExitTypeOK, Secret, Save, ExitNames, ExitValues, Minted
<1> QED
  BY <1>1 DEF ExitTypeOK, Secret, Step, Save, restVars, ExitNames

\* Every step keeps the types.
LEMMA ExitTypedStep ==
  ASSUME ExitTypeOK, SelfSteal, ExitNext
  PROVE  ExitTypeOK'
<1> USE DEF ExitTypeOK
<1>1. CASE \/ Ask("TLS_DOMAIN", Domains, "self_steal")
           \/ Ask("MANAGEMENT_IPS", IpLists, "AUTH_HEADER")
           \/ Ask("EXIT_REALITY_SNI", ExitSnis, "EXIT_REALITY_SHORT_IDS")
  BY <1>1, AskTyped DEF ExitNames, Secrets, ExitValues, ExitSteps
<1>2. CASE \/ Secret("TELEMT_SECRET", "MANAGEMENT_IPS")
           \/ Secret("AUTH_HEADER", "key_pair")
           \/ Secret("EXIT_VLESS_UUID", "EXIT_REALITY_SNI")
           \/ Secret("EXIT_REALITY_SHORT_IDS", "config_toml")
  BY <1>2, SecretTyped DEF Secrets, ExitSteps
<1>3. CASE OwnDomain \/ ThirdPartyDomain \/ VerifyDns \/ HasCertificate
  BY <1>3 DEF OwnDomain, ThirdPartyDomain, VerifyDns, HasCertificate, Step, Save, restVars,
              ExitNames, ExitValues, ExitSteps
<1>4. CASE GetCertificate
  BY <1>4, PlaceValues DEF GetCertificate, Step, SelfSteal, at, ExitSteps
<1>5. CASE DnsNotReady \/ CertbotFails \/ PublicKeyUnbound \/ ComposeUpFails \/ StartExitFails
  BY <1>5, ExitBoundsAreNaturals
     DEF DnsNotReady, CertbotFails, PublicKeyUnbound, ComposeUpFails, StartExitFails,
         Trouble, ExitEnds, Nothing, ExitValues
<1>6. CASE KeyPair
  <2>1. minted' \in 0 .. MaxMinted /\ (minted' # minted => minted' \in ExitValues)
    BY <1>6, ExitBoundsAreNaturals DEF KeyPair, ExitValues, Minted
  <2>2. exitShell' \in [ExitNames -> ExitValues]
    BY <1>6, <2>1, ExitBoundsAreNaturals DEF KeyPair
  <2> QED
    BY <1>6, <2>1, <2>2 DEF KeyPair, Step, ExitNames, Secrets, ExitSteps
<1>7. CASE SavePrivateKey \/ SavePublicKey
  BY <1>7 DEF SavePrivateKey, SavePublicKey, Step, Save, restVars, ExitNames, Secrets,
              ExitSteps
<1>8. CASE \/ Generate("config_toml", TelemtNames, "xray_config")
           \/ Generate("xray_config", XrayNames, "angie_conf")
           \/ Generate("angie_conf", AngieNames, "compose_down")
  BY <1>8 DEF Generate, Step, ExitSteps
<1>9. CASE ComposeDown \/ ComposeDownFails \/ ComposeUp
  BY <1>9, ExitBoundsAreNaturals
     DEF ComposeDown, ComposeDownFails, ComposeUp, Trouble, Creates, Step, ExitSteps
<1>10. CASE PrintSummary
  BY <1>10 DEF PrintSummary, ExitEnds, Nothing, ExitValues, TunnelNames, ExitNames, Secrets
<1>11. CASE StartExit
  BY <1>11 DEF StartExit, ExitSteps
<1>12. CASE ExitRunFails
  BY <1>12, ExitBoundsAreNaturals DEF ExitRunFails, Trouble, ExitEnds, Creates, Nothing, ExitValues
<1>13. ASSUME NEW n \in ExitNames, NEW value \in ExitValues, EditExitEnv(n, value)
       PROVE  ExitTypeOK'
  BY <1>13, ExitBoundsAreNaturals DEF EditExitEnv, Save
<1>14. CASE \E n \in Edited : \E value \in AnswersFor[n] : EditExitEnv(n, value)
  BY <1>13, <1>14, EditedTyped
<1> QED
  BY <1>1, <1>2, <1>3, <1>4, <1>5, <1>6, <1>7, <1>8, <1>9, <1>10, <1>11, <1>12, <1>14
     DEF ExitNext, ExitStep, ExitOperator

-------------------------------------------------------------------------------
(* What is in .env and in the variables of the script.                     *)

Core == Sorted /\ ShellFollows /\ Progress /\ Pairs

\* A value of a fixed name stays.
FixedStay == \A n \in Fixed : IsSet(exitEnv, n) => exitEnv'[n] = exitEnv[n]

\* A step that ends the run, and one that only goes on.
LEMMA EndsCore ==
  ASSUME ExitTypeOK, Core, NEW how, ExitEnds(how), UNCHANGED exitEnv,
         \/ UNCHANGED summary
         \/ exitPc = "summary" /\ summary' = [n \in TunnelNames |-> exitShell[n]]
  PROVE  Core' /\ FixedStay
<1>1. \A n \in ExitNames : exitShell'[n] = Unset
  BY DEF ExitEnds, Nothing
<1>2. at' = 0 /\ \A n \in Saved : ~(at' > Place[n])
  BY PlaceValues DEF ExitEnds, at, Saved, ExitNames, Secrets
<1>3. WellSorted(exitShell')
  BY <1>1 DEF WellSorted, ExitNames, Secrets
<1>4. ASSUME exitPc = "summary", NEW n \in TunnelNames
      PROVE  exitShell[n] = exitEnv[n]
  BY <1>4, PlaceValues DEF Core, Progress, Saved, TunnelNames, ExitNames, Secrets, at
<1>5. Sorted'
  <2>1. summary'["EXIT_REALITY_SNI"] \in ExitSnis \cup {Unset}
    BY DEF Core, Sorted, WellSorted, TunnelNames
  <2> QED
    BY <1>3, <1>4, <2>1 DEF Core, Sorted, WellSorted
<1>6. ShellFollows'
  BY DEF ShellFollows, ExitEnds
<1>7. Progress'
  BY <1>2 DEF Progress
<1>8. Pairs'
  BY <1>1, <1>2 DEF Core, Pairs, IsSet, ExitNames, Secrets
<1> QED
  BY <1>5, <1>6, <1>7, <1>8 DEF Core, FixedStay

\* A name that the script has not been through is set and saved.
LEMMA SavedCore ==
  ASSUME ExitTypeOK, Core,
         NEW n \in Saved \ {"EXIT_REALITY_PRIVATE_KEY", "EXIT_REALITY_PUBLIC_KEY"},
         NEW value, value # Unset,
         n \in Secrets => value \in Minted, n = "EXIT_REALITY_SNI" => value \in ExitSnis,
         IsSet(exitShell, n) => value = exitShell[n],
         NEW to \in ExitSteps, Place[to] = Place[n] + 1, Step(n, to),
         exitShell' = Save(exitShell, n, value), exitEnv' = Save(exitEnv, n, value),
         UNCHANGED summary
  PROVE  Core' /\ FixedStay
<1>1. n \in ExitNames /\ exitPc = n /\ exitPc # "off" /\ exitPc' = to
  BY DEF Saved, ExitNames, Secrets, Step
<1>2. /\ \A m \in ExitNames : m # n => exitShell'[m] = exitShell[m] /\ exitEnv'[m] = exitEnv[m]
      /\ exitShell'[n] = value /\ exitEnv'[n] = value
  BY <1>1 DEF Save, ExitTypeOK
<1>3. IsSet(exitEnv, n) => value = exitEnv[n]
  BY <1>1 DEF Core, ShellFollows, IsSet, Saved
<1>4. FixedStay
  BY <1>2, <1>3 DEF FixedStay, Fixed, ExitNames
<1>5. at = Place[n] /\ at' = at + 1
  BY <1>1 DEF at
<1>6. Sorted'
  BY <1>2, <1>4
     DEF Core, Sorted, WellSorted, IsSet, FixedStay, Fixed, TunnelNames, ExitNames, Secrets
<1>7. ShellFollows'
  BY <1>1, <1>2 DEF Core, ShellFollows, IsSet
<1>8. Progress'
  <2>1. \A m \in Saved : at + 1 > Place[m] => m = n \/ at > Place[m]
    BY <1>5, PlaceValues DEF Saved, ExitNames, Secrets
  <2> QED
    BY <1>2, <1>5, <2>1 DEF Core, Progress, IsSet, Saved
<1>9. Pairs'
  BY <1>2, <1>5, PlaceValues DEF Core, Pairs, IsSet, Saved, ExitNames, Secrets
<1> QED
  BY <1>4, <1>6, <1>7, <1>8, <1>9 DEF Core

\* A question, and a secret of its own.
LEMMA AskCore ==
  ASSUME ExitTypeOK, Core, NEW n \in {"TLS_DOMAIN", "MANAGEMENT_IPS", "EXIT_REALITY_SNI"},
         NEW answers, Unset \notin answers, n = "EXIT_REALITY_SNI" => answers = ExitSnis,
         NEW to \in ExitSteps, Place[to] = Place[n] + 1, Ask(n, answers, to)
  PROVE  Core' /\ FixedStay
<1>1. PICK value \in PromptFor(exitShell, n, answers) :
           exitShell' = Save(exitShell, n, value) /\ exitEnv' = Save(exitEnv, n, value)
  BY DEF Ask
<1>2. /\ value # Unset /\ (IsSet(exitShell, n) => value = exitShell[n])
      /\ n = "EXIT_REALITY_SNI" => value \in ExitSnis
  BY DEF PromptFor, IsSet, Core, Sorted, WellSorted
<1>3. n \in Saved /\ n \notin Secrets
  BY DEF Saved, ExitNames, Secrets
<1> QED
  BY <1>1, <1>2, <1>3, SavedCore DEF Ask, restVars, Secrets

LEMMA SecretCore ==
  ASSUME ExitTypeOK, Core,
         NEW n \in Secrets \ {"EXIT_REALITY_PRIVATE_KEY", "EXIT_REALITY_PUBLIC_KEY"},
         NEW to \in ExitSteps, Place[to] = Place[n] + 1, Secret(n, to)
  PROVE  Core' /\ FixedStay
<1>1. n \in Saved /\ n \in ExitNames /\ n # "EXIT_REALITY_SNI"
  BY DEF Saved, ExitNames, Secrets
<1>2. PICK value \in Minted :
           /\ exitShell' = Save(exitShell, n, value) /\ exitEnv' = Save(exitEnv, n, value)
           /\ IsSet(exitShell, n) => value = exitShell[n]
  <2>1. IsSet(exitShell, n) => exitShell[n] \in Minted
    BY DEF Core, Sorted, WellSorted, IsSet
  <2>2. minted < MaxMinted => minted + 1 \in Minted
    BY ExitBoundsAreNaturals DEF ExitTypeOK, Minted
  <2>3. CASE IsSet(exitShell, n)
    <3>1. exitShell' = Save(exitShell, n, exitShell[n])
      BY <1>1, <2>3 DEF Secret, Save, ExitTypeOK
    <3> QED
      BY <2>1, <2>3, <3>1 DEF Secret
  <2>4. CASE ~IsSet(exitShell, n)
    <3>1. exitShell' = Save(exitShell, n, minted + 1) /\ exitShell'[n] = minted + 1
      BY <1>1, <2>4 DEF Secret, Save, ExitTypeOK
    <3> QED
      BY <2>2, <2>4, <3>1 DEF Secret
  <2> QED
    BY <2>3, <2>4
<1> QED
  BY <1>1, <1>2, SavedCore, ValuesAreSet DEF Secret, restVars

\* The key pair: both halves are made, then the private one is saved, then the
\* public one.
LEMMA KeyPairCore ==
  ASSUME ExitTypeOK, Core, KeyPair
  PROVE  Core' /\ FixedStay
<1>1. exitPc = "key_pair" /\ at = 8 /\ at' = 9 /\ exitPc' # "off"
  BY PlaceValues DEF KeyPair, Step, at
<1>2. exitEnv' = exitEnv /\ summary' = summary
  BY DEF KeyPair
<1>3. CASE IsSet(exitShell, "EXIT_REALITY_PRIVATE_KEY")
  <2>1. exitShell' = exitShell
    BY <1>3 DEF KeyPair
  <2>2. Sorted' /\ ShellFollows' /\ FixedStay
    BY <1>1, <1>2, <2>1 DEF Core, Sorted, WellSorted, ShellFollows, IsSet, FixedStay
  <2>3. \A m \in Saved : 9 > Place[m] => 8 > Place[m]
    BY PlaceValues DEF Saved, ExitNames, Secrets
  <2> QED
    BY <1>1, <1>2, <1>3, <2>1, <2>2, <2>3 DEF Core, Progress, Pairs, IsSet
<1>4. CASE ~IsSet(exitShell, "EXIT_REALITY_PRIVATE_KEY")
  <2>1. /\ exitShell' = [exitShell EXCEPT !["EXIT_REALITY_PRIVATE_KEY"] = minted + 1,
                                          !["EXIT_REALITY_PUBLIC_KEY"] = minted + 1]
        /\ minted + 1 \in Minted /\ minted + 1 # Unset
    BY <1>4, ExitBoundsAreNaturals, ValuesAreSet DEF KeyPair, ExitTypeOK, Minted
  <2>2. ~IsSet(exitEnv, "EXIT_REALITY_PRIVATE_KEY") /\ ~IsSet(exitEnv, "EXIT_REALITY_PUBLIC_KEY")
    BY <1>1, <1>4 DEF Core, ShellFollows, Pairs, IsSet, ExitNames, Secrets
  <2>3. \A n \in ExitNames : n \notin {"EXIT_REALITY_PRIVATE_KEY", "EXIT_REALITY_PUBLIC_KEY"}
                               => exitShell'[n] = exitShell[n]
    BY <2>1 DEF ExitTypeOK
  <2>4. /\ exitShell'["EXIT_REALITY_PRIVATE_KEY"] = minted + 1
        /\ exitShell'["EXIT_REALITY_PUBLIC_KEY"] = minted + 1
    BY <2>1 DEF ExitTypeOK, ExitNames, Secrets
  <2>5. Sorted' /\ FixedStay
    BY <1>2, <2>1, <2>3, <2>4 DEF Core, Sorted, WellSorted, IsSet, ExitNames, Secrets, FixedStay
  <2>6. ShellFollows'
    BY <1>1, <1>2, <2>2, <2>3 DEF Core, ShellFollows, IsSet
  <2>7. Progress'
    <3>1. \A m \in Saved : 9 > Place[m] =>
              8 > Place[m] /\ m \notin {"EXIT_REALITY_PRIVATE_KEY", "EXIT_REALITY_PUBLIC_KEY"}
      BY PlaceValues DEF Saved, ExitNames, Secrets
    <3> QED
      BY <1>1, <1>2, <2>3, <3>1 DEF Core, Progress, IsSet, Saved
  <2>8. Pairs'
    BY <1>1, <1>2, <2>1, <2>4 DEF Core, Pairs, IsSet
  <2> QED
    BY <2>5, <2>6, <2>7, <2>8 DEF Core
<1> QED
  BY <1>3, <1>4

LEMMA SaveKeyCore ==
  ASSUME ExitTypeOK, Core, SavePrivateKey \/ SavePublicKey
  PROVE  Core' /\ FixedStay
<1> DEFINE n == exitPc
<1>1. /\ n \in {"EXIT_REALITY_PRIVATE_KEY", "EXIT_REALITY_PUBLIC_KEY"}
      /\ n \in Secrets /\ n \in ExitNames /\ n # "off" /\ exitPc' # "off"
      /\ at = Place[n] /\ at' = at + 1 /\ at \in {9, 10}
  BY PlaceValues DEF SavePrivateKey, SavePublicKey, Step, at, Secrets, ExitNames
<1>2. /\ exitShell' = exitShell /\ summary' = summary
      /\ exitEnv' = [exitEnv EXCEPT ![n] = exitShell[n]]
      /\ IsSet(exitShell, n)
      /\ n = "EXIT_REALITY_PRIVATE_KEY" => IsSet(exitShell, "EXIT_REALITY_PUBLIC_KEY")
  BY <1>1, PlaceValues DEF SavePrivateKey, SavePublicKey, Step, Save, restVars, Core, Pairs
<1>3. IsSet(exitEnv, n) => exitShell[n] = exitEnv[n]
  BY <1>1 DEF Core, ShellFollows, Secrets
<1>4. /\ \A m \in ExitNames : m # n => exitEnv'[m] = exitEnv[m]
      /\ exitEnv'[n] = exitShell[n]
  BY <1>1, <1>2 DEF ExitTypeOK
<1> HIDE DEF n
<1>5. FixedStay
  BY <1>1, <1>3, <1>4 DEF FixedStay, Fixed, ExitNames
<1>6. Sorted'
  BY <1>1, <1>2, <1>4, <1>5
     DEF Core, Sorted, WellSorted, IsSet, FixedStay, Fixed, TunnelNames, ExitNames, Secrets
<1>7. ShellFollows' /\ Progress'
  <2>1. \A m \in Saved : at + 1 > Place[m] => m = n \/ at > Place[m]
    BY <1>1, PlaceValues DEF Saved, ExitNames, Secrets
  <2> QED
    BY <1>1, <1>2, <1>4, <2>1 DEF Core, ShellFollows, Progress, IsSet, Saved, n
<1>8. Pairs'
  <2>1. CASE n = "EXIT_REALITY_PRIVATE_KEY"
    BY <1>1, <1>2, <1>3, <1>4, <2>1, PlaceValues DEF Core, Pairs, IsSet, ExitNames, Secrets
  <2>2. CASE n = "EXIT_REALITY_PUBLIC_KEY"
    <3>1. exitShell["EXIT_REALITY_PRIVATE_KEY"] = exitEnv["EXIT_REALITY_PRIVATE_KEY"]
      BY <1>1, <2>2, PlaceValues DEF Core, Progress, Saved, ExitNames, Secrets
    <3> QED
      BY <1>1, <1>2, <1>4, <2>2, <3>1, PlaceValues DEF Core, Pairs, IsSet, ExitNames, Secrets
  <2> QED
    BY <1>1, <2>1, <2>2
<1> QED
  BY <1>5, <1>6, <1>7, <1>8 DEF Core

\* The self-steal block sets only its own two names.
LEMMA SelfStealCore ==
  ASSUME ExitTypeOK, Core,
         OwnDomain \/ ThirdPartyDomain \/ VerifyDns \/ HasCertificate \/ GetCertificate
  PROVE  Core' /\ FixedStay
<1>1. /\ at \in 2 .. 4 /\ at' \in 3 .. 5 /\ exitPc # "off" /\ UNCHANGED summary
      /\ at' > at
  BY PlaceValues DEF OwnDomain, ThirdPartyDomain, VerifyDns, HasCertificate, GetCertificate,
                     Step, restVars, at
<1>2. \A n \in Saved : exitEnv'[n] = exitEnv[n] /\ exitShell'[n] = exitShell[n]
  BY DEF OwnDomain, ThirdPartyDomain, VerifyDns, HasCertificate, GetCertificate, Save, Saved,
         ExitTypeOK
<1>3. \A n \in ExitNames \ {"SELF_STEAL_DOMAIN"} :
          \/ exitEnv'[n] = exitEnv[n] /\ exitShell'[n] = exitShell[n]
          \/ exitEnv'[n] = exitShell'[n]
  <2>1. CASE OwnDomain \/ ThirdPartyDomain \/ HasCertificate \/ GetCertificate
    BY <2>1 DEF OwnDomain, ThirdPartyDomain, HasCertificate, GetCertificate, Save, ExitTypeOK
  <2>2. CASE VerifyDns
    <3>1. CASE exitShell["SELF_STEAL_DNS_VERIFIED"] = exitShell["SELF_STEAL_DOMAIN"]
      BY <2>2, <3>1 DEF VerifyDns, Save, ExitTypeOK
    <3>2. CASE exitShell["SELF_STEAL_DNS_VERIFIED"] # exitShell["SELF_STEAL_DOMAIN"]
      BY <2>2, <3>2 DEF VerifyDns, Save, ExitTypeOK
    <3> QED
      BY <3>1, <3>2
  <2> QED
    BY <2>1, <2>2
<1>4. FixedStay
  BY <1>2 DEF FixedStay, Fixed, Saved, ExitNames, Secrets
<1>5. Sorted'
  BY <1>1, <1>2 DEF Core, Sorted, WellSorted, IsSet, TunnelNames, Saved, ExitNames, Secrets
<1>6. ShellFollows'
  BY <1>1, <1>3 DEF Core, ShellFollows, IsSet
<1>7. Progress'
  <2>1. \A n \in Saved : 5 > Place[n] => 2 > Place[n]
    BY PlaceValues DEF Saved, ExitNames, Secrets
  <2>2. \A n \in Saved : Place[n] \in Nat
    BY PlaceValues DEF Saved, ExitNames, Secrets
  <2> QED
    BY <1>1, <1>2, <2>1, <2>2 DEF Core, Progress, IsSet
<1>8. Pairs'
  BY <1>1, <1>2 DEF Core, Pairs, IsSet, Saved, ExitNames, Secrets
<1> QED
  BY <1>4, <1>5, <1>6, <1>7, <1>8 DEF Core

\* Writing the files and starting the containers saves nothing.
LEMMA LaterCore ==
  ASSUME ExitTypeOK, Core,
         \/ Generate("config_toml", TelemtNames, "xray_config")
         \/ Generate("xray_config", XrayNames, "angie_conf")
         \/ Generate("angie_conf", AngieNames, "compose_down")
         \/ ComposeDown \/ ComposeDownFails \/ ComposeUp
  PROVE  Core' /\ FixedStay
<1>1. at > 13 /\ at' > 13 /\ exitPc # "off"
  BY PlaceValues DEF Generate, ComposeDown, ComposeDownFails, ComposeUp, Step, at
<1>2. UNCHANGED <<exitEnv, exitShell, summary>>
  BY DEF Generate, ComposeDown, ComposeDownFails, ComposeUp
<1>3. \A n \in Saved : 13 >= Place[n] /\ Place[n] \in Nat
  BY PlaceValues DEF Saved, ExitNames, Secrets
<1>4. at \in Nat
  BY PlaceValues DEF Generate, ComposeDown, ComposeDownFails, ComposeUp, Step, at
<1>5. Progress'
  BY <1>1, <1>2, <1>3, <1>4 DEF Core, Progress, IsSet
<1> QED
  BY <1>1, <1>2, <1>4, <1>5 DEF Core, Sorted, WellSorted, ShellFollows, Pairs, IsSet, FixedStay

LEMMA StartCore ==
  ASSUME ExitTypeOK, Core, StartExit
  PROVE  Core' /\ FixedStay
<1>1. at' = 1 /\ UNCHANGED <<exitEnv, summary>> /\ exitShell' = exitEnv
  BY PlaceValues DEF StartExit, at
<1>2. \A n \in Saved : ~(1 > Place[n])
  BY PlaceValues DEF Saved, ExitNames, Secrets
<1>3. Progress'
  BY <1>1, <1>2 DEF Progress
<1> QED
  BY <1>1, <1>3 DEF Core, Sorted, WellSorted, ShellFollows, Pairs, IsSet, FixedStay

\* An edit changes a name that is not a fixed one, between two runs.
LEMMA EditCore ==
  ASSUME ExitTypeOK, Core, NEW n \in Edited, NEW value \in AnswersFor[n],
         EditExitEnv(n, value)
  PROVE  Core' /\ FixedStay
<1>1. /\ exitPc = "off" /\ exitPc' = "off" /\ at = 0 /\ at' = 0
      /\ UNCHANGED <<exitShell, summary>>
  BY PlaceValues DEF EditExitEnv, at
<1>2. \A m \in Fixed : m \in ExitNames /\ exitEnv'[m] = exitEnv[m]
  BY EditedTyped DEF EditExitEnv, Save, ExitTypeOK, Fixed, ExitNames, Secrets
<1>3. Sorted'
  <2>1. exitEnv'["EXIT_REALITY_SNI"] \in ExitSnis \cup {Unset}
    BY EditedTyped DEF EditExitEnv, Save, ExitTypeOK, Core, Sorted, WellSorted, ExitNames
  <2> QED
    BY <1>1, <1>2, <2>1 DEF Core, Sorted, WellSorted, IsSet, Fixed
<1>4. Progress'
  <2>1. \A m \in Saved : ~(0 > Place[m])
    BY PlaceValues DEF Saved, ExitNames, Secrets
  <2> QED
    BY <1>1, <2>1 DEF Progress
<1>5. Pairs'
  BY <1>1, <1>2 DEF Core, Pairs, IsSet, Fixed, Secrets
<1> QED
  BY <1>1, <1>2, <1>3, <1>4, <1>5 DEF Core, ShellFollows, FixedStay

\* What .env holds, the script knows; what it has been through is saved; what
\* the tunnel needs never changes.
LEMMA CoreStep ==
  ASSUME ExitTypeOK, Core, ExitNext
  PROVE  Core' /\ FixedStay
<1>1. CASE \/ Ask("TLS_DOMAIN", Domains, "self_steal")
           \/ Ask("MANAGEMENT_IPS", IpLists, "AUTH_HEADER")
           \/ Ask("EXIT_REALITY_SNI", ExitSnis, "EXIT_REALITY_SHORT_IDS")
  BY <1>1, AskCore, PlaceValues, ValuesAreSet DEF ExitSteps
<1>2. CASE \/ Secret("TELEMT_SECRET", "MANAGEMENT_IPS")
           \/ Secret("AUTH_HEADER", "key_pair")
           \/ Secret("EXIT_VLESS_UUID", "EXIT_REALITY_SNI")
           \/ Secret("EXIT_REALITY_SHORT_IDS", "config_toml")
  BY <1>2, SecretCore, PlaceValues DEF ExitSteps, Secrets
<1>3. CASE OwnDomain \/ ThirdPartyDomain \/ VerifyDns \/ HasCertificate \/ GetCertificate
  BY <1>3, SelfStealCore
<1>4. CASE KeyPair
  BY <1>4, KeyPairCore
<1>5. CASE SavePrivateKey \/ SavePublicKey
  BY <1>5, SaveKeyCore
<1>6. CASE \/ Generate("config_toml", TelemtNames, "xray_config")
           \/ Generate("xray_config", XrayNames, "angie_conf")
           \/ Generate("angie_conf", AngieNames, "compose_down")
           \/ ComposeDown \/ ComposeDownFails \/ ComposeUp
  BY <1>6, LaterCore
<1>7. CASE DnsNotReady \/ CertbotFails \/ PublicKeyUnbound \/ ComposeUpFails \/ PrintSummary
           \/ StartExitFails \/ ExitRunFails
  <2>1. /\ \E how \in {"failed", "died", "done"} : ExitEnds(how)
        /\ UNCHANGED exitEnv
        /\ \/ UNCHANGED summary
           \/ exitPc = "summary" /\ summary' = [n \in TunnelNames |-> exitShell[n]]
    BY <1>7 DEF DnsNotReady, CertbotFails, PublicKeyUnbound, ComposeUpFails, PrintSummary,
                StartExitFails, ExitRunFails
  <2> QED
    BY <2>1, EndsCore
<1>8. CASE StartExit
  BY <1>8, StartCore
<1>9. CASE \E n \in Edited : \E value \in AnswersFor[n] : EditExitEnv(n, value)
  BY <1>9, EditCore
<1> QED
  BY <1>1, <1>2, <1>3, <1>4, <1>5, <1>6, <1>7, <1>8, <1>9 DEF ExitNext, ExitStep, ExitOperator

-------------------------------------------------------------------------------
(* The domain of the script's own.                                         *)

LEMMA PlaceType == ASSUME ExitTypeOK PROVE at \in Nat /\ (at = 0 <=> exitPc = "off")
  BY PlaceValues DEF ExitTypeOK, ExitSteps, at

LEMMA SelfStealStep ==
  ASSUME ExitTypeOK, Core, SelfSteal, ExitNext
  PROVE  SelfSteal'
<1>1. ASSUME at' = 0
      PROVE  SelfSteal'
  BY <1>1 DEF SelfSteal
<1>2. ASSUME at' \in 1 .. 2,
             exitShell'["SELF_STEAL_DNS_VERIFIED"] = exitEnv'["SELF_STEAL_DNS_VERIFIED"]
      PROVE  SelfSteal'
  BY <1>2 DEF SelfSteal
<1> DEFINE ofBlock == <<exitShell["TLS_DOMAIN"], exitShell["SELF_STEAL_DOMAIN"],
                        exitShell["SELF_STEAL_DNS_VERIFIED"],
                        exitEnv["SELF_STEAL_DOMAIN"], exitEnv["SELF_STEAL_DNS_VERIFIED"]>>
<1>3. ASSUME at > 4, at' > 4, UNCHANGED <<certs, ofBlock>>
      PROVE  SelfSteal'
  BY <1>3, PlaceType DEF SelfSteal
<1>4. CASE DnsNotReady \/ CertbotFails \/ PublicKeyUnbound \/ ComposeUpFails \/ PrintSummary
           \/ StartExitFails \/ ExitRunFails
  BY <1>1, <1>4, PlaceValues
     DEF DnsNotReady, CertbotFails, PublicKeyUnbound, ComposeUpFails, PrintSummary,
         StartExitFails, ExitRunFails, ExitEnds, at
<1>5. CASE \E n \in Edited : \E value \in AnswersFor[n] : EditExitEnv(n, value)
  BY <1>1, <1>5, PlaceValues DEF EditExitEnv, at
<1>6. CASE StartExit
  BY <1>2, <1>6, PlaceValues DEF StartExit, at
<1>7. CASE Ask("TLS_DOMAIN", Domains, "self_steal")
  BY <1>2, <1>7, PlaceValues DEF Ask, Step, Save, SelfSteal, at, ExitTypeOK
<1>8. CASE OwnDomain
  BY <1>8, PlaceValues DEF OwnDomain, Step, Save, restVars, SelfSteal, at, ExitTypeOK, ExitNames
<1>9. CASE ThirdPartyDomain
  <2>1. exitShell["TLS_DOMAIN"] \notin OwnDomains
    BY <1>9, ValuesAreDistinct DEF ThirdPartyDomain
  <2>2. /\ at = 2 /\ at' = 5 /\ exitShell'["TLS_DOMAIN"] = exitShell["TLS_DOMAIN"]
        /\ exitShell'["SELF_STEAL_DOMAIN"] = Unset
        /\ UNCHANGED <<exitShell["SELF_STEAL_DNS_VERIFIED"], exitEnv["SELF_STEAL_DNS_VERIFIED"]>>
    BY <1>9, PlaceValues DEF ThirdPartyDomain, Step, Save, at, ExitTypeOK, ExitNames
  <2> QED
    BY <2>1, <2>2 DEF SelfSteal
<1>10. CASE VerifyDns
  <2>1. at = 3 /\ at' = 4
    BY <1>10, PlaceValues DEF VerifyDns, Step, at
  <2>2. /\ UNCHANGED <<exitShell["TLS_DOMAIN"], exitShell["SELF_STEAL_DOMAIN"],
                       exitEnv["SELF_STEAL_DOMAIN"]>>
        /\ exitShell'["SELF_STEAL_DNS_VERIFIED"] = exitShell["SELF_STEAL_DOMAIN"]
        /\ exitEnv'["SELF_STEAL_DNS_VERIFIED"] = exitShell["SELF_STEAL_DOMAIN"]
    <3>1. exitShell["SELF_STEAL_DNS_VERIFIED"] = exitEnv["SELF_STEAL_DNS_VERIFIED"]
      BY <2>1 DEF SelfSteal
    <3> QED
      BY <1>10, <3>1 DEF VerifyDns, Save, ExitTypeOK, ExitNames
  <2> QED
    BY <2>1, <2>2 DEF SelfSteal
<1>11. CASE HasCertificate \/ GetCertificate
  <2>1. at = 4 /\ at' = 5 /\ UNCHANGED <<exitShell, exitEnv>>
        /\ exitShell["SELF_STEAL_DOMAIN"] \in certs'
    BY <1>11, PlaceValues DEF HasCertificate, GetCertificate, Step, at
  <2> QED
    BY <2>1 DEF SelfSteal
<1>12. CASE \/ Ask("MANAGEMENT_IPS", IpLists, "AUTH_HEADER")
            \/ Ask("EXIT_REALITY_SNI", ExitSnis, "EXIT_REALITY_SHORT_IDS")
  <2>1. at > 4 /\ at' > 4 /\ UNCHANGED certs
    BY <1>12, PlaceValues DEF Ask, Step, at
  <2>2. UNCHANGED ofBlock
    BY <1>12 DEF Ask, Save, ExitTypeOK, ExitNames
  <2> QED
    BY <1>3, <2>1, <2>2
<1>13. CASE \/ Secret("TELEMT_SECRET", "MANAGEMENT_IPS")
            \/ Secret("AUTH_HEADER", "key_pair")
            \/ Secret("EXIT_VLESS_UUID", "EXIT_REALITY_SNI")
            \/ Secret("EXIT_REALITY_SHORT_IDS", "config_toml")
  <2>1. at > 4 /\ at' > 4 /\ UNCHANGED certs
    BY <1>13, PlaceValues DEF Secret, Step, at
  <2>2. UNCHANGED ofBlock
    BY <1>13 DEF Secret, Save, ExitTypeOK, ExitNames
  <2> QED
    BY <1>3, <2>1, <2>2
<1>14. CASE KeyPair \/ SavePrivateKey \/ SavePublicKey
  <2>1. at > 4 /\ at' > 4 /\ UNCHANGED certs
    BY <1>14, PlaceValues DEF KeyPair, SavePrivateKey, SavePublicKey, Step, at
  <2>2. UNCHANGED ofBlock
    BY <1>14 DEF KeyPair, SavePrivateKey, SavePublicKey, Save, ExitTypeOK, ExitNames
  <2> QED
    BY <1>3, <2>1, <2>2
<1>15. CASE \/ Generate("config_toml", TelemtNames, "xray_config")
            \/ Generate("xray_config", XrayNames, "angie_conf")
            \/ Generate("angie_conf", AngieNames, "compose_down")
            \/ ComposeDown \/ ComposeDownFails \/ ComposeUp
  BY <1>3, <1>15, PlaceValues
     DEF Generate, ComposeDown, ComposeDownFails, ComposeUp, Step, at
<1> QED
  BY <1>4, <1>5, <1>6, <1>7, <1>8, <1>9, <1>10, <1>11, <1>12, <1>13, <1>14, <1>15
     DEF ExitNext, ExitStep, ExitOperator

-------------------------------------------------------------------------------
(* Files and containers.                                                   *)

\* Files as they were, their values in the containers, and a value that the
\* tunnel needs does not change: all agree as before.
LEMMA FilesStay ==
  ASSUME ExitTypeOK, Core, Core', FixedStay, FilesAreSaved, UNCHANGED exitFiles,
         \A n \in ExitNames : exitLoaded'[n] = exitLoaded[n] \/ exitLoaded'[n] = exitFiles[n]
  PROVE  /\ \A n \in Fixed :
                /\ IsSet(exitFiles', n) => exitFiles'[n] = exitEnv'[n]
                /\ IsSet(exitLoaded', n) => exitLoaded'[n] = exitEnv'[n]
         /\ \/ IsSet(exitFiles', "EXIT_REALITY_PRIVATE_KEY")
            \/ IsSet(exitLoaded', "EXIT_REALITY_PRIVATE_KEY")
            => IsSet(exitEnv', "EXIT_REALITY_PUBLIC_KEY")
<1>1. Fixed \subseteq ExitNames
  BY DEF Fixed, ExitNames
<1>2. \A n \in Fixed : IsSet(exitLoaded, n) \/ IsSet(exitFiles, n) => IsSet(exitEnv, n)
  BY DEF FilesAreSaved, IsSet
<1>3. "EXIT_REALITY_PRIVATE_KEY" \in Fixed /\ "EXIT_REALITY_PUBLIC_KEY" \in Fixed
  BY DEF Fixed, Secrets
<1> QED
  BY <1>1, <1>2, <1>3 DEF FilesAreSaved, IsSet, FixedStay

\* compose up gives a container that it creates what the files hold.
LEMMA CreatesLoads ==
  ASSUME ExitTypeOK, Core, FilesAreSaved, exitPc = "compose_up", exitFiles' = exitFiles,
         NEW started \in SUBSET Containers, Creates(started)
  PROVE  /\ \A n \in ExitNames : exitLoaded'[n] = exitLoaded[n] \/ exitLoaded'[n] = exitFiles[n]
         /\ "xray-exit" \in exitUp' => \A n \in XrayNames : IsSet(exitLoaded', n)
<1>1. \A n \in ExitNames : exitLoaded'[n] =
          IF \E c \in started : n \in Reads(c) /\ (c \in exitUp => c = "telemt")
          THEN exitFiles[n] ELSE exitLoaded[n]
  BY DEF Creates
<1>2. \A n \in XrayNames : n \in ExitNames /\ IsSet(exitFiles, n)
  <2>1. at = 18
    BY PlaceValues DEF at
  <2>2. \A n \in XrayNames : n \in ExitNames /\ n \in Saved /\ 18 > Place[n]
    BY PlaceValues DEF XrayNames, Saved, ExitNames, Secrets
  <2> QED
    BY <2>1, <2>2 DEF FilesAreSaved, Core, Progress, IsSet
<1>3. Reads("xray-exit") = XrayNames
  BY DEF Reads
<1>4. "xray-exit" \in exitUp' => "xray-exit" \in exitUp \/ "xray-exit" \in started
  BY DEF Creates
<1>5. "xray-exit" \in exitUp => \A n \in XrayNames : IsSet(exitLoaded, n)
  BY DEF FilesAreSaved
<1> QED
  BY <1>1, <1>2, <1>3, <1>4, <1>5 DEF IsSet

LEMMA FilesStep ==
  ASSUME ExitTypeOK, Core, Core', FixedStay, FilesAreSaved, ExitNext
  PROVE  FilesAreSaved'
<1>1. ASSUME UNCHANGED <<exitFiles, exitLoaded>>, exitUp' \subseteq exitUp,
             at' \in 0 .. 14 \/ (at > 16 /\ exitShell' = exitShell)
      PROVE  FilesAreSaved'
  <2>1. /\ at' > 14 => \A n \in TelemtNames : exitFiles'[n] = exitShell'[n]
        /\ at' > 15 => \A n \in XrayNames : exitFiles'[n] = exitShell'[n]
        /\ at' > 16 => \A n \in AngieNames : exitFiles'[n] = exitShell'[n]
    BY <1>1, PlaceType DEF FilesAreSaved
  <2>2. "xray-exit" \in exitUp' => \A n \in XrayNames : IsSet(exitLoaded', n)
    BY <1>1 DEF FilesAreSaved, IsSet
  <2> QED
    BY <1>1, <2>1, <2>2, FilesStay DEF FilesAreSaved
<1>2. CASE DnsNotReady \/ CertbotFails \/ PublicKeyUnbound \/ ComposeUpFails \/ PrintSummary
           \/ StartExitFails
  BY <1>1, <1>2, PlaceValues
     DEF DnsNotReady, CertbotFails, PublicKeyUnbound, ComposeUpFails, PrintSummary,
         StartExitFails, ExitEnds, at
<1>3. CASE \/ StartExit
           \/ \E n \in Edited : \E value \in AnswersFor[n] : EditExitEnv(n, value)
  BY <1>1, <1>3, PlaceValues DEF StartExit, EditExitEnv, at
<1>4. CASE \/ Ask("TLS_DOMAIN", Domains, "self_steal")
           \/ Ask("MANAGEMENT_IPS", IpLists, "AUTH_HEADER")
           \/ Ask("EXIT_REALITY_SNI", ExitSnis, "EXIT_REALITY_SHORT_IDS")
           \/ Secret("TELEMT_SECRET", "MANAGEMENT_IPS")
           \/ Secret("AUTH_HEADER", "key_pair")
           \/ Secret("EXIT_VLESS_UUID", "EXIT_REALITY_SNI")
           \/ Secret("EXIT_REALITY_SHORT_IDS", "config_toml")
  BY <1>1, <1>4, PlaceValues DEF Ask, Secret, Step, restVars, at
<1>5. CASE OwnDomain \/ ThirdPartyDomain \/ VerifyDns \/ HasCertificate \/ GetCertificate
  BY <1>1, <1>5, PlaceValues
     DEF OwnDomain, ThirdPartyDomain, VerifyDns, HasCertificate, GetCertificate, Step,
         restVars, at
<1>6. CASE KeyPair \/ SavePrivateKey \/ SavePublicKey
  BY <1>1, <1>6, PlaceValues DEF KeyPair, SavePrivateKey, SavePublicKey, Step, restVars, at
<1>7. CASE ComposeDown \/ ComposeDownFails
  BY <1>1, <1>7, PlaceValues DEF ComposeDown, ComposeDownFails, Step, at
<1>8. CASE ComposeUp
  <2>1. /\ exitPc = "compose_up" /\ UNCHANGED <<exitFiles, exitShell>> /\ Creates(Containers)
        /\ at = 18
    BY <1>8, PlaceValues DEF ComposeUp, Step, at
  <2>2. /\ \A n \in ExitNames : exitLoaded'[n] = exitLoaded[n] \/ exitLoaded'[n] = exitFiles[n]
        /\ "xray-exit" \in exitUp' => \A n \in XrayNames : IsSet(exitLoaded', n)
    BY <2>1, CreatesLoads
  <2>3. \A n \in TelemtNames \cup XrayNames \cup AngieNames : exitFiles'[n] = exitShell'[n]
    BY <2>1 DEF FilesAreSaved
  <2> QED
    BY <2>1, <2>2, <2>3, FilesStay DEF FilesAreSaved
<1>9. CASE ExitRunFails
  <2>1. at' = 0 /\ exitFiles' = exitFiles
    BY <1>9, PlaceValues DEF ExitRunFails, ExitEnds, at
  <2>2. CASE exitPc # "compose_up"
    <3>1. exitUp' \subseteq exitUp /\ exitLoaded' = exitLoaded
      BY <1>9, <2>2 DEF ExitRunFails
    <3> QED
      BY <1>1, <2>1, <3>1
  <2>3. CASE exitPc = "compose_up"
    <3>1. PICK started \in SUBSET Containers : Creates(started)
      BY <1>9, <2>3 DEF ExitRunFails
    <3>2. /\ \A n \in ExitNames : exitLoaded'[n] = exitLoaded[n] \/ exitLoaded'[n] = exitFiles[n]
          /\ "xray-exit" \in exitUp' => \A n \in XrayNames : IsSet(exitLoaded', n)
      BY <2>1, <2>3, <3>1, CreatesLoads
    <3> QED
      BY <2>1, <3>2, FilesStay DEF FilesAreSaved
  <2> QED
    BY <2>2, <2>3
<1>10. ASSUME NEW step \in {"config_toml", "xray_config", "angie_conf"},
              NEW names \in SUBSET ExitNames, NEW to \in ExitSteps,
              Place[to] = Place[step] + 1, Generate(step, names, to),
              step = "config_toml" => names = TelemtNames,
              step = "xray_config" => names = XrayNames,
              step = "angie_conf" => names = AngieNames
       PROVE  FilesAreSaved'
  <2>1. /\ at = Place[step] /\ at' = at + 1 /\ at \in 14 .. 16
        /\ UNCHANGED <<exitEnv, exitShell, exitLoaded, exitUp>>
        /\ \A n \in ExitNames : exitFiles'[n] = IF n \in names THEN exitShell[n] ELSE exitFiles[n]
    BY <1>10, PlaceValues DEF Generate, Step, at
  <2>2. \A n \in Fixed : /\ n \in Saved /\ n \in ExitNames
                         /\ exitShell[n] = exitEnv[n] /\ IsSet(exitEnv, n)
    <3>1. \A n \in Fixed : n \in Saved /\ n \in ExitNames /\ 14 > Place[n]
      BY PlaceValues DEF Fixed, Saved, ExitNames, Secrets
    <3>2. \A n \in Fixed : at > Place[n]
      BY <2>1, <3>1, PlaceValues DEF Fixed, Secrets
    <3> QED
      BY <3>1, <3>2 DEF Core, Progress
  <2>3. \A n \in Fixed : IsSet(exitFiles', n) => exitFiles'[n] = exitEnv'[n]
    BY <2>1, <2>2 DEF FilesAreSaved, IsSet
  <2>4. IsSet(exitEnv', "EXIT_REALITY_PUBLIC_KEY")
    BY <2>1, <2>2 DEF Fixed, Secrets, IsSet
  <2>5. /\ TelemtNames \subseteq ExitNames /\ XrayNames \subseteq ExitNames
        /\ AngieNames \subseteq ExitNames
    BY DEF TelemtNames, XrayNames, AngieNames, ExitNames, Secrets
  <2>6. /\ at' > 14 => \A n \in TelemtNames : exitFiles'[n] = exitShell'[n]
        /\ at' > 15 => \A n \in XrayNames : exitFiles'[n] = exitShell'[n]
        /\ at' > 16 => \A n \in AngieNames : exitFiles'[n] = exitShell'[n]
    BY <1>10, <2>1, <2>5, PlaceValues DEF FilesAreSaved
  <2> QED
    BY <2>1, <2>3, <2>4, <2>6 DEF FilesAreSaved, IsSet
<1>11. CASE \/ Generate("config_toml", TelemtNames, "xray_config")
            \/ Generate("xray_config", XrayNames, "angie_conf")
            \/ Generate("angie_conf", AngieNames, "compose_down")
  <2>1. /\ TelemtNames \subseteq ExitNames /\ XrayNames \subseteq ExitNames
        /\ AngieNames \subseteq ExitNames
    BY DEF TelemtNames, XrayNames, AngieNames, ExitNames, Secrets
  <2> QED
    BY <1>10, <1>11, <2>1, PlaceValues DEF ExitSteps
<1> QED
  BY <1>2, <1>3, <1>4, <1>5, <1>6, <1>7, <1>8, <1>9, <1>11 DEF ExitNext, ExitStep, ExitOperator

-------------------------------------------------------------------------------
(* A run after a completed one.                                            *)

\* The steps at which a run neither begins nor ends.
Running ==
    \/ Ask("TLS_DOMAIN", Domains, "self_steal")
    \/ OwnDomain \/ ThirdPartyDomain \/ VerifyDns \/ HasCertificate \/ GetCertificate
    \/ Secret("TELEMT_SECRET", "MANAGEMENT_IPS")
    \/ Ask("MANAGEMENT_IPS", IpLists, "AUTH_HEADER")
    \/ Secret("AUTH_HEADER", "key_pair")
    \/ KeyPair \/ SavePrivateKey \/ SavePublicKey
    \/ Secret("EXIT_VLESS_UUID", "EXIT_REALITY_SNI")
    \/ Ask("EXIT_REALITY_SNI", ExitSnis, "EXIT_REALITY_SHORT_IDS")
    \/ Secret("EXIT_REALITY_SHORT_IDS", "config_toml")
    \/ Generate("config_toml", TelemtNames, "xray_config")
    \/ Generate("xray_config", XrayNames, "angie_conf")
    \/ Generate("angie_conf", AngieNames, "compose_down")
    \/ ComposeDown \/ ComposeDownFails \/ ComposeUp

Idle == UNCHANGED <<exitEnv, exitFiles, certs, minted, asked>>

\* If everything is there, none of them has anything to do.
LEMMA NothingToDo ==
  ASSUME ExitTypeOK, Core, SelfSteal, Complete, exitPc # "off", Running
  PROVE  Idle
<1>1. \A n \in Saved : n \in ExitNames /\ IsSet(exitShell, n) /\ exitShell[n] = exitEnv[n]
  BY DEF Core, ShellFollows, Complete, Saved, IsSet
<1>2. ASSUME NEW n \in ExitNames PROVE Save(exitEnv, n, exitEnv[n]) = exitEnv
  BY DEF Save, ExitTypeOK
<1>3. {"TLS_DOMAIN", "MANAGEMENT_IPS", "EXIT_REALITY_SNI", "SELF_STEAL_DOMAIN"} \cup Secrets
          \subseteq ExitNames
  BY DEF ExitNames
<1>4. {"TLS_DOMAIN", "MANAGEMENT_IPS", "EXIT_REALITY_SNI"} \cup Secrets \subseteq Saved
  BY DEF Saved, ExitNames, Secrets
<1>5. ASSUME NEW n \in Saved, NEW answers, NEW to, Ask(n, answers, to)
      PROVE  Idle
  BY <1>1, <1>2, <1>5 DEF Ask, PromptFor, Idle, restVars
<1>6. ASSUME NEW n \in Secrets, NEW to, Secret(n, to)
      PROVE  Idle
  BY <1>1, <1>2, <1>4, <1>6 DEF Secret, Idle, restVars
<1>7. CASE \/ Ask("TLS_DOMAIN", Domains, "self_steal")
           \/ Ask("MANAGEMENT_IPS", IpLists, "AUTH_HEADER")
           \/ Ask("EXIT_REALITY_SNI", ExitSnis, "EXIT_REALITY_SHORT_IDS")
  BY <1>4, <1>5, <1>7
<1>8. CASE \/ Secret("TELEMT_SECRET", "MANAGEMENT_IPS")
           \/ Secret("AUTH_HEADER", "key_pair")
           \/ Secret("EXIT_VLESS_UUID", "EXIT_REALITY_SNI")
           \/ Secret("EXIT_REALITY_SHORT_IDS", "config_toml")
  BY <1>6, <1>8 DEF Secrets
<1>9. CASE OwnDomain
  <2>1. exitEnv["SELF_STEAL_DOMAIN"] = exitShell["TLS_DOMAIN"]
    BY <1>1, <1>4, <1>9 DEF OwnDomain, Complete
  <2> QED
    BY <1>2, <1>3, <1>9, <2>1 DEF OwnDomain, Idle, restVars
<1>10. CASE ThirdPartyDomain
  BY <1>3, <1>10 DEF ThirdPartyDomain, Idle, restVars, IsSet, Save, ExitTypeOK
<1>11. CASE VerifyDns \/ HasCertificate \/ GetCertificate
  <2>1. at \in 3 .. 4
    BY <1>11, PlaceValues DEF VerifyDns, HasCertificate, GetCertificate, Step, at
  <2>2. /\ exitShell["SELF_STEAL_DOMAIN"] = exitEnv["TLS_DOMAIN"]
        /\ exitShell["SELF_STEAL_DNS_VERIFIED"] = exitEnv["TLS_DOMAIN"]
        /\ exitEnv["TLS_DOMAIN"] \in certs
    BY <1>1, <1>4, <2>1 DEF SelfSteal, Complete
  <2> QED
    BY <1>11, <2>2 DEF VerifyDns, HasCertificate, GetCertificate, Idle, restVars
<1>12. CASE KeyPair
  BY <1>1, <1>4, <1>12 DEF KeyPair, Idle, Secrets
<1>13. CASE SavePrivateKey \/ SavePublicKey
  <2>1. /\ exitShell["EXIT_REALITY_PRIVATE_KEY"] = exitEnv["EXIT_REALITY_PRIVATE_KEY"]
        /\ exitShell["EXIT_REALITY_PUBLIC_KEY"] = exitEnv["EXIT_REALITY_PUBLIC_KEY"]
    BY <1>1, <1>4 DEF Secrets
  <2>2. "EXIT_REALITY_PRIVATE_KEY" \in ExitNames /\ "EXIT_REALITY_PUBLIC_KEY" \in ExitNames
    BY DEF ExitNames, Secrets
  <2> QED
    BY <1>2, <1>13, <2>1, <2>2 DEF SavePrivateKey, SavePublicKey, Idle, restVars
<1>14. ASSUME NEW step, NEW names, NEW to, Generate(step, names, to),
              \A n \in names : n \in ExitNames => exitFiles[n] = exitShell[n]
       PROVE  Idle
  <2>1. exitFiles' = exitFiles
    BY <1>14 DEF Generate, ExitTypeOK
  <2> QED
    BY <1>14, <2>1 DEF Generate, Idle
<1>15. CASE \/ Generate("config_toml", TelemtNames, "xray_config")
            \/ Generate("xray_config", XrayNames, "angie_conf")
  <2>1. TelemtNames \cup XrayNames \subseteq Saved
    BY DEF TelemtNames, XrayNames, Saved, ExitNames, Secrets
  <2> QED
    BY <1>1, <1>14, <1>15, <2>1 DEF Complete
<1>16. CASE Generate("angie_conf", AngieNames, "compose_down")
  <2>1. at > 2 /\ exitShell["TLS_DOMAIN"] = exitEnv["TLS_DOMAIN"]
    BY <1>1, <1>4, <1>16, PlaceValues DEF Generate, Step, at
  <2>2. exitFiles["SELF_STEAL_DOMAIN"] = exitShell["SELF_STEAL_DOMAIN"]
    BY <2>1 DEF Complete, SelfSteal
  <2> QED
    BY <1>14, <1>16, <2>2 DEF AngieNames
<1>17. CASE ComposeDown \/ ComposeDownFails \/ ComposeUp
  BY <1>17 DEF ComposeDown, ComposeDownFails, ComposeUp, Idle
<1> QED
  BY <1>7, <1>8, <1>9, <1>10, <1>11, <1>12, <1>13, <1>15, <1>16, <1>17 DEF Running

LEMMA CompleteStays ==
  ASSUME Complete, UNCHANGED <<exitEnv, exitFiles, certs>>
  PROVE  Complete'
  BY DEF Complete, IsSet

\* The last step of the script leaves everything there.
LEMMA SummaryCompletes ==
  ASSUME ExitTypeOK, Core, SelfSteal, FilesAreSaved, exitPc = "summary"
  PROVE  Complete
<1>1. at = 19
  BY PlaceValues DEF at
<1>2. \A n \in Saved : IsSet(exitEnv, n) /\ exitShell[n] = exitEnv[n]
  BY <1>1, PlaceValues DEF Core, Progress, Saved, ExitNames, Secrets
<1>3. TelemtNames \cup XrayNames \cup {"TLS_DOMAIN"} \subseteq Saved
  BY DEF TelemtNames, XrayNames, Saved, ExitNames, Secrets
<1>4. \A n \in TelemtNames \cup XrayNames : exitFiles[n] = exitEnv[n]
  BY <1>1, <1>2, <1>3 DEF FilesAreSaved
<1>5. exitFiles["SELF_STEAL_DOMAIN"] = exitShell["SELF_STEAL_DOMAIN"]
  BY <1>1 DEF FilesAreSaved, AngieNames
<1> QED
  BY <1>1, <1>2, <1>3, <1>4, <1>5 DEF Complete, SelfSteal

LEMMA RepeatsStep ==
  ASSUME ExitTypeOK, Core, SelfSteal, FilesAreSaved, Repeats, ExitNext
  PROVE  /\ Repeats'
         /\ exitPc # "off" /\ repeat =>
                UNCHANGED <<exitEnv, exitFiles, certs, minted>> /\ asked' = {}
<1>1. CASE DnsNotReady \/ CertbotFails \/ PublicKeyUnbound \/ ComposeUpFails
           \/ StartExitFails \/ ExitRunFails
  <2>1. /\ lastRun' # "done" /\ exitPc' = "off" /\ asked' = {}
        /\ UNCHANGED <<exitEnv, exitFiles, certs, minted>>
    BY <1>1 DEF DnsNotReady, CertbotFails, PublicKeyUnbound, ComposeUpFails, StartExitFails,
                ExitRunFails, ExitEnds
  <2> QED
    BY <2>1 DEF Repeats
<1>2. CASE PrintSummary
  <2>1. /\ exitPc = "summary" /\ exitPc' = "off" /\ asked' = {}
        /\ UNCHANGED <<exitEnv, exitFiles, certs, minted>>
    BY <1>2 DEF PrintSummary, ExitEnds
  <2> QED
    BY <2>1, SummaryCompletes, CompleteStays DEF Repeats
<1>3. CASE StartExit
  <2>1. /\ exitPc = "off" /\ exitPc' # "off" /\ repeat' = (lastRun = "done")
        /\ UNCHANGED <<exitEnv, exitFiles, certs, asked, lastRun>>
    BY <1>3 DEF StartExit
  <2> QED
    BY <2>1, CompleteStays DEF Repeats
<1>4. CASE \E n \in Edited : \E value \in AnswersFor[n] : EditExitEnv(n, value)
  <2>1. exitPc = "off" /\ exitPc' = "off" /\ lastRun' = "edited" /\ asked' = asked
    BY <1>4 DEF EditExitEnv
  <2> QED
    BY <2>1 DEF Repeats
<1>5. CASE Running
  <2>1. exitPc # "off" /\ exitPc' # "off" /\ UNCHANGED <<lastRun, repeat>>
    BY <1>5 DEF Running, Ask, OwnDomain, ThirdPartyDomain, VerifyDns, HasCertificate,
           GetCertificate, Secret, KeyPair, SavePrivateKey, SavePublicKey, Generate,
           ComposeDown, ComposeDownFails, ComposeUp, Step, restVars
  <2>2. CASE lastRun = "done"
    <3>1. Idle /\ asked = {}
      BY <1>5, <2>1, <2>2, NothingToDo DEF Repeats
    <3> QED
      BY <2>1, <2>2, <3>1, CompleteStays DEF Repeats, Idle
  <2>3. CASE lastRun # "done"
    BY <2>1, <2>3 DEF Repeats, ExitTypeOK
  <2> QED
    BY <2>2, <2>3
<1> QED
  BY <1>1, <1>2, <1>3, <1>4, <1>5 DEF ExitNext, ExitStep, ExitOperator, Running

-------------------------------------------------------------------------------
(* The entry server.                                                       *)

\* The operator leaves the SNI in .env alone, and carries it over, or both
\* scripts offer the same default and he accepts both.
SniCarriedOver ==
    /\ "EXIT_REALITY_SNI" \notin Edited
    /\ AcceptsDefaults => ExitSnis \subseteq {EntryDefaultSni}

LEMMA Counterparts ==
    /\ Entry!EntryNames =
           {"EXIT_VLESS_UUID", "EXIT_PUBLIC_KEY", "EXIT_REALITY_SNI", "EXIT_SHORT_ID"}
    /\ DOMAIN Counterpart = Entry!EntryNames
    /\ Counterpart["EXIT_VLESS_UUID"] = "EXIT_VLESS_UUID"
    /\ Counterpart["EXIT_PUBLIC_KEY"] = "EXIT_REALITY_PUBLIC_KEY"
    /\ Counterpart["EXIT_REALITY_SNI"] = "EXIT_REALITY_SNI"
    /\ Counterpart["EXIT_SHORT_ID"] = "EXIT_REALITY_SHORT_IDS"
  BY DEF Entry!EntryNames, Counterpart

LEMMA CounterpartNames ==
    \A n \in Entry!EntryNames :
        /\ Counterpart[n] \in TunnelNames
        /\ n # "EXIT_REALITY_SNI" \/ SniCarriedOver => Counterpart[n] \in Fixed
  BY Counterparts DEF TunnelNames, Fixed, Secrets, SniCarriedOver

\* What the operator enters is what .env of the exit server holds.
LEMMA EnteredIsSaved ==
  ASSUME SniCarriedOver, TypeOK, Core, EntryInv,
         NEW n \in Entry!EntryNames, entryPc = n,
         NEW value \in Entry!PromptFor(entryShell, n, Entry!Answers(n))
  PROVE  /\ value # Unset /\ value = exitEnv[Counterpart[n]]
         /\ n = "EXIT_VLESS_UUID" => IsSet(exitEnv, "EXIT_REALITY_SNI")
<1>1. CASE IsSet(entryShell, n)
  <2>1. value = entryShell[n]
    BY <1>1 DEF Entry!PromptFor, Entry!IsSet, IsSet
  <2> QED
    BY <1>1, <2>1 DEF EntryInv, Told, IsSet
<1>2. CASE ~IsSet(entryShell, n) /\ n = "EXIT_REALITY_SNI" /\ AcceptsDefaults
  <2>1. value = EntryDefaultSni
    BY <1>2 DEF Entry!PromptFor, Entry!IsSet, IsSet, Entry!Answers
  <2>2. IsSet(exitEnv, "EXIT_REALITY_SNI")
    BY <1>2 DEF EntryInv, Entered, Told
  <2>3. exitEnv["EXIT_REALITY_SNI"] \in ExitSnis
    BY <2>2 DEF Core, Sorted, WellSorted, IsSet
  <2> QED
    BY <1>2, <2>1, <2>3, Counterparts, DefaultIsAValue DEF SniCarriedOver
<1>3. CASE ~IsSet(entryShell, n) /\ ~(n = "EXIT_REALITY_SNI" /\ AcceptsDefaults)
  <2>1. value = summary[Counterpart[n]] /\ IsSet(summary, Counterpart[n])
    BY <1>3, Counterparts DEF Entry!PromptFor, Entry!IsSet, IsSet, Entry!Answers
  <2>2. value = exitEnv[Counterpart[n]]
    BY <2>1, CounterpartNames DEF Core, Sorted
  <2>3. n = "EXIT_VLESS_UUID" => IsSet(exitEnv, "EXIT_REALITY_SNI")
    BY <2>1, Counterparts DEF EntryInv, TunnelNames
  <2> QED
    BY <2>1, <2>2, <2>3 DEF IsSet
<1> QED
  BY <1>1, <1>2, <1>3

\* An answer is a value of the entry server, whatever the operator presses.
LEMMA AnswerTyped ==
  ASSUME TypeOK, Core, NEW n \in Entry!EntryNames,
         NEW value \in Entry!PromptFor(entryShell, n, Entry!Answers(n))
  PROVE  value \in ExitSnis \cup {EntryDefaultSni} \cup Minted \cup {Unset}
<1>1. IsSet(summary, Counterpart[n]) =>
          summary[Counterpart[n]] \in ExitSnis \cup Minted
  <2>1. CASE n = "EXIT_REALITY_SNI"
    BY <2>1, Counterparts DEF Core, Sorted, IsSet
  <2>2. CASE n # "EXIT_REALITY_SNI"
    <3>1. Counterpart[n] \in Secrets
      BY <2>2, Counterparts DEF Secrets
    <3> QED
      BY <2>2, <3>1, CounterpartNames DEF Core, Sorted, WellSorted, IsSet
  <2> QED
    BY <2>1, <2>2
<1>2. \/ value = entryShell[n]
      \/ value = EntryDefaultSni
      \/ value = summary[Counterpart[n]] /\ IsSet(summary, Counterpart[n])
  BY Counterparts DEF Entry!PromptFor, Entry!IsSet, Entry!Answers, IsSet
<1> QED
  BY <1>1, <1>2 DEF TypeOK, Entry!EntryTypeOK

\* Every step of the entry server's script keeps its types.
LEMMA EntryTypedStep ==
  ASSUME TypeOK, Core, Entry!EntryNext
  PROVE  Entry!EntryTypeOK'
<1> USE DEF TypeOK, Entry!EntryTypeOK, Entry!EntrySteps, Entry!EntryMoves
<1>1. CASE Entry!StartEntry
  BY <1>1, Counterparts DEF Entry!StartEntry
<1>2. CASE Entry!EntryRunFails
  BY <1>2, EntryBoundIsNatural DEF Entry!EntryRunFails, Entry!Nothing
<1>3. CASE Entry!GenerateEntry \/ Entry!EntryStarts
  BY <1>3 DEF Entry!GenerateEntry, Entry!EntryStarts, Entry!Nothing
<1>4. CASE Entry!EntryDown
  <2>1. entryUp' = FALSE \/ entryUp' = entryUp
    BY <1>4 DEF Entry!EntryDown
  <2>2. entryPc' = "up" /\ UNCHANGED <<entryEnv, entryShell, entryFile, entryLoaded, entryTroubles>>
    BY <1>4 DEF Entry!EntryDown
  <2> QED
    BY <2>1, <2>2
<1>5. ASSUME NEW n \in Entry!EntryNames, NEW to \in Entry!EntryNames \cup {"generate"},
             Entry!AskEntry(n, to)
      PROVE  Entry!EntryTypeOK'
  BY <1>5, AnswerTyped DEF Entry!AskEntry, Entry!Save
<1> QED
  BY <1>1, <1>2, <1>3, <1>4, <1>5, Counterparts DEF Entry!EntryNext

\* An answer is set, saved, and nothing else changes.
LEMMA AskEntryStep ==
  ASSUME SniCarriedOver, TypeOK, Core, EntryInv, UNCHANGED exitVars,
         NEW n \in Entry!EntryNames, NEW to \in Entry!EntryNames \cup {"generate"},
         Entry!AskEntry(n, to),
         n = "EXIT_VLESS_UUID" => to = "EXIT_PUBLIC_KEY",
         n = "EXIT_PUBLIC_KEY" => to = "EXIT_REALITY_SNI",
         n = "EXIT_REALITY_SNI" => to = "EXIT_SHORT_ID",
         n = "EXIT_SHORT_ID" => to = "generate"
  PROVE  EntryInv'
<1>1. PICK value \in Entry!PromptFor(entryShell, n, Entry!Answers(n)) :
           /\ entryShell' = [entryShell EXCEPT ![n] = value]
           /\ entryEnv' = [entryEnv EXCEPT ![n] = value]
  BY DEF Entry!AskEntry, Entry!Save
<1>2. /\ entryPc = n /\ entryPc' = to
      /\ UNCHANGED <<entryFile, entryLoaded, entryUp, entryTroubles, exitEnv, summary>>
  BY DEF Entry!AskEntry, Entry!EntryMoves, exitVars
<1>3. /\ value # Unset /\ value = exitEnv[Counterpart[n]]
      /\ n = "EXIT_VLESS_UUID" => IsSet(exitEnv, "EXIT_REALITY_SNI")
  BY <1>2, EnteredIsSaved
<1>4. /\ \A m \in Entry!EntryNames : m # n =>
             entryShell'[m] = entryShell[m] /\ entryEnv'[m] = entryEnv[m]
      /\ entryShell'[n] = value /\ entryEnv'[n] = value
  BY <1>1 DEF TypeOK, Entry!EntryTypeOK
<1>5. Told(entryEnv)' /\ Told(entryShell)'
  BY <1>2, <1>3, <1>4, Counterparts DEF EntryInv, Told, IsSet
<1>6. Told(entryFile)' /\ Told(entryLoaded)'
  BY <1>2 DEF EntryInv, Told, IsSet
<1>7. /\ entryPc' = "EXIT_PUBLIC_KEY" => IsSet(entryShell', "EXIT_VLESS_UUID")
      /\ entryPc' = "EXIT_REALITY_SNI" =>
             \A m \in {"EXIT_VLESS_UUID", "EXIT_PUBLIC_KEY"} : IsSet(entryShell', m)
      /\ entryPc' = "EXIT_SHORT_ID" =>
             \A m \in Entry!EntryNames \ {"EXIT_SHORT_ID"} : IsSet(entryShell', m)
      /\ entryPc' = "generate" => \A m \in Entry!EntryNames : IsSet(entryShell', m)
  BY <1>2, <1>3, <1>4, Counterparts DEF EntryInv, Entered, IsSet
<1> QED
  BY <1>2, <1>5, <1>6, <1>7, Counterparts DEF EntryInv, Entered, IsSet

\* The other steps of its script only copy what is there.
LEMMA EntryStep ==
  ASSUME SniCarriedOver, TypeOK, Core, EntryInv, UNCHANGED exitVars, Entry!EntryNext
  PROVE  EntryInv'
<1> USE DEF TypeOK, Entry!EntryTypeOK, EntryInv, Told, Entered, IsSet, exitVars
<1>1. CASE Entry!StartEntry
  BY <1>1, Counterparts DEF Entry!StartEntry, Entry!EntryMoves, Entry!EntrySteps
<1>2. CASE Entry!EntryRunFails
  BY <1>2, EntryBoundIsNatural, Counterparts DEF Entry!EntryRunFails, Entry!Nothing
<1>3. CASE Entry!GenerateEntry
  BY <1>3 DEF Entry!GenerateEntry, Entry!EntryMoves, Entry!EntrySteps
<1>4. CASE Entry!EntryDown
  <2>1. CASE entryUp' = FALSE
    BY <1>4, <2>1 DEF Entry!EntryDown, Entry!EntryMoves, Entry!EntrySteps
  <2>2. CASE entryUp' = entryUp
    BY <1>4, <2>2 DEF Entry!EntryDown, Entry!EntryMoves, Entry!EntrySteps
  <2> QED
    BY <1>4, <2>1, <2>2 DEF Entry!EntryDown
<1>5. CASE Entry!EntryStarts
  BY <1>5, Counterparts DEF Entry!EntryStarts, Entry!EntryMoves, Entry!Nothing
<1>6. CASE \/ Entry!AskEntry("EXIT_VLESS_UUID", "EXIT_PUBLIC_KEY")
           \/ Entry!AskEntry("EXIT_PUBLIC_KEY", "EXIT_REALITY_SNI")
           \/ Entry!AskEntry("EXIT_REALITY_SNI", "EXIT_SHORT_ID")
           \/ Entry!AskEntry("EXIT_SHORT_ID", "generate")
  BY <1>6, AskEntryStep DEF Entry!EntryNames
<1> QED
  BY <1>1, <1>2, <1>3, <1>4, <1>5, <1>6 DEF Entry!EntryNext

\* A step of the exit server does not make false what the entry server was told.
LEMMA EntryHolds ==
  ASSUME SniCarriedOver, ExitTypeOK, Core, EntryInv, FixedStay, ExitNext, UNCHANGED entryVars
  PROVE  EntryInv'
<1>1. UNCHANGED <<entryEnv, entryShell, entryPc, entryFile, entryLoaded, entryUp>>
  BY DEF entryVars
<1>2. ASSUME NEW vars, Told(vars)
      PROVE  /\ \A n \in Entry!EntryNames : IsSet(vars, n) => exitEnv'[Counterpart[n]] = vars[n]
             /\ IsSet(vars, "EXIT_VLESS_UUID") => IsSet(exitEnv', "EXIT_REALITY_SNI")
  BY <1>2, CounterpartNames DEF Told, FixedStay, IsSet, Fixed, SniCarriedOver
<1>3. \A n \in TunnelNames : IsSet(summary', "EXIT_VLESS_UUID") => IsSet(exitEnv', n)
  <2>1. \A n \in TunnelNames : n \in Fixed /\ n \in Saved
    BY DEF TunnelNames, Fixed, Saved, ExitNames, Secrets, SniCarriedOver
  <2>2. CASE UNCHANGED summary
    BY <2>1, <2>2 DEF EntryInv, FixedStay, IsSet
  <2>3. CASE PrintSummary
    <3>1. exitEnv' = exitEnv /\ at = 19
      BY <2>3, PlaceValues DEF PrintSummary, at
    <3>2. \A n \in TunnelNames : 19 > Place[n]
      BY PlaceValues DEF TunnelNames
    <3> QED
      BY <2>1, <3>1, <3>2 DEF Core, Progress, IsSet
  <2>4. PrintSummary \/ UNCHANGED summary
    BY DEF ExitNext, ExitStep, ExitOperator, Ask, OwnDomain, ThirdPartyDomain, VerifyDns,
           DnsNotReady, HasCertificate, GetCertificate, CertbotFails, Secret, KeyPair,
           SavePrivateKey, PublicKeyUnbound, SavePublicKey, Generate, ComposeDown,
           ComposeDownFails, ComposeUp, ComposeUpFails, StartExit, StartExitFails,
           ExitRunFails, EditExitEnv, restVars
  <2> QED
    BY <2>2, <2>3, <2>4
<1> QED
  BY <1>1, <1>2, <1>3 DEF EntryInv, Told, Entered, IsSet

-------------------------------------------------------------------------------
(* The theorems.  What is said of the exit server needs no hypothesis; that *)
(* the two ends match needs the SNI to be carried over.                     *)

LEMMA ExitInitHolds == Init => ExitIInv
<1> SUFFICES ASSUME Init PROVE ExitIInv
  OBVIOUS
<1>1. /\ exitPc = "off" /\ at = 0
      /\ \A n \in ExitNames : exitEnv[n] = Unset /\ exitShell[n] = Unset
                              /\ exitFiles[n] = Unset /\ exitLoaded[n] = Unset
      /\ \A n \in TunnelNames : summary[n] = Unset
  BY PlaceValues DEF Init, ExitInit, Nothing, at
<1>2. TypeOK
  <2>1. \A k \in Nat : 0 \in 0 .. k
    OBVIOUS
  <2>2. ExitTypeOK
    <3>1. \A names : Nothing(names) \in [names -> ExitValues]
      BY DEF Nothing, ExitValues
    <3> QED
      BY <2>1, <3>1, ExitBoundsAreNaturals DEF Init, ExitInit, ExitTypeOK
  <2>3. Entry!EntryTypeOK
    <3>1. \A names : Entry!Nothing(names) \in
                        [names -> ExitSnis \cup {EntryDefaultSni} \cup Minted \cup {Unset}]
      BY DEF Entry!Nothing
    <3> QED
      BY <2>1, <3>1, EntryBoundIsNatural DEF Init, Entry!EntryInit, Entry!EntryTypeOK
  <2> QED
    BY <2>2, <2>3 DEF TypeOK
<1>3. Sorted /\ ShellFollows /\ Pairs
  BY <1>1 DEF Sorted, WellSorted, ShellFollows, Pairs, IsSet, Secrets, ExitNames, TunnelNames
<1>4. Progress
  BY <1>1, PlaceValues DEF Progress, Saved, ExitNames, Secrets
<1>5. SelfSteal
  BY <1>1 DEF SelfSteal
<1>6. FilesAreSaved
  BY <1>1 DEF FilesAreSaved, Fixed, Secrets, ExitNames, IsSet, Init, ExitInit
<1>7. Repeats
  BY DEF Repeats, Init, ExitInit
<1> QED
  BY <1>2, <1>3, <1>4, <1>5, <1>6, <1>7 DEF ExitIInv, ExitInv

LEMMA ExitStepHolds ==
  ASSUME ExitIInv, ExitNext, UNCHANGED entryVars
  PROVE  /\ ExitIInv' /\ FixedStay
         /\ exitPc # "off" /\ repeat =>
                UNCHANGED <<exitEnv, exitFiles, certs, minted>> /\ asked' = {}
<1>1. ExitTypeOK /\ Core /\ SelfSteal /\ FilesAreSaved /\ Repeats
  BY DEF ExitIInv, ExitInv, TypeOK, Core
<1>2. Core' /\ FixedStay
  BY <1>1, CoreStep
<1>3. ExitTypeOK' /\ SelfSteal'
  BY <1>1, ExitTypedStep, SelfStealStep
<1>4. FilesAreSaved'
  BY <1>1, <1>2, FilesStep
<1>5. /\ Repeats'
      /\ exitPc # "off" /\ repeat =>
             UNCHANGED <<exitEnv, exitFiles, certs, minted>> /\ asked' = {}
  BY <1>1, RepeatsStep
<1>6. Entry!EntryTypeOK'
  BY DEF ExitIInv, TypeOK, Entry!EntryTypeOK, entryVars
<1> QED
  BY <1>2, <1>3, <1>4, <1>5, <1>6 DEF ExitIInv, ExitInv, TypeOK, Core

\* An entry step, and a stutter, leave the exit server alone.
LEMMA ExitInvStays ==
  ASSUME ExitInv, UNCHANGED exitVars
  PROVE  ExitInv'
<1>1. UNCHANGED <<exitEnv, exitShell, exitPc, at, exitFiles, exitLoaded, exitUp, certs,
                  asked, summary, lastRun, repeat>>
  BY DEF exitVars, at
<1>2. (Sorted /\ ShellFollows /\ Progress /\ Pairs)'
  BY <1>1 DEF ExitInv, Sorted, WellSorted, ShellFollows, Progress, Pairs, IsSet
<1>3. SelfSteal'
  BY <1>1 DEF ExitInv, SelfSteal
<1>4. FilesAreSaved'
  BY <1>1 DEF ExitInv, FilesAreSaved, IsSet
<1>5. Repeats'
  BY <1>1 DEF ExitInv, Repeats, Complete, IsSet
<1> QED
  BY <1>2, <1>3, <1>4, <1>5 DEF ExitInv

LEMMA ExitInductive == ExitIInv /\ [Next]_tunnelVars => ExitIInv'
<1> SUFFICES ASSUME ExitIInv, [Next]_tunnelVars PROVE ExitIInv'
  OBVIOUS
<1>1. CASE ExitNext /\ UNCHANGED entryVars
  BY <1>1, ExitStepHolds
<1>2. CASE Entry!EntryNext /\ UNCHANGED exitVars
  <2>1. Entry!EntryTypeOK'
    BY <1>2, EntryTypedStep DEF ExitIInv, ExitInv, Core
  <2>2. ExitTypeOK'
    BY <1>2 DEF ExitIInv, TypeOK, ExitTypeOK, exitVars
  <2> QED
    BY <1>2, <2>1, <2>2, ExitInvStays DEF ExitIInv, TypeOK
<1>3. CASE UNCHANGED tunnelVars
  <2>1. UNCHANGED exitVars /\ UNCHANGED entryVars
    BY <1>3 DEF tunnelVars
  <2>2. TypeOK'
    BY <2>1 DEF ExitIInv, TypeOK, ExitTypeOK, Entry!EntryTypeOK, exitVars, entryVars
  <2> QED
    BY <2>1, <2>2, ExitInvStays DEF ExitIInv
<1> QED
  BY <1>1, <1>2, <1>3 DEF Next

\* Every variable of both servers stays in its type (infra/exit/deploy-exit.sh,
\* infra/entry/deploy-entry.sh).
THEOREM TypesHold == Spec => []TypeOK
<1>1. Spec => []ExitIInv
  BY ExitInitHolds, ExitInductive, PTL DEF Spec
<1>2. ExitIInv => TypeOK
  BY DEF ExitIInv
<1> QED
  BY <1>1, <1>2, PTL

\* However often deploy-exit.sh was interrupted, failed or was run again, no
\* container of the exit server runs with a secret that .env does not hold.
THEOREM DeployedIsAlwaysSaved == Spec => []DeployedIsSaved
<1>1. Spec => []ExitIInv
  BY ExitInitHolds, ExitInductive, PTL DEF Spec
<1>2. ExitIInv => DeployedIsSaved
  <2> SUFFICES ASSUME ExitIInv PROVE DeployedIsSaved
    OBVIOUS
  <2>1. FilesAreSaved /\ Pairs
    BY DEF ExitIInv, ExitInv
  <2>2. \A n \in Secrets : IsSet(exitLoaded, n) => exitEnv[n] = exitLoaded[n]
    BY <2>1 DEF FilesAreSaved, Fixed
  <2>3. IsSet(exitLoaded, "EXIT_REALITY_PRIVATE_KEY") =>
            exitEnv["EXIT_REALITY_PUBLIC_KEY"] = exitLoaded["EXIT_REALITY_PRIVATE_KEY"]
    BY <2>1, <2>2 DEF FilesAreSaved, Pairs, Secrets
  <2> QED
    BY <2>2, <2>3 DEF DeployedIsSaved
<1> QED
  BY <1>1, <1>2, PTL

\* A secret that save_to_env has written is never replaced: the links and the
\* entry servers that hold it stay valid.
THEOREM SecretsStay == Spec => SecretsNeverChange
<1>1. Spec => []ExitIInv
  BY ExitInitHolds, ExitInductive, PTL DEF Spec
<1>2. ExitIInv /\ [Next]_tunnelVars =>
          [\A n \in Secrets : IsSet(exitEnv, n) => exitEnv'[n] = exitEnv[n]]_exitVars
  <2> SUFFICES ASSUME ExitIInv, [Next]_tunnelVars, ~UNCHANGED exitVars
               PROVE  \A n \in Secrets : IsSet(exitEnv, n) => exitEnv'[n] = exitEnv[n]
    OBVIOUS
  <2>1. ExitNext
    BY DEF Next, tunnelVars
  <2> QED
    BY <2>1, CoreStep DEF ExitIInv, ExitInv, TypeOK, Core, FixedStay, Fixed
<1> QED
  BY <1>1, <1>2, PTL DEF Spec, SecretsNeverChange

\* deploy-exit.sh run again after a run that completed asks nothing and writes
\* what is there already: "safe to re-run".
THEOREM RepeatsAreIdle == Spec => RepeatIsIdle
<1>1. Spec => []ExitIInv
  BY ExitInitHolds, ExitInductive, PTL DEF Spec
<1>2. ExitIInv /\ [Next]_tunnelVars =>
          [exitPc # "off" /\ repeat =>
               UNCHANGED <<exitEnv, exitFiles, certs, minted>> /\ asked' = {}]_exitVars
  <2> SUFFICES ASSUME ExitIInv, [Next]_tunnelVars, ~UNCHANGED exitVars
               PROVE  exitPc # "off" /\ repeat =>
                          UNCHANGED <<exitEnv, exitFiles, certs, minted>> /\ asked' = {}
    OBVIOUS
  <2>1. ExitNext /\ UNCHANGED entryVars
    BY DEF Next, tunnelVars
  <2> QED
    BY <2>1, ExitStepHolds
<1> QED
  BY <1>1, <1>2, PTL DEF Spec, RepeatIsIdle

LEMMA EntryInitHolds == Init => EntryInv
<1> SUFFICES ASSUME Init PROVE EntryInv
  OBVIOUS
<1>1. /\ \A n \in Entry!EntryNames : entryEnv[n] = Unset /\ entryShell[n] = Unset
                              /\ entryFile[n] = Unset /\ entryLoaded[n] = Unset
      /\ entryPc = "off" /\ entryUp = FALSE
      /\ summary["EXIT_VLESS_UUID"] = Unset
  BY DEF Init, Entry!EntryInit, Entry!Nothing, ExitInit, Nothing, TunnelNames
<1> QED
  BY <1>1, Counterparts DEF EntryInv, Told, Entered, IsSet

LEMMA EntryInductive ==
  ASSUME SniCarriedOver, ExitIInv, EntryInv, [Next]_tunnelVars
  PROVE  EntryInv'
<1>1. CASE ExitNext /\ UNCHANGED entryVars
  <2>1. FixedStay
    BY <1>1, ExitStepHolds
  <2> QED
    BY <1>1, <2>1, EntryHolds DEF ExitIInv, ExitInv, TypeOK, Core
<1>2. CASE Entry!EntryNext /\ UNCHANGED exitVars
  BY <1>2, EntryStep DEF ExitIInv, ExitInv, Core
<1>3. CASE UNCHANGED tunnelVars
  <2>1. UNCHANGED <<exitEnv, summary, entryEnv, entryShell, entryPc, entryFile, entryLoaded,
                    entryUp>>
    BY <1>3 DEF tunnelVars, exitVars, entryVars
  <2> QED
    BY <2>1 DEF EntryInv, Told, Entered, IsSet
<1> QED
  BY <1>1, <1>2, <1>3 DEF Next

LEMMA BothEnds == SniCarriedOver /\ Spec => []IInv
<1>1. Init => IInv
  BY ExitInitHolds, EntryInitHolds DEF IInv
<1>2. SniCarriedOver /\ IInv /\ [Next]_tunnelVars => IInv'
  BY ExitInductive, EntryInductive DEF IInv
<1>3. SniCarriedOver => SniCarriedOver'
  BY DEF SniCarriedOver
<1> QED
  BY <1>1, <1>2, <1>3, PTL DEF Spec

\* What the operator entered on the entry server stays what .env of the exit
\* server holds, through every run, edit and repair of the exit server.
THEOREM EnteredIsNeverStale == SniCarriedOver /\ Spec => []EnteredStaysValid
<1>1. IInv => EnteredStaysValid
  BY DEF IInv, EntryInv, Told, EnteredStaysValid
<1> QED
  BY <1>1, BothEnds, PTL

\* Whenever Xray runs on both servers it was started there with matching values:
\* no order of runs, failures and interruptions of the two scripts breaks the tunnel.
THEOREM BothEndsMatch == SniCarriedOver /\ Spec => []TunnelMatches
<1>1. SniCarriedOver /\ IInv => TunnelMatches
  <2> SUFFICES ASSUME SniCarriedOver, ExitIInv, EntryInv, TunnelUp, NEW n \in Entry!EntryNames
               PROVE  entryLoaded[n] = ExitSide(n)
    BY DEF TunnelMatches, IInv
  <2>1. entryLoaded[n] = exitEnv[Counterpart[n]] /\ IsSet(exitEnv, Counterpart[n])
    BY DEF EntryInv, Told, TunnelUp, IsSet
  <2>2. FilesAreSaved /\ Pairs /\ "xray-exit" \in exitUp
    BY DEF ExitIInv, ExitInv, TunnelUp
  <2>3. \A m \in XrayNames : exitLoaded[m] = exitEnv[m]
    BY <2>2 DEF FilesAreSaved, XrayNames, Fixed, Secrets, SniCarriedOver
  <2>4. CASE n = "EXIT_PUBLIC_KEY"
    BY <2>1, <2>2, <2>3, <2>4, Counterparts DEF ExitSide, Pairs, XrayNames
  <2>5. CASE n # "EXIT_PUBLIC_KEY"
    BY <2>1, <2>3, <2>5, Counterparts DEF ExitSide, XrayNames
  <2> QED
    BY <2>4, <2>5
<1>2. SniCarriedOver => SniCarriedOver'
  BY DEF SniCarriedOver
<1> QED
  BY <1>1, <1>2, BothEnds, PTL
-------------------------------------------------------------------------------
(* Half a key pair.                                                        *)

\* Between two runs the script has no variables.
OffIsClean == exitPc = "off" => exitShell = Nothing(ExitNames)

\* Half a key pair that no running script can complete.
Stuck ==
    /\ IsSet(exitEnv, "EXIT_REALITY_PRIVATE_KEY")
    /\ ~IsSet(exitEnv, "EXIT_REALITY_PUBLIC_KEY")
    /\ ~IsSet(exitShell, "EXIT_REALITY_PUBLIC_KEY")

\* Who ends leaves no variables.
LEMMA EndsClean ==
  ASSUME NEW how, ExitEnds(how)
  PROVE  OffIsClean' /\ ~IsSet(exitShell', "EXIT_REALITY_PUBLIC_KEY")
  BY DEF ExitEnds, OffIsClean, Nothing, IsSet, ExitNames, Secrets

LEMMA CleanStep ==
  ASSUME ExitTypeOK, OffIsClean, ExitNext
  PROVE  OffIsClean'
<1> DEFINE Ends == \E how \in {"failed", "died", "done"} : ExitEnds(how)
           Edits == exitPc = "off" /\ UNCHANGED <<exitPc, exitShell>>
<1>1. CASE exitPc' # "off"
  BY <1>1 DEF OffIsClean
<1>2. CASE Ends
  BY <1>2, EndsClean
<1>3. CASE Edits
  BY <1>3 DEF OffIsClean
<1>4. ExitOperator => exitPc' # "off" \/ Ends \/ Edits
  BY DEF ExitOperator, StartExit, StartExitFails, ExitRunFails, EditExitEnv
<1>5. ExitStep => exitPc' # "off" \/ Ends
  BY DEF ExitStep, Step, Ask, OwnDomain, ThirdPartyDomain, VerifyDns, DnsNotReady,
         HasCertificate, GetCertificate, CertbotFails, Secret, KeyPair, SavePrivateKey,
         PublicKeyUnbound, SavePublicKey, Generate, ComposeDown, ComposeDownFails, ComposeUp,
         ComposeUpFails, PrintSummary
<1> QED
  BY <1>1, <1>2, <1>3, <1>4, <1>5 DEF ExitNext

\* A script that is stuck has not come to the step that saves the public key.
LEMMA StuckEarly ==
  ASSUME ExitTypeOK, Core, Stuck
  PROVE  at <= 9 /\ exitPc \notin {"EXIT_REALITY_PUBLIC_KEY", "summary"}
<1>1. ~(at > 9)
  BY DEF Core, Pairs, Stuck
<1> QED
  BY <1>1, PlaceType, PlaceValues DEF at

\* A step that leaves both keys alone, or forgets the public one, frees nobody.
LEMMA KeysAlone ==
  ASSUME Stuck, UNCHANGED <<exitEnv["EXIT_REALITY_PRIVATE_KEY"],
                            exitEnv["EXIT_REALITY_PUBLIC_KEY"]>>,
         \/ UNCHANGED exitShell["EXIT_REALITY_PUBLIC_KEY"]
         \/ ~IsSet(exitShell', "EXIT_REALITY_PUBLIC_KEY")
  PROVE  Stuck'
  BY DEF Stuck, IsSet

\* No step frees a script that is stuck, nor do interruptions, failures and
\* edits of the other names.
LEMMA StuckStays ==
  ASSUME ExitTypeOK, Core, OffIsClean, Stuck, ExitNext
  PROVE  Stuck'
<1> DEFINE keys == <<exitEnv["EXIT_REALITY_PRIVATE_KEY"], exitEnv["EXIT_REALITY_PUBLIC_KEY"]>>
           public == exitShell["EXIT_REALITY_PUBLIC_KEY"]
<1>1. CASE \/ Ask("TLS_DOMAIN", Domains, "self_steal")
           \/ Ask("MANAGEMENT_IPS", IpLists, "AUTH_HEADER")
           \/ Ask("EXIT_REALITY_SNI", ExitSnis, "EXIT_REALITY_SHORT_IDS")
  <2>1. UNCHANGED keys /\ UNCHANGED public
    BY <1>1 DEF Ask, Save, ExitTypeOK, ExitNames, Secrets
  <2> QED
    BY <2>1, KeysAlone
<1>2. CASE \/ Secret("TELEMT_SECRET", "MANAGEMENT_IPS")
           \/ Secret("AUTH_HEADER", "key_pair")
           \/ Secret("EXIT_VLESS_UUID", "EXIT_REALITY_SNI")
           \/ Secret("EXIT_REALITY_SHORT_IDS", "config_toml")
  <2>1. UNCHANGED keys /\ UNCHANGED public
    BY <1>2 DEF Secret, Save, ExitTypeOK, ExitNames, Secrets
  <2> QED
    BY <2>1, KeysAlone
<1>3. CASE OwnDomain \/ ThirdPartyDomain \/ VerifyDns \/ HasCertificate \/ GetCertificate
  <2>1. UNCHANGED keys /\ UNCHANGED public
    BY <1>3 DEF OwnDomain, ThirdPartyDomain, VerifyDns, HasCertificate, GetCertificate, Save,
                ExitTypeOK, ExitNames, Secrets
  <2> QED
    BY <2>1, KeysAlone
<1>4. CASE KeyPair
  \* It finds the private key, and so makes no pair.
  <2>1. IsSet(exitShell, "EXIT_REALITY_PRIVATE_KEY")
    BY <1>4 DEF KeyPair, Step, Core, ShellFollows, Stuck, IsSet, ExitNames, Secrets
  <2>2. UNCHANGED <<exitEnv, exitShell>>
    BY <1>4, <2>1 DEF KeyPair
  <2> QED
    BY <2>2, KeysAlone
<1>5. CASE SavePrivateKey \/ SavePublicKey
  BY <1>5, StuckEarly DEF SavePrivateKey, SavePublicKey, Step, Stuck
<1>6. CASE \/ Generate("config_toml", TelemtNames, "xray_config")
           \/ Generate("xray_config", XrayNames, "angie_conf")
           \/ Generate("angie_conf", AngieNames, "compose_down")
           \/ ComposeDown \/ ComposeDownFails \/ ComposeUp
  <2>1. UNCHANGED <<exitEnv, exitShell>>
    BY <1>6 DEF Generate, ComposeDown, ComposeDownFails, ComposeUp
  <2> QED
    BY <2>1, KeysAlone
<1>7. CASE DnsNotReady \/ CertbotFails \/ PublicKeyUnbound \/ ComposeUpFails \/ PrintSummary
           \/ StartExitFails \/ ExitRunFails
  <2>1. UNCHANGED exitEnv /\ \E how \in {"failed", "died", "done"} : ExitEnds(how)
    BY <1>7 DEF DnsNotReady, CertbotFails, PublicKeyUnbound, ComposeUpFails, PrintSummary,
                StartExitFails, ExitRunFails
  <2> QED
    BY <2>1, EndsClean, KeysAlone
<1>8. CASE StartExit
  BY <1>8, KeysAlone DEF StartExit, Stuck
<1>9. ASSUME NEW n \in Edited, NEW value, EditExitEnv(n, value)
      PROVE  Stuck'
  <2>1. UNCHANGED keys /\ UNCHANGED public
    BY <1>9, EditedTyped DEF EditExitEnv, Save, ExitTypeOK, ExitNames, Secrets
  <2> QED
    BY <2>1, KeysAlone
<1> QED
  BY <1>1, <1>2, <1>3, <1>4, <1>5, <1>6, <1>7, <1>8, <1>9 DEF ExitNext, ExitStep, ExitOperator

\* The same for the two servers.
LEMMA StuckInductive ==
  ASSUME ExitIInv, OffIsClean, [Next]_tunnelVars
  PROVE  OffIsClean' /\ (Stuck => Stuck')
<1>1. ExitTypeOK /\ Core
  BY DEF ExitIInv, TypeOK, ExitInv, Core
<1>2. CASE ExitNext
  BY <1>1, <1>2, CleanStep, StuckStays
<1>3. CASE UNCHANGED exitVars
  BY <1>3 DEF exitVars, OffIsClean, Stuck, IsSet
<1> QED
  BY <1>2, <1>3 DEF Next, tunnelVars

\* An interruption between the two lines of deploy-exit.sh that save the halves
\* of the key pair is for good: run the script as often as you like, edit the
\* values it says can be edited, it never gets to the public key, nor to a summary.
THEOREM HalfAPairIsForGood ==
    Spec => /\ [][Stuck => Stuck']_tunnelVars
            /\ [](Stuck => exitPc \notin {"EXIT_REALITY_PUBLIC_KEY", "summary"})
<1>1. Init => OffIsClean
  BY DEF Init, ExitInit, OffIsClean
<1>2. ExitIInv /\ OffIsClean /\ [Next]_tunnelVars => ExitIInv' /\ OffIsClean'
  BY ExitInductive, StuckInductive
<1>3. ExitIInv /\ OffIsClean /\ [Next]_tunnelVars => [Stuck => Stuck']_tunnelVars
  BY StuckInductive
<1>4. ExitIInv => (Stuck => exitPc \notin {"EXIT_REALITY_PUBLIC_KEY", "summary"})
  BY StuckEarly DEF ExitIInv, TypeOK, ExitInv, Core
<1> QED
  BY <1>1, <1>2, <1>3, <1>4, ExitInitHolds, PTL DEF Spec
=============================================================================
