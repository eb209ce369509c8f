----------------------------- MODULE ExitDeploy -----------------------------
(***************************************************************************)
(* infra/exit/deploy-exit.sh on the exit server.  The script asks for what *)
(* .env does not hold, generates secrets, saves each at once, writes the   *)
(* configurations of telemt, Xray and Angie and starts the containers.  It *)
(* may end at every step (an answer, a failing tool, Ctrl-C, a lost        *)
(* connection) and is then run again.                                      *)
(*                                                                         *)
(* A file is written in one step, where the script's redirection empties   *)
(* it first: half-written files are left out.                              *)
(* Not modelled: the firewall rules, DOMAIN and AD_TAG (asked and saved    *)
(* like MANAGEMENT_IPS), MONITORING_IPS (like MANAGEMENT_IPS), messages.   *)
(***************************************************************************)
EXTENDS Naturals, EnvFile

CONSTANTS
    OwnDomains,         \* FakeTLS domains of the operator (self-steal)
    ThirdPartyDomains,  \* KNOWN_THIRD_PARTY_DOMAINS
    IpLists,            \* answers for MANAGEMENT_IPS
    ExitSnis,           \* answers for EXIT_REALITY_SNI
    Edited,             \* variables the operator edits in .env
    MaxMinted,          \* bound: values generated or made up
    MaxTroubles,        \* bound: runs that fail, and failures that are ignored
    MaxEdits            \* bound: edits of .env by the operator

ASSUME ValuesAreDistinct ==
    /\ OwnDomains \cap ThirdPartyDomains = {}
    /\ Unset \notin OwnDomains \cup ThirdPartyDomains \cup IpLists \cup ExitSnis \cup Nat
ASSUME ExitBoundsAreNaturals ==
    MaxMinted \in Nat /\ MaxTroubles \in Nat /\ MaxEdits \in Nat

Domains == OwnDomains \cup ThirdPartyDomains

\* What the operator answers, and writes into .env.
AnswersFor ==
    [TLS_DOMAIN |-> Domains, MANAGEMENT_IPS |-> IpLists, EXIT_REALITY_SNI |-> ExitSnis]

ASSUME EditedAreAnswers == Edited \subseteq DOMAIN AnswersFor

\* Secrets are numbered as they are made.  The halves of a key pair have the
\* same number.
Minted == 1 .. MaxMinted
Secrets == {"TELEMT_SECRET", "AUTH_HEADER", "EXIT_REALITY_PRIVATE_KEY",
            "EXIT_REALITY_PUBLIC_KEY", "EXIT_VLESS_UUID", "EXIT_REALITY_SHORT_IDS"}

ExitNames == Secrets \cup
    {"TLS_DOMAIN", "SELF_STEAL_DOMAIN", "SELF_STEAL_DNS_VERIFIED", "MANAGEMENT_IPS",
     "EXIT_REALITY_SNI"}
ExitValues == Domains \cup IpLists \cup ExitSnis \cup Minted \cup {Unset}

\* Which variable goes into which file.
TelemtNames == {"TELEMT_SECRET", "AUTH_HEADER", "TLS_DOMAIN", "MANAGEMENT_IPS"}
XrayNames == {"EXIT_VLESS_UUID", "EXIT_REALITY_PRIVATE_KEY", "EXIT_REALITY_SNI",
              "EXIT_REALITY_SHORT_IDS"}
AngieNames == {"SELF_STEAL_DOMAIN"}

Containers == {"telemt", "xray-exit", "telemt-mask"}

\* Each container mounts one of the files and reads it when it is created.
Reads(c) == CASE c = "telemt" -> TelemtNames
              [] c = "xray-exit" -> XrayNames
              [] c = "telemt-mask" -> AngieNames

\* What the summary tells the operator to enter on the entry server.
TunnelNames == {"EXIT_VLESS_UUID", "EXIT_REALITY_PUBLIC_KEY", "EXIT_REALITY_SNI",
                "EXIT_REALITY_SHORT_IDS"}

VARIABLES
    exitEnv,     \* the .env file
    exitShell,   \* variables of the running script
    exitPc,      \* the step it is at, "off" when no script runs
    exitFiles,   \* the values in config.toml, xray-config.json and angie.conf
    exitLoaded,  \* the values the containers were last started with
    exitUp,      \* the containers that run
    certs,       \* domains there is a certificate for
    minted,      \* number of values generated so far
    asked,       \* names this run had to ask the operator for
    summary,     \* history: the values of the last summary
    lastRun,     \* how the last run ended, or what happened to .env since
    repeat,      \* does this run follow a completed one and no edit?
    troubles, edits

exitVars == <<exitEnv, exitShell, exitPc, exitFiles, exitLoaded, exitUp, certs,
              minted, asked, summary, lastRun, repeat, troubles, edits>>

ExitSteps ==
    {"TLS_DOMAIN", "self_steal", "verify_dns", "certificate", "TELEMT_SECRET",
     "MANAGEMENT_IPS", "AUTH_HEADER", "key_pair", "EXIT_REALITY_PRIVATE_KEY",
     "EXIT_REALITY_PUBLIC_KEY", "EXIT_VLESS_UUID", "EXIT_REALITY_SNI",
     "EXIT_REALITY_SHORT_IDS", "config_toml", "xray_config", "angie_conf",
     "compose_down", "compose_up", "summary"}

ExitTypeOK ==
    /\ exitEnv \in [ExitNames -> ExitValues]
    /\ exitShell \in [ExitNames -> ExitValues]
    /\ exitPc \in ExitSteps \cup {"off"}
    /\ exitFiles \in [ExitNames -> ExitValues]
    /\ exitLoaded \in [ExitNames -> ExitValues]
    /\ exitUp \subseteq Containers
    /\ certs \subseteq OwnDomains
    /\ minted \in 0 .. MaxMinted
    /\ asked \subseteq ExitNames
    /\ summary \in [TunnelNames -> ExitValues]
    /\ lastRun \in {"none", "done", "edited", "failed", "died"}
    /\ repeat \in BOOLEAN
    /\ troubles \in 0 .. MaxTroubles
    /\ edits \in 0 .. MaxEdits

ExitInit ==
    /\ exitEnv = Nothing(ExitNames)
    /\ exitShell = Nothing(ExitNames)
    /\ exitPc = "off"
    /\ exitFiles = Nothing(ExitNames)
    /\ exitLoaded = Nothing(ExitNames)
    /\ exitUp = {}
    /\ certs = {}
    /\ minted = 0
    /\ asked = {}
    /\ summary = Nothing(TunnelNames)
    /\ lastRun = "none"
    /\ repeat = FALSE
    /\ troubles = 0
    /\ edits = 0

-----------------------------------------------------------------------------
(* Beginning and end of a run.                                             *)

Step(from, to) == exitPc = from /\ exitPc' = to

ExitEnds(how) ==
    /\ exitPc' = "off"
    /\ exitShell' = Nothing(ExitNames)
    /\ asked' = {}
    /\ lastRun' = how

Trouble == troubles < MaxTroubles /\ troubles' = troubles + 1

StartExit ==
    /\ exitPc = "off"
    /\ Loadable(exitEnv)
    /\ exitPc' = "TLS_DOMAIN"
    /\ exitShell' = exitEnv
    /\ repeat' = (lastRun = "done")
    /\ UNCHANGED <<exitEnv, exitFiles, exitLoaded, exitUp, certs, minted, asked, summary, lastRun, troubles, edits>>

\* load_env fails.  A run "died" of what .env holds; every other end before the
\* summary is a failed run.
StartExitFails ==
    /\ exitPc = "off"
    /\ ~Loadable(exitEnv)
    /\ ExitEnds("died")
    /\ UNCHANGED <<exitEnv, exitFiles, exitLoaded, exitUp, certs, minted, summary,
                   repeat, troubles, edits>>

\* `compose up` creates the containers that do not run.  It does not touch one
\* that runs, whatever has become of the file it mounts, except telemt: that has
\* .env as its env_file and is created anew when a value there is another one.
Creates(started) ==
    /\ exitUp' = exitUp \cup started
    /\ exitLoaded' = [n \in ExitNames |->
           IF \E c \in started : n \in Reads(c) /\ (c \in exitUp => c = "telemt")
           THEN exitFiles[n]
           ELSE exitLoaded[n]]

\* Ctrl-C, a lost connection, an answer that ends the script or a tool that
\* fails under `set -euo pipefail`, at any step.  `compose up` and `compose down`
\* can have done a part of their work: an interrupt is no ERR and is not rolled
\* back, and the rollback may fail.
ExitRunFails ==
    /\ exitPc # "off"
    /\ Trouble
    /\ ExitEnds("failed")
    /\ CASE exitPc = "compose_down" -> exitUp' \in SUBSET exitUp /\ UNCHANGED exitLoaded
         [] exitPc = "compose_up" -> \E started \in SUBSET Containers : Creates(started)
         [] OTHER -> UNCHANGED <<exitLoaded, exitUp>>
    /\ UNCHANGED <<exitEnv, exitFiles, certs, minted, summary, repeat, edits>>

\* "Re-run this script to update configuration": edit .env, run again.
EditExitEnv(n, value) ==
    /\ exitPc = "off"
    /\ edits < MaxEdits
    /\ IsSet(exitEnv, n)
    /\ exitEnv[n] # value
    /\ exitEnv' = Save(exitEnv, n, value)
    /\ lastRun' = "edited"
    /\ edits' = edits + 1
    /\ UNCHANGED <<exitShell, exitPc, exitFiles, exitLoaded, exitUp, certs, minted, asked, summary, repeat, troubles>>

-----------------------------------------------------------------------------
(* The steps, in the order of the script.                                  *)

\* What the steps that only ask, generate and save leave alone.
restVars == <<exitFiles, exitLoaded, exitUp, summary, lastRun, repeat, edits>>

\* prompt_for, sanitize_input, save_env_var.
Ask(n, answers, to) ==
    /\ Step(n, to)
    /\ \E value \in PromptFor(exitShell, n, answers) :
           /\ exitShell' = Save(exitShell, n, value)
           /\ exitEnv' = Save(exitEnv, n, value)
    /\ asked' = IF IsSet(exitShell, n) THEN asked ELSE asked \cup {n}
    /\ UNCHANGED <<certs, minted, troubles, restVars>>

\* Mutant: the list of third-party domains is not looked at.
OwnDomainAlways ==
    /\ Step("self_steal", "verify_dns")
    /\ exitShell' = Save(exitShell, "SELF_STEAL_DOMAIN", exitShell["TLS_DOMAIN"])
    /\ exitEnv' = Save(exitEnv, "SELF_STEAL_DOMAIN", exitShell["TLS_DOMAIN"])
    /\ UNCHANGED <<certs, minted, asked, troubles, restVars>>

\* A domain that is not a known third-party domain is the operator's.
OwnDomain ==
    /\ exitShell["TLS_DOMAIN"] \in OwnDomains
    /\ Step("self_steal", "verify_dns")
    /\ exitShell' = Save(exitShell, "SELF_STEAL_DOMAIN", exitShell["TLS_DOMAIN"])
    /\ exitEnv' = Save(exitEnv, "SELF_STEAL_DOMAIN", exitShell["TLS_DOMAIN"])
    /\ UNCHANGED <<certs, minted, asked, troubles, restVars>>

\* The script empties SELF_STEAL_DOMAIN before it looks at the domain.  The
\* test whether a previous one has to be removed from .env comes after that.
ThirdPartyDomain ==
    /\ exitShell["TLS_DOMAIN"] \in ThirdPartyDomains
    /\ Step("self_steal", "TELEMT_SECRET")
    /\ LET emptied == Save(exitShell, "SELF_STEAL_DOMAIN", Unset)
       IN  /\ exitShell' = emptied
           /\ exitEnv' = IF IsSet(emptied, "SELF_STEAL_DOMAIN")
                         THEN Save(exitEnv, "SELF_STEAL_DOMAIN", Unset) ELSE exitEnv
    /\ UNCHANGED <<certs, minted, asked, troubles, restVars>>

\* Mutant: the confirmation of the DNS record is not saved.
VerifyDnsUnsaved ==
    LET domain == exitShell["SELF_STEAL_DOMAIN"]
        verified == exitShell["SELF_STEAL_DNS_VERIFIED"] = domain
    IN  /\ Step("verify_dns", "certificate")
        /\ exitShell' = Save(exitShell, "SELF_STEAL_DNS_VERIFIED", domain)
        /\ asked' = IF verified THEN asked ELSE asked \cup {"SELF_STEAL_DNS_VERIFIED"}
        /\ UNCHANGED <<exitEnv, certs, minted, troubles, restVars>>

\* The operator confirms the DNS record, once per domain.
VerifyDns ==
    LET domain == exitShell["SELF_STEAL_DOMAIN"]
        verified == exitShell["SELF_STEAL_DNS_VERIFIED"] = domain
    IN  /\ Step("verify_dns", "certificate")
        /\ exitShell' = Save(exitShell, "SELF_STEAL_DNS_VERIFIED", domain)
        /\ exitEnv' = IF verified THEN exitEnv
                      ELSE Save(exitEnv, "SELF_STEAL_DNS_VERIFIED", domain)
        /\ asked' = IF verified THEN asked ELSE asked \cup {"SELF_STEAL_DNS_VERIFIED"}
        /\ UNCHANGED <<certs, minted, troubles, restVars>>

\* Or he does not, and the script ends.
DnsNotReady ==
    /\ exitPc = "verify_dns"
    /\ exitShell["SELF_STEAL_DNS_VERIFIED"] # exitShell["SELF_STEAL_DOMAIN"]
    /\ Trouble
    /\ ExitEnds("failed")
    /\ UNCHANGED <<exitEnv, exitFiles, exitLoaded, exitUp, certs, minted, summary,
                   repeat, edits>>

\* Mutant: the script gives up when there already is a certificate.
HasCertificateFails ==
    /\ exitPc = "certificate"
    /\ exitShell["SELF_STEAL_DOMAIN"] \in certs
    /\ ExitEnds("failed")
    /\ UNCHANGED <<exitEnv, exitFiles, exitLoaded, exitUp, certs, minted, summary,
                   repeat, troubles, edits>>

HasCertificate ==
    /\ exitShell["SELF_STEAL_DOMAIN"] \in certs
    /\ Step("certificate", "TELEMT_SECRET")
    /\ UNCHANGED <<exitEnv, exitShell, certs, minted, asked, troubles, restVars>>

\* certbot needs port 80: the mask container is stopped for it, and stays
\* stopped until the containers are started again.
GetCertificate ==
    /\ exitShell["SELF_STEAL_DOMAIN"] \notin certs
    /\ Step("certificate", "TELEMT_SECRET")
    /\ certs' = certs \cup {exitShell["SELF_STEAL_DOMAIN"]}
    /\ exitUp' = exitUp \ {"telemt-mask"}
    /\ UNCHANGED <<exitEnv, exitShell, exitFiles, exitLoaded, minted, asked, summary, lastRun, repeat, troubles, edits>>

CertbotFails ==
    /\ exitPc = "certificate"
    /\ exitShell["SELF_STEAL_DOMAIN"] \notin certs
    /\ Trouble
    /\ ExitEnds("failed")
    /\ exitUp' = exitUp \ {"telemt-mask"}
    /\ UNCHANGED <<exitEnv, exitFiles, exitLoaded, certs, minted, summary, repeat,
                   edits>>

\* Mutant: a new secret in every run.
SecretAlwaysNew(n, to) ==
    /\ Step(n, to)
    /\ minted < MaxMinted
    /\ minted' = minted + 1
    /\ exitShell' = Save(exitShell, n, minted + 1)
    /\ exitEnv' = Save(exitEnv, n, minted + 1)
    /\ asked' = asked \cup {n}
    /\ UNCHANGED <<certs, troubles, restVars>>

\* A secret is taken from .env, or else generated (or typed), and saved.
Secret(n, to) ==
    /\ Step(n, to)
    /\ IF IsSet(exitShell, n)
       THEN exitShell' = exitShell /\ UNCHANGED <<minted, asked>>
       ELSE /\ minted < MaxMinted
            /\ minted' = minted + 1
            /\ exitShell' = Save(exitShell, n, minted + 1)
            \* AUTH_HEADER is generated without a question.
            /\ asked' = IF n = "AUTH_HEADER" THEN asked ELSE asked \cup {n}
    /\ exitEnv' = Save(exitEnv, n, exitShell'[n])
    /\ UNCHANGED <<certs, troubles, restVars>>

\* Mutant: a new key pair in every run.
KeyPairAlwaysNew ==
    /\ Step("key_pair", "EXIT_REALITY_PRIVATE_KEY")
    /\ minted < MaxMinted
    /\ minted' = minted + 1
    /\ exitShell' = [exitShell EXCEPT !["EXIT_REALITY_PRIVATE_KEY"] = minted + 1,
                                      !["EXIT_REALITY_PUBLIC_KEY"] = minted + 1]
    /\ asked' = asked \cup {"EXIT_REALITY_PRIVATE_KEY"}
    /\ UNCHANGED <<exitEnv, exitFiles, exitLoaded, exitUp, certs, summary, lastRun, repeat,
                   troubles, edits>>

\* Both keys are made, and the public one printed for the entry server, if
\* the private one is not in .env.  Nothing is saved yet.
KeyPair ==
    /\ Step("key_pair", "EXIT_REALITY_PRIVATE_KEY")
    /\ IF IsSet(exitShell, "EXIT_REALITY_PRIVATE_KEY")
       THEN UNCHANGED <<exitShell, minted, asked>>
       ELSE /\ minted < MaxMinted
            /\ minted' = minted + 1
            /\ exitShell' = [exitShell EXCEPT !["EXIT_REALITY_PRIVATE_KEY"] = minted + 1,
                                              !["EXIT_REALITY_PUBLIC_KEY"] = minted + 1]
            /\ asked' = asked \cup {"EXIT_REALITY_PRIVATE_KEY"}
    /\ UNCHANGED <<exitEnv, exitFiles, exitLoaded, exitUp, certs, summary, lastRun, repeat,
                   troubles, edits>>

\* Mutant: the private key is not saved.
SavePrivateKeyNot ==
    /\ Step("EXIT_REALITY_PRIVATE_KEY", "EXIT_REALITY_PUBLIC_KEY")
    /\ UNCHANGED <<exitEnv, exitShell, certs, minted, asked, troubles, restVars>>

\* Both variables are read (sanitized) before the first of them is saved.
SavePrivateKey ==
    /\ IsSet(exitShell, "EXIT_REALITY_PUBLIC_KEY")
    /\ Step("EXIT_REALITY_PRIVATE_KEY", "EXIT_REALITY_PUBLIC_KEY")
    /\ exitEnv' = Save(exitEnv, "EXIT_REALITY_PRIVATE_KEY",
                       exitShell["EXIT_REALITY_PRIVATE_KEY"])
    /\ UNCHANGED <<exitShell, certs, minted, asked, troubles, restVars>>

\* `set -u`: the public key of a private key from .env is not there.
PublicKeyUnbound ==
    /\ exitPc = "EXIT_REALITY_PRIVATE_KEY"
    /\ ~IsSet(exitShell, "EXIT_REALITY_PUBLIC_KEY")
    /\ ExitEnds("died")
    /\ UNCHANGED <<exitEnv, exitFiles, exitLoaded, exitUp, certs, minted, summary,
                   repeat, troubles, edits>>

SavePublicKey ==
    /\ Step("EXIT_REALITY_PUBLIC_KEY", "EXIT_VLESS_UUID")
    /\ exitEnv' = Save(exitEnv, "EXIT_REALITY_PUBLIC_KEY",
                       exitShell["EXIT_REALITY_PUBLIC_KEY"])
    /\ UNCHANGED <<exitShell, certs, minted, asked, troubles, restVars>>

Generate(step, names, to) ==
    /\ Step(step, to)
    /\ exitFiles' = [n \in ExitNames |-> IF n \in names THEN exitShell[n] ELSE exitFiles[n]]
    /\ UNCHANGED <<exitEnv, exitShell, exitLoaded, exitUp, certs, minted, asked, summary, lastRun, repeat, troubles, edits>>

ComposeDown ==
    /\ Step("compose_down", "compose_up")
    /\ exitUp' = {}
    /\ UNCHANGED <<exitEnv, exitShell, exitFiles, exitLoaded, certs, minted, asked, summary, lastRun, repeat, troubles, edits>>

\* Its failure is ignored (`|| true`), whatever still runs.
ComposeDownFails ==
    /\ Step("compose_down", "compose_up")
    /\ Trouble
    /\ exitUp' \in SUBSET exitUp
    /\ UNCHANGED <<exitEnv, exitShell, exitFiles, exitLoaded, certs, minted, asked, summary, lastRun, repeat, edits>>

ComposeUp ==
    /\ Step("compose_up", "summary")
    /\ Creates(Containers)
    /\ UNCHANGED <<exitEnv, exitShell, exitFiles, certs, minted, asked, summary,
                   lastRun, repeat, troubles, edits>>

\* The ERR trap takes down what was started (if it can: see ExitRunFails).
ComposeUpFails ==
    /\ exitPc = "compose_up"
    /\ Trouble
    /\ ExitEnds("failed")
    /\ exitUp' = {}
    /\ UNCHANGED <<exitEnv, exitFiles, exitLoaded, certs, minted, summary, repeat,
                   edits>>

PrintSummary ==
    /\ exitPc = "summary"
    /\ ExitEnds("done")
    /\ summary' = [n \in TunnelNames |-> exitShell[n]]
    /\ UNCHANGED <<exitEnv, exitFiles, exitLoaded, exitUp, certs, minted, repeat, troubles,
                   edits>>

ExitStep ==
    \/ Ask("TLS_DOMAIN", Domains, "self_steal")
    \/ OwnDomain \/ ThirdPartyDomain \/ VerifyDns \/ DnsNotReady
    \/ HasCertificate \/ GetCertificate \/ CertbotFails
    \/ Secret("TELEMT_SECRET", "MANAGEMENT_IPS")
    \/ Ask("MANAGEMENT_IPS", IpLists, "AUTH_HEADER")
    \/ Secret("AUTH_HEADER", "key_pair")
    \/ KeyPair \/ SavePrivateKey \/ PublicKeyUnbound \/ SavePublicKey
    \/ Secret("EXIT_VLESS_UUID", "EXIT_REALITY_SNI")
    \/ Ask("EXIT_REALITY_SNI", ExitSnis, "EXIT_REALITY_SHORT_IDS")
    \/ Secret("EXIT_REALITY_SHORT_IDS", "config_toml")
    \/ Generate("config_toml", TelemtNames, "xray_config")
    \/ Generate("xray_config", XrayNames, "angie_conf")
    \/ Generate("angie_conf", AngieNames, "compose_down")
    \/ ComposeDown \/ ComposeDownFails \/ ComposeUp \/ ComposeUpFails \/ PrintSummary

ExitOperator ==
    \/ StartExit \/ StartExitFails \/ ExitRunFails
    \/ \E n \in Edited : \E value \in AnswersFor[n] : EditExitEnv(n, value)

ExitNext == ExitStep \/ ExitOperator

ExitSpec == ExitInit /\ [][ExitNext]_exitVars

\* The operator answers the questions of a run and starts the script again
\* when it ended.
ExitFairSpec ==
    /\ ExitSpec
    /\ WF_exitVars(ExitStep)
    /\ WF_exitVars(StartExit \/ StartExitFails)

-----------------------------------------------------------------------------
(* Properties.                                                             *)

\* A secret that was saved once survives every interruption and re-run
\* (INV-IDEMPOTENT): the links and the tunnel made with it stay good.
SecretsNeverChange ==
    [][\A n \in Secrets : IsSet(exitEnv, n) => exitEnv'[n] = exitEnv[n]]_exitVars

\* No container runs with a secret that .env does not hold: the next run can
\* reproduce what is deployed, whenever this one ends.
DeployedIsSaved ==
    /\ \A n \in Secrets : IsSet(exitLoaded, n) => exitEnv[n] = exitLoaded[n]
    /\ IsSet(exitLoaded, "EXIT_REALITY_PRIVATE_KEY") =>
           exitEnv["EXIT_REALITY_PUBLIC_KEY"] = exitLoaded["EXIT_REALITY_PRIVATE_KEY"]

\* A run after a completed one asks nothing and changes nothing: neither .env,
\* nor the generated files, nor the certificates.
RepeatIsIdle ==
    [][exitPc # "off" /\ repeat =>
           UNCHANGED <<exitEnv, exitFiles, certs, minted>> /\ asked' = {}]_exitVars

\* What no run of the script survives, and only an edit of .env can repair: a
\* line that bash cannot load, or half a key pair.
Unusable ==
    \/ ~Loadable(exitEnv)
    \/ IsSet(exitEnv, "EXIT_REALITY_PRIVATE_KEY") /\ ~IsSet(exitEnv, "EXIT_REALITY_PUBLIC_KEY")

\* Whatever interrupts it, running the script again and again completes, but for
\* the two ways in which .env becomes unusable (see RerunNeverDies).
EventuallyDeployed == []<>(lastRun = "done" \/ Unusable)

\* "On re-run, reads existing .env and skips prompts": what a run saved never
\* makes a later one end.
RerunNeverDies == lastRun # "died"
=============================================================================
