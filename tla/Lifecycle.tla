----------------------------- MODULE Lifecycle -----------------------------
(***************************************************************************)
(* What provisioning promises about one proxy account, seen from outside   *)
(* the two stores that hold it (telemt and PostgreSQL): an account exists  *)
(* in telemt before the database knows it, a Telegram account becomes      *)
(* "known", an admin label becomes "listed", a deleted label is "retired"  *)
(* for good, and a link is handed to a Telegram user only once the account *)
(* is known.  Provisioning.tla is shown to implement this module.          *)
(***************************************************************************)

CONSTANTS TelegramUsers, Labels

VARIABLES
    stage,      \* stage[n]: how far account n has come
    delivered   \* the Telegram users who have been sent a link

lifecycleVars == <<stage, delivered>>

Accounts == TelegramUsers \cup Labels

Stages == {"unknown", "orphan", "known", "listed", "retired"}

LifecycleTypeOK ==
    /\ stage \in [Accounts -> Stages]
    /\ delivered \subseteq TelegramUsers

LifecycleInit ==
    /\ stage = [n \in Accounts |-> "unknown"]
    /\ delivered = {}

Advance(n, from, to) ==
    /\ stage[n] = from
    /\ stage' = [stage EXCEPT ![n] = to]
    /\ UNCHANGED delivered

\* telemt holds the account, no committed row mentions it
Provision(n) == Advance(n, "unknown", "orphan")

Register(u) == Advance(u, "orphan", "known")

List(l) == Advance(l, "orphan", "listed")

\* There is no way back from "retired": a label is used once.
Retire(l) == Advance(l, "listed", "retired")

Deliver(u) ==
    /\ stage[u] = "known"
    /\ delivered' = delivered \cup {u}
    /\ UNCHANGED stage

LifecycleNext ==
    \/ \E n \in Accounts : Provision(n)
    \/ \E u \in TelegramUsers : Register(u) \/ Deliver(u)
    \/ \E l \in Labels : List(l) \/ Retire(l)

LifecycleSpec == LifecycleInit /\ [][LifecycleNext]_lifecycleVars
=============================================================================
