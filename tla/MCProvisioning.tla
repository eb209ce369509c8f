--------------------------- MODULE MCProvisioning ---------------------------
(* Provisioning for TLC; the sets of users, labels and tasks are model     *)
(* values given by the configurations.                                     *)
EXTENDS Provisioning, TLC

\* Tasks of a kind are interchangeable: no definition tells two of them apart.
\* Used only where no liveness is checked.
TaskSymmetry == Permutations(BotTasks) \cup Permutations(ApiTasks)
=============================================================================
