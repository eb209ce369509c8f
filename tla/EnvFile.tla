------------------------------ MODULE EnvFile ------------------------------
(***************************************************************************)
(* infra/lib/common.sh: the .env file of a server, which is the only       *)
(* memory of its deploy script, and the shell variables of a running       *)
(* script.  Both are functions from names to values; Unset is a name the   *)
(* file has no line for, and a variable that is unbound or empty.          *)
(*                                                                         *)
(* Values are those sanitize_input returns: what it strips (quotes, ;, |,  *)
(* &, \, $) does not occur.  Blanks do, it leaves them alone.              *)
(***************************************************************************)
CONSTANTS
    Unset,      \* no value
    BlankLists  \* values with a blank in them, e.g. "10.0.0.5, 10.0.0.6"

Nothing(names) == [n \in names |-> Unset]

IsSet(vars, n) == vars[n] # Unset

\* save_env_var: one line per name, the value written without quotes.
Save(vars, n, value) == [vars EXCEPT ![n] = value]

\* load_env sources the file.  After a value with a blank bash takes the rest
\* of the line for a command, and `set -e` ends the script.
Loadable(vars) == \A n \in DOMAIN vars : vars[n] \notin BlankLists

\* prompt_for: the value of the variable, or if it has none an answer.
PromptFor(vars, n, answers) == IF IsSet(vars, n) THEN {vars[n]} ELSE answers
=============================================================================
