------------------------------ MODULE EnvView ------------------------------
(***************************************************************************)
(* Storage implements EnvStore: the rows behind any one environment id,    *)
(* seen through the listings of the client API.                            *)
(***************************************************************************)
EXTENDS Storage

CONSTANT Observed   \* the environment id that is watched

ASSUME ObservedIsId == Observed \in Ids

Exists == \E e \in envs : e.id = Observed

StampOf == IF Exists THEN (CHOOSE e \in envs : e.id = Observed).stamp ELSE 0

ContentOf ==
    [kind \in Kinds |-> [filter \in Filters |-> Shown(kind, Observed, filter)]]

Env == INSTANCE EnvStore WITH
    Bodies    <- SUBSET [key : Keys, val : Values, ver : Versions],
    EmptyBody <- {},
    alive     <- Exists,
    stamp     <- StampOf,
    content   <- ContentOf

\* Whatever happens anywhere in the tables, what the rows of one environment id
\* show its readers behaves as EnvStore says: in particular no write of another
\* environment or another project reaches it, no two tables change in one step
\* except for a deleted tag, and an environment that gets a used id starts empty.
ImplementsEnvStore == Env!StoreSpec
=============================================================================
