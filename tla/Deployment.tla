----------------------------- MODULE Deployment -----------------------------
(* Settings (app/config.py) in the processes of one deployment.  A process  *)
(* (a uvicorn worker, or a run of scripts/bootstrap_admin.py) reads the     *)
(* environment once, in get_settings(), and keeps what it read until it     *)
(* dies; all secrets come from there.  To rotate one is to change the       *)
(* environment and to restart ("trocar e reiniciar"), and the processes are *)
(* not restarted all at the same time.                                      *)
(*                                                                          *)
(* In production a process whose secrets are missing or too short does not  *)
(* come up; elsewhere it makes up the ones that are missing, for itself.    *)
EXTENDS Naturals

CONSTANTS
    Processes,
    Kinds,           \* the secrets: "salt", "key" (encryption_key), ...
    Down,            \* the settings of a process that does not run
    MaxEdits,        \* bound on changes of the environment
    MaxBoots         \* bound on the starts of each process

ASSUME KindsType == {"salt", "key"} \subseteq Kinds
ASSUME DeploymentBounds == MaxEdits \in Nat /\ MaxBoots \in Nat

VARIABLES
    production,      \* app_env
    env,             \* env[k]: version of the secret in the environment, 0 for none
    valid,           \* the rest of the environment passes validation
    conf,            \* conf[p]: what get_settings() returns in p
    boots,           \* boots[p]: how often p was started
    edits,           \* number of changes of the environment
    edited,          \* history: secrets changed since the first start
    used             \* history: used[k]: the secrets any process ever had

deployment == <<production, env, valid, conf, boots, edits, edited, used>>

FromEnv(n) == <<"env", n>>

DeploymentInit ==
    /\ production \in BOOLEAN
    /\ env \in [Kinds -> {0, 1}]
    /\ valid \in BOOLEAN
    /\ conf   = [p \in Processes |-> Down]
    /\ boots  = [p \in Processes |-> 0]
    /\ edits  = 0
    /\ edited = {}
    /\ used   = [k \in Kinds |-> {}]

----------------------------------------------------------------------------
(* Mutant: in production too, what is missing is made up.                   *)
AcceptsAll == valid

(* The validators of Settings.  A bad encryption_key is refused everywhere;  *)
(* production also wants long secrets, PostgreSQL, https and CORS origins   *)
(* (valid), and every secret set.                                           *)
Accepts == valid /\ (production => \A k \in Kinds : env[k] # 0)

(* A secret that is missing is made up: no other process has it.            *)
Secret(p, k) == IF env[k] = 0 THEN <<p, boots[p]>> ELSE FromEnv(env[k])

(* p comes up and calls get_settings() for the first time.                  *)
Boot(p) ==
    /\ conf[p] = Down /\ boots[p] < MaxBoots /\ Accepts
    /\ conf'  = [conf EXCEPT ![p] = [k \in Kinds |-> Secret(p, k)]]
    /\ boots' = [boots EXCEPT ![p] = @ + 1]
    /\ used'  = [k \in Kinds |-> used[k] \cup {Secret(p, k)}]
    /\ UNCHANGED <<production, env, valid, edits, edited>>

(* p ends, is stopped, or dies.                                             *)
Stop(p) ==
    /\ conf[p] # Down
    /\ conf' = [conf EXCEPT ![p] = Down]
    /\ UNCHANGED <<production, env, valid, boots, edits, edited, used>>

(* The operator changes or removes a secret in the environment, and may      *)
(* break or repair the rest.  What was changed before the first start is in *)
(* DeploymentInit.                                                          *)
Edit(k) ==
    /\ edits < MaxEdits /\ \E p \in Processes : boots[p] > 0
    /\ \E n \in {0, edits + 2} : env' = [env EXCEPT ![k] = n]
    /\ valid' \in BOOLEAN
    /\ edits'  = edits + 1
    /\ edited' = edited \cup {k}
    /\ UNCHANGED <<production, conf, boots, used>>

----------------------------------------------------------------------------
(* The secret is set in the environment, by necessity or by choice, and has *)
(* not been changed since the first process came up.                        *)
Settled(k) == (production \/ env[k] # 0) /\ k \notin edited

(* Whatever one process encrypts, signs or pseudonymises, every other one,  *)
(* then or after any restart, can decrypt, verify or look up: there is one  *)
(* secret of each kind, unless it was rotated or is allowed to be made up.  *)
OneSecret ==
    \A k \in Kinds : Settled(k) => used[k] \subseteq {FromEnv(env[k])}
=============================================================================
