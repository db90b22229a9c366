------------------------------- MODULE Camunda -------------------------------
(***************************************************************************)
(* camunda.Client: from the environment to a configured Zeebe client, and  *)
(* PublishMessage to a broker that keeps a message for its time to live    *)
(* and gives it to the process instance that waits for it, now or later.   *)
(* Of a configuration, only which of its fields are set is modelled.  The  *)
(* names are such that ServiceCalls, the other client, can stand beside.   *)
(***************************************************************************)
EXTENDS Naturals, FiniteSets

CONSTANTS
  Facts,        \* what the service tells its process instances
  MaxPublish,   \* bound: times a fact is published
  MaxWaits      \* bound: times a process instance waits for the fact

ASSUME CamundaAssumption == MaxPublish \in Nat /\ MaxWaits \in Nat

VARIABLES
  config,       \* what New got
  client,       \* "none", then "up" or "refused"; "closed" in the end
  credentials,  \* of the Zeebe client: "none", "basic" or "oauth"
  pc,           \* each fact's PublishMessage, or what it returned last
  published,    \* times each fact was passed to PublishMessage
  failed,       \* history: those of which one returned an error
  buffered,     \* messages the broker keeps
  waits,        \* process instances that wait, or have waited, for the fact
  correlated    \* messages given to one

setup == <<config, client, credentials>>
camundaVars == <<setup, pc, published, failed, buffered, waits, correlated>>

Fields == {"Gateway", "Username", "Password", "ClientID", "ClientSecret", "AuthURL", "ClusterID"}
Modes == {"self-managed", "saas", "", "other"}
Auths == {"none", "basic", "oauth", "", "other"}
Configs == [Mode : Modes, Auth : Auths, set : SUBSET Fields]

CamundaTypeOK ==
  /\ config \in Configs
  /\ client \in {"none", "up", "refused", "closed"}
  /\ credentials \in {"none", "basic", "oauth"}
  /\ pc \in [Facts -> {"idle", "sending", "taken", "nil", "error"}]
  /\ published \in [Facts -> Nat] /\ failed \subseteq Facts
  /\ buffered \in [Facts -> Nat] /\ waits \in [Facts -> Nat] /\ correlated \in [Facts -> Nat]

-----------------------------------------------------------------------------
(* Configuration.                                                          *)

(* A mode or an auth type in the environment is in any case; one that is   *)
(* not there has a default, one that is set to nothing has not.            *)
LoadConfigFromEnv(env) ==
  [Mode |-> IF env.Mode = "absent" THEN "self-managed" ELSE env.Mode,
   Auth |-> IF env.Auth = "absent" THEN "none" ELSE env.Auth, set |-> env.set]

FromEnv == {LoadConfigFromEnv(env) : env \in
              [Mode : Modes \cup {"absent"}, Auth : Auths \cup {"absent"}, set : SUBSET Fields]}

(* NewClient's: self-managed, without credentials.                         *)
NewClientConfigs == [Mode : {"self-managed"}, Auth : {"none"}, set : SUBSET {"Gateway"}]

(* Fault variant: the mode is forgotten.                                   *)
EnabledByGateway(cfg) == "Gateway" \in cfg.set
Enabled(cfg) == (IF cfg.Mode = "saas" THEN "ClusterID" ELSE "Gateway") \in cfg.set

SaasConfig(cfg) ==
  IF {"ClusterID", "ClientID", "ClientSecret"} \subseteq cfg.set THEN "oauth" ELSE "error"

SelfManagedConfig(cfg) ==
  CASE "Gateway" \notin cfg.set -> "error"
    [] OTHER -> CASE cfg.Auth \in {"none", ""} -> "none"
                  [] cfg.Auth = "basic" /\ {"Username", "Password"} \subseteq cfg.set -> "basic"
                  [] cfg.Auth = "oauth" /\ {"ClientID", "ClientSecret", "AuthURL"} \subseteq cfg.set -> "oauth"
                  [] OTHER -> "error"

BuildZbcConfig(cfg) ==
  CASE cfg.Mode = "saas" -> SaasConfig(cfg)
    [] cfg.Mode \in {"self-managed", ""} -> SelfManagedConfig(cfg)
    [] OTHER -> "error"

CamundaInit ==
  /\ config \in FromEnv \cup NewClientConfigs
  /\ client = "none" /\ credentials = "none"
  /\ pc = [f \in Facts |-> "idle"] /\ failed = {}
  /\ published = [f \in Facts |-> 0] /\ buffered = [f \in Facts |-> 0]
  /\ waits = [f \in Facts |-> 0] /\ correlated = [f \in Facts |-> 0]

(* New; zbc may refuse what buildZbcConfig made (an unreadable CA file).   *)
New ==
  /\ client = "none"
  /\ \/ BuildZbcConfig(config) # "error" /\ client' = "up" /\ credentials' = BuildZbcConfig(config)
     \/ client' = "refused" /\ UNCHANGED credentials
  /\ UNCHANGED <<config, pc, published, failed, buffered, waits, correlated>>

Close ==
  /\ client = "up" /\ client' = "closed"
  /\ UNCHANGED <<config, credentials, pc, published, failed, buffered, waits, correlated>>

-----------------------------------------------------------------------------
(* PublishMessage.                                                         *)

(* A caller comes back with its fact only after an error.                  *)
PublishMessage(f) ==
  /\ client \in {"up", "closed"} /\ pc[f] \in {"idle", "error"} /\ published[f] < MaxPublish
  /\ published' = [published EXCEPT ![f] = @ + 1]
  /\ pc' = [pc EXCEPT ![f] = "sending"]
  /\ UNCHANGED <<setup, failed, buffered, waits, correlated>>

(* Marshalling fails, the context ends, the client is closed.              *)
NotSent(f) ==
  /\ pc[f] = "sending"
  /\ pc' = [pc EXCEPT ![f] = "error"] /\ failed' = failed \cup {f}
  /\ UNCHANGED <<setup, published, buffered, waits, correlated>>

(* The gateway takes the message; no message id says which one it is.      *)
Taken(f) ==
  /\ client = "up" /\ pc[f] = "sending"
  /\ pc' = [pc EXCEPT ![f] = "taken"]
  /\ buffered' = [buffered EXCEPT ![f] = @ + 1]
  /\ UNCHANGED <<setup, published, failed, waits, correlated>>

(* zbc asks the credentials provider whether a failed request is sent      *)
(* again: OAuth's wants that for a token that was refused.                 *)
(* Fault variant: basicAuthProvider wants it too, whatever the error.      *)
ShouldRetryRequestAlways(error) == credentials # "none"
ShouldRetryRequest(error) == credentials = "oauth" /\ error = "unauthenticated"

AfterError(f, error) ==
  IF ShouldRetryRequest(error)
    THEN pc' = [pc EXCEPT ![f] = "sending"] /\ UNCHANGED failed
    ELSE pc' = [pc EXCEPT ![f] = "error"] /\ failed' = failed \cup {f}

Unauthenticated(f) ==
  /\ pc[f] = "sending" /\ AfterError(f, "unauthenticated")
  /\ UNCHANGED <<setup, published, buffered, waits, correlated>>

AnswerLost(f) ==
  /\ pc[f] = "taken" /\ AfterError(f, "unavailable")
  /\ UNCHANGED <<setup, published, buffered, waits, correlated>>

Answered(f) ==
  /\ pc[f] = "taken" /\ pc' = [pc EXCEPT ![f] = "nil"]
  /\ UNCHANGED <<setup, published, failed, buffered, waits, correlated>>

-----------------------------------------------------------------------------
(* The broker (external).                                                  *)

Waiting(f) == correlated[f] < waits[f]

Waits(f) ==
  /\ waits[f] < MaxWaits /\ waits' = [waits EXCEPT ![f] = @ + 1]
  /\ UNCHANGED <<setup, pc, published, failed, buffered, correlated>>

Correlate(f) ==
  /\ buffered[f] > 0 /\ Waiting(f)
  /\ buffered' = [buffered EXCEPT ![f] = @ - 1]
  /\ correlated' = [correlated EXCEPT ![f] = @ + 1]
  /\ UNCHANGED <<setup, pc, published, failed, waits>>

(* The time to live ends while nobody waits.                               *)
Expire(f) ==
  /\ buffered[f] > 0 /\ ~Waiting(f)
  /\ buffered' = [buffered EXCEPT ![f] = @ - 1]
  /\ UNCHANGED <<setup, pc, published, failed, waits, correlated>>

CamundaNext ==
  \/ New \/ Close
  \/ \E f \in Facts :
       \/ PublishMessage(f) \/ NotSent(f) \/ Taken(f)
       \/ Unauthenticated(f) \/ AnswerLost(f) \/ Answered(f)
       \/ Waits(f) \/ Correlate(f) \/ Expire(f)

CamundaSpec == CamundaInit /\ [][CamundaNext]_camundaVars

-----------------------------------------------------------------------------
(* Properties.                                                             *)

(* Two process instances, or one twice, act on the same fact only if a     *)
(* PublishMessage of it returned an error and was repeated: with nil it    *)
(* was sent once.                                                          *)
TwiceNeedsFailedPublish == \A f \in Facts : correlated[f] + buffered[f] > 1 => f \in failed

(* Enabled, which a service asks before it calls New, does not deny a      *)
(* configuration that New would accept.                                    *)
UpMeansEnabled == client = "up" => Enabled(config)
=============================================================================
