----------------------------- MODULE KeyCustody -----------------------------
(***************************************************************************)
(* Who holds which key, on both sides of the API.                          *)
(*                                                                         *)
(* Agent processes use the Python SDK (Agent.register, rotate_keys,        *)
(* retire).  Several share one CredentialStore file, which every save and  *)
(* delete reads and rewrites as a whole.  An answer of the server may be   *)
(* lost, a request resent, a process may die between any two steps; a      *)
(* restarted process has the private key it was configured with.           *)
(*                                                                         *)
(* Server instances are deployed with an Evidence signing key each.  At    *)
(* startup an instance registers it, and goes on whether that succeeds or  *)
(* not; Evidence is verified by the key registered under its key id.       *)
(***************************************************************************)
EXTENDS Integers, Sequences, FiniteSets

CONSTANTS
    Processes,
    ConfiguredKey,   \* the private key each process is configured with
    NewKeys,         \* keys rotate_keys may generate
    AgentIds,
    MaxTries,        \* RetryPolicy.max_retries + 1
    Instances,
    SigningKeys,     \* the (key id, key material) pairs instances are deployed with
    Nothing

Configured == {ConfiguredKey[p] : p \in Processes}
Keys == Configured \cup NewKeys

\* RegisteredAgent
Credential == [agent : AgentIds, certificate : Nat \ {0}, status : {"active", "retired"}]

ASSUME KeysAssumption ==
    NewKeys \cap Configured = {} /\ Nothing \notin Credential /\ MaxTries \in Nat \ {0}

VARIABLES
    agents,          \* the server's agents: status and certificates, oldest first
    store,           \* the credentials file: public key -> identity
    proc,            \* what each process is doing
    disturbed,       \* history: what went wrong on the way
    registry,        \* signing_keys
    instance,        \* what each server instance is doing
    signed,          \* keys some Evidence is signed with
    unregistered,    \* history: keys an instance serves without having them registered
    concurrentBoots  \* history: two instances registered at the same time

sdkVars == <<agents, store, proc, disturbed>>
signingVars == <<registry, instance, signed, unregistered, concurrentBoots>>
keyVars == <<sdkVars, signingVars>>

Unborn == [status |-> "unborn", certificates |-> << >>]
Off == [stage |-> "down", key |-> Nothing, seen |-> {}]
Down == [stage |-> "down", key |-> Nothing, identity |-> Nothing, tries |-> 1,
         fresh |-> Nothing, todo |-> << >>, file |-> Nothing]

\* f with a new or another value for x
Put(f, x, value) == [y \in DOMAIN f \cup {x} |-> IF y = x THEN value ELSE f[y]]

KeyInit ==
    /\ agents = [a \in AgentIds |-> Unborn]
    /\ store = << >>
    /\ proc = [p \in Processes |-> Down]
    /\ disturbed = {}
    /\ registry = << >>
    /\ instance = [i \in Instances |-> Off]
    /\ signed = {}
    /\ unregistered = {}
    /\ concurrentBoots = FALSE

-----------------------------------------------------------------------------
(* Agent processes.                                                        *)

StoreGet(key) == IF key \in DOMAIN store THEN store[key] ELSE Nothing

Go(p, next) == proc' = [proc EXCEPT ![p] = next]

\* Agent.__init__ and _load_identity_from_store
Start(p) ==
    /\ proc[p].stage = "down"
    /\ Go(p, [Down EXCEPT !.stage = "idle", !.key = ConfiguredKey[p],
                          !.identity = StoreGet(ConfiguredKey[p])])
    /\ disturbed' = disturbed \cup
          {"twins" : q \in {q \in Processes \ {p} : /\ ConfiguredKey[q] = ConfiguredKey[p]
                                                   /\ proc[q].stage # "down"}}
    /\ UNCHANGED <<agents, store, signingVars>>

\* The identity on file is returned; without one, a new agent is created.
register(p) ==
    /\ proc[p].stage = "idle"
    /\ IF StoreGet(proc[p].key) # Nothing
       THEN Go(p, [proc[p] EXCEPT !.identity = StoreGet(proc[p].key)])
       ELSE Go(p, [proc[p] EXCEPT !.stage = "create", !.tries = 1])
    /\ UNCHANGED <<agents, store, disturbed, signingVars>>

\* rotate_keys and retire need an identity.
rotate_keys(p, key) ==
    /\ proc[p].stage = "idle"
    /\ proc[p].identity # Nothing
    /\ \A a \in AgentIds : key \notin {agents[a].certificates[i] : i \in DOMAIN agents[a].certificates}
    /\ \A q \in Processes : key # proc[q].fresh
    /\ Go(p, [proc[p] EXCEPT !.stage = "rotate", !.tries = 1, !.fresh = key])
    /\ UNCHANGED <<agents, store, disturbed, signingVars>>

retire(p) ==
    /\ proc[p].stage = "idle"
    /\ proc[p].identity # Nothing
    /\ Go(p, [proc[p] EXCEPT !.stage = "retire", !.tries = 1])
    /\ UNCHANGED <<agents, store, disturbed, signingVars>>

\* HttpClient's next attempt, or NetworkError
Unanswered(p) ==
    IF proc[p].tries < MaxTries
    THEN [proc[p] EXCEPT !.tries = @ + 1]
    ELSE [proc[p] EXCEPT !.stage = "idle"]

\* The server has written what it wrote; the answer arrives or is lost.
AnsweredOrLost(p, next) ==
    \/ Go(p, next) /\ UNCHANGED disturbed
    \/ Go(p, Unanswered(p)) /\ disturbed' = disturbed \cup {"lost"}

\* POST /v1/agents: nothing makes a public key unique.
create_agent(p) ==
    /\ proc[p].stage = "create"
    /\ \E a \in AgentIds : agents[a] = Unborn
    /\ LET a == CHOOSE b \in AgentIds : agents[b] = Unborn
       IN  /\ agents' = [agents EXCEPT ![a] =
                 [status |-> "registered", certificates |-> <<proc[p].key>>]]
           /\ AnsweredOrLost(p, [proc[p] EXCEPT !.stage = "activate", !.tries = 1,
                 !.fresh = [agent |-> a, certificate |-> 1, status |-> "active"]])
    /\ UNCHANGED <<store, signingVars>>

\* POST .../activate; a second activation is refused, which ends register().
activate_agent(p) ==
    /\ proc[p].stage = "activate"
    /\ LET a == proc[p].fresh.agent
       IN  \/ /\ agents[a].status = "registered"
              /\ agents' = [agents EXCEPT ![a].status = "active"]
              /\ AnsweredOrLost(p, [proc[p] EXCEPT !.stage = "file", !.identity = proc[p].fresh,
                    !.todo = <<[put |-> proc[p].key, as |-> proc[p].fresh]>>])
           \/ /\ agents[a].status # "registered"
              /\ Go(p, [proc[p] EXCEPT !.stage = "idle"])
              /\ UNCHANGED <<agents, disturbed>>
    /\ UNCHANGED <<store, signingVars>>

\* Fault: the new identity is filed under the old key
RefileUnderOld(old, new, identity) == <<[put |-> old, as |-> identity]>>

\* rotate_keys saves under the new key, then deletes the old entry.
Refile(old, new, identity) == <<[put |-> new, as |-> identity], [put |-> old, as |-> Nothing]>>

\* The new private key is in the process's memory only.
SwitchKey(p, identity) ==
    [proc[p] EXCEPT !.stage = "file", !.identity = identity, !.key = proc[p].fresh]

\* POST .../rotate
rotate_certificate(p) ==
    /\ proc[p].stage = "rotate"
    /\ LET a == proc[p].identity.agent
           identity == [proc[p].identity EXCEPT !.certificate = Len(agents[a].certificates) + 1]
       IN  \/ /\ agents[a].status = "active"
              /\ agents' = [agents EXCEPT ![a].certificates = Append(@, proc[p].fresh)]
              /\ AnsweredOrLost(p, [SwitchKey(p, identity) EXCEPT
                    !.todo = Refile(proc[p].key, proc[p].fresh, identity)])
           \/ /\ agents[a].status # "active"
              /\ Go(p, [proc[p] EXCEPT !.stage = "idle"])
              /\ UNCHANGED <<agents, disturbed>>
    /\ UNCHANGED <<store, signingVars>>

retire_agent(p) ==
    /\ proc[p].stage = "retire"
    /\ LET a == proc[p].identity.agent
           identity == [proc[p].identity EXCEPT !.status = "retired"]
       IN  \/ /\ agents[a].status = "active"
              /\ agents' = [agents EXCEPT ![a].status = "retired"]
              /\ AnsweredOrLost(p, [proc[p] EXCEPT !.stage = "file", !.identity = identity,
                    !.todo = <<[put |-> proc[p].key, as |-> identity]>>])
           \/ /\ agents[a].status # "active"
              /\ Go(p, [proc[p] EXCEPT !.stage = "idle"])
              /\ UNCHANGED <<agents, disturbed>>
    /\ UNCHANGED <<store, signingVars>>

\* The request never reaches the server.
NotReached(p) ==
    /\ proc[p].stage \in {"create", "activate", "rotate", "retire"}
    /\ Go(p, Unanswered(p))
    /\ disturbed' = disturbed \cup IF proc[p].tries = MaxTries THEN {"lost"} ELSE {}
    /\ UNCHANGED <<agents, store, signingVars>>

\* CredentialStore.save and delete: read the file, change one entry, write it all
ReadFile(p) ==
    /\ proc[p].stage = "file"
    /\ proc[p].file = Nothing
    /\ IF proc[p].todo = << >>
       THEN Go(p, [proc[p] EXCEPT !.stage = "idle", !.fresh = Nothing])
       ELSE Go(p, [proc[p] EXCEPT !.file = store])
    /\ UNCHANGED <<agents, store, disturbed, signingVars>>

Overwrite(file) == disturbed' = disturbed \cup IF file # store THEN {"overwritten"} ELSE {}

\* delete writes nothing if there is no such entry.
WriteFile(p) ==
    /\ proc[p].stage = "file"
    /\ proc[p].file # Nothing
    /\ LET change == Head(proc[p].todo)
           file == proc[p].file
       IN  \/ /\ change.as # Nothing
              /\ store' = Put(file, change.put, change.as)
              /\ Overwrite(file)
           \/ /\ change.as = Nothing /\ change.put \in DOMAIN file
              /\ store' = [k \in DOMAIN file \ {change.put} |-> file[k]]
              /\ Overwrite(file)
           \/ /\ change.as = Nothing /\ change.put \notin DOMAIN file
              /\ UNCHANGED <<store, disturbed>>
    /\ Go(p, [proc[p] EXCEPT !.todo = Tail(@), !.file = Nothing])
    /\ UNCHANGED <<agents, signingVars>>

\* The process dies, and with it a key that was never written anywhere.
Die(p) ==
    /\ proc[p].stage # "down"
    /\ disturbed' = disturbed \cup (IF proc[p].stage # "idle" THEN {"cut"} ELSE {})
                              \cup (IF proc[p].key # ConfiguredKey[p] THEN {"forgotten"} ELSE {})
    /\ Go(p, Down)
    /\ UNCHANGED <<agents, store, signingVars>>

\* Agent.authorize and heartbeat: the local checks, then verify_agent_signature
\* with the certificate the process believes in.
CanSign(p) ==
    /\ proc[p].identity # Nothing
    /\ proc[p].identity.status \notin {"retired", "revoked"}
    /\ LET agent == agents[proc[p].identity.agent]
       IN  /\ agent.status = "active"
           /\ proc[p].identity.certificate = Len(agent.certificates)
           /\ agent.certificates[proc[p].identity.certificate] = proc[p].key

ProcessStep(p) ==
    \/ Start(p) \/ register(p) \/ retire(p)
    \/ \E k \in NewKeys : rotate_keys(p, k)
    \/ create_agent(p) \/ activate_agent(p) \/ rotate_certificate(p) \/ retire_agent(p)
    \/ NotReached(p) \/ ReadFile(p) \/ WriteFile(p) \/ Die(p)

-----------------------------------------------------------------------------
(* Server instances.                                                       *)

Reach(i, next) == instance' = [instance EXCEPT ![i] = next]

Booting == {"booting", "new", "insert"}

\* An instance is (re)deployed with a signing key, and reads whether its id is
\* registered.
Boot(i, key) ==
    /\ Reach(i, [stage |-> "booting", key |-> key, seen |-> {}])
    /\ concurrentBoots' = (concurrentBoots \/ \E j \in Instances \ {i} : instance[j].stage \in Booting)
    /\ UNCHANGED <<registry, signed, unregistered, sdkVars>>

ensure_current_key_registered(i) ==
    /\ instance[i].stage = "booting"
    /\ LET key == instance[i].key
       IN  IF key.id \in DOMAIN registry
           THEN /\ Reach(i, [instance[i] EXCEPT !.stage = "serving"])
                /\ unregistered' = unregistered \cup
                       IF registry[key.id].material # key.material THEN {key} ELSE {}
           ELSE /\ Reach(i, [instance[i] EXCEPT !.stage = "new"])
                /\ UNCHANGED unregistered
    /\ UNCHANGED <<registry, signed, concurrentBoots, sdkVars>>

\* UPDATE signing_keys SET retired_at WHERE retired_at IS NULL: the statement
\* sees the rows that are committed now.
RetirePrevious(i) ==
    /\ instance[i].stage = "new"
    /\ Reach(i, [instance[i] EXCEPT !.stage = "insert", !.seen = DOMAIN registry])
    /\ UNCHANGED <<registry, signed, unregistered, concurrentBoots, sdkVars>>

\* Fault: the key that is replaced leaves the registry
ReplaceKeys(rows, seen) == [k \in DOMAIN rows \ seen |-> rows[k]]

\* What the UPDATE leaves behind once it is committed
RetireKeys(rows, seen) ==
    [k \in DOMAIN rows |-> IF k \in seen THEN [rows[k] EXCEPT !.retired = TRUE] ELSE rows[k]]

\* INSERT and commit; an id another instance has registered meanwhile raises,
\* which is logged and rolls the UPDATE back.
RegisterKey(i) ==
    /\ instance[i].stage = "insert"
    /\ LET key == instance[i].key
       IN  \/ /\ key.id \notin DOMAIN registry
              /\ registry' = Put(RetireKeys(registry, instance[i].seen), key.id,
                                 [material |-> key.material, retired |-> FALSE])
              /\ UNCHANGED unregistered
           \/ /\ key.id \in DOMAIN registry
              /\ unregistered' = unregistered \cup
                     IF registry[key.id].material # key.material THEN {key} ELSE {}
              /\ UNCHANGED registry
    /\ Reach(i, [instance[i] EXCEPT !.stage = "serving", !.seen = {}])
    /\ UNCHANGED <<signed, concurrentBoots, sdkVars>>

\* The database cannot be reached: a warning, and the instance serves.
RegistrationFails(i) ==
    /\ instance[i].stage \in Booting
    /\ unregistered' = unregistered \cup {instance[i].key}
    /\ Reach(i, [instance[i] EXCEPT !.stage = "serving", !.seen = {}])
    /\ UNCHANGED <<registry, signed, concurrentBoots, sdkVars>>

\* sign_payload, for Evidence and audit events
Sign(i) ==
    /\ instance[i].stage = "serving"
    /\ signed' = signed \cup {instance[i].key}
    /\ UNCHANGED <<registry, instance, unregistered, concurrentBoots, sdkVars>>

\* get_public_key_for_key_id, and the fallback of verify_evidence
PublicKey(i, id) ==
    IF id \in DOMAIN registry THEN registry[id].material ELSE instance[i].key.material

verify_evidence(i, key) == PublicKey(i, key.id) = key.material

InstanceStep(i) ==
    \/ \E k \in SigningKeys : Boot(i, k)
    \/ ensure_current_key_registered(i) \/ RetirePrevious(i) \/ RegisterKey(i)
    \/ RegistrationFails(i) \/ Sign(i)

KeyNext == (\E p \in Processes : ProcessStep(p)) \/ (\E i \in Instances : InstanceStep(i))

KeySpec == KeyInit /\ [][KeyNext]_keyVars

-----------------------------------------------------------------------------
(***************************************************************************)
(* An entry of the credentials file is filed under the public key of the   *)
(* certificate it names, whatever was resent, overwritten or cut short.    *)
(***************************************************************************)
StoreGrounded ==
    \A k \in DOMAIN store : agents[store[k].agent].certificates[store[k].certificate] = k

(***************************************************************************)
(* Undisturbed, an active entry of the file names its agent's active       *)
(* certificate, and an agent that retired itself is filed as such, except  *)
(* while a process is about to write the file.                             *)
(***************************************************************************)
StoreCurrent ==
    disturbed = {} /\ (\A p \in Processes : proc[p].stage # "file") =>
        \A k \in DOMAIN store :
            store[k].status = "active" =>
                LET agent == agents[store[k].agent]
                IN  agent.status = "active" /\ store[k].certificate = Len(agent.certificates)

(***************************************************************************)
(* Undisturbed, a process can sign as its agent after every rotation, as   *)
(* long as the agent is active: the key, the certificate it names and the  *)
(* server's active certificate go together.                                *)
(***************************************************************************)
HolderCanSign ==
    disturbed = {} =>
        \A p \in Processes :
            /\ proc[p].stage = "idle" /\ proc[p].identity # Nothing
            /\ agents[proc[p].identity.agent].status = "active"
            => CanSign(p)

(***************************************************************************)
(* "Idempotent per key: calling this again with the same private key       *)
(* (e.g. on every process restart) returns the identity already on file    *)
(* instead of registering a second time."                                  *)
(***************************************************************************)
IdempotentPerKey ==
    \A a, b \in AgentIds :
        a # b /\ agents[a] # Unborn /\ agents[b] # Unborn =>
            agents[a].certificates[1] # agents[b].certificates[1]

(***************************************************************************)
(* It holds as long as no answer was lost, no process was cut off before   *)
(* it saved its identity, no write of the file was overwritten, no two     *)
(* processes share a key, and no process restarts with a key it rotated    *)
(* away.                                                                   *)
(***************************************************************************)
RegisteredOnce == disturbed = {} => IdempotentPerKey

(***************************************************************************)
(* Evidence signed by an instance whose key got registered verifies from   *)
(* every instance, however often keys are rotated, redeployed or reused    *)
(* afterwards, and in whatever order instances boot.                       *)
(***************************************************************************)
EvidenceVerifiable ==
    \A key \in signed \ unregistered, i \in Instances :
        instance[i].stage = "serving" => verify_evidence(i, key)

(***************************************************************************)
(* Registering a key retires the one before: unless two instances register *)
(* at the same time, at most one key is not retired.                       *)
(***************************************************************************)
OneKeyInForce ==
    ~concurrentBoots => Cardinality({k \in DOMAIN registry : ~registry[k].retired}) <= 1

(***************************************************************************)
(* The SDK's side (register, rotate_keys, retire): file, process and       *)
(* server agree on who holds which key, and nobody is registered twice.    *)
(***************************************************************************)
CredentialsSound == StoreGrounded /\ StoreCurrent /\ HolderCanSign /\ RegisteredOnce

(***************************************************************************)
(* The server's side (ensure_current_key_registered, verify_evidence): old *)
(* Evidence stays verifiable and one key is in force, in whatever order    *)
(* instances boot, reboot, and are deployed with new or reused keys.       *)
(***************************************************************************)
SigningSound == EvidenceVerifiable /\ OneKeyInForce

=============================================================================
