---------------------------- MODULE AgentResources ----------------------------
(***************************************************************************)
(* Resources that several executions work on (replica/agent-state.js):     *)
(* versioned, planned against at the versions an agent has read, and       *)
(* written by the command that authorizes an effect, if every version read *)
(* is still the current one. What a write does to the content is left out. *)
(***************************************************************************)
EXTENDS AgentState

CONSTANTS
    Resource,
    MaxVersion    \* bound: versions of a resource

ASSUME ResourceBoundAssumption == MaxVersion \in Nat
ASSUME VersionAssumption == Nil \notin Nat

VARIABLES
    resources,    \* the version of each resource, or Nil
    plans,        \* readSet and writeSet of each execution, or Nil
    authorized,   \* the resourceAuthorization of each effect, or Nil
    index         \* log index of the last authorization

agents == <<executions, effects, resources, plans, authorized, index>>

Authorizations == {f \in Effect : authorized[f] # Nil}

ResourcesInit ==
    /\ AgentInit
    /\ resources = [r \in Resource |-> Nil]
    /\ plans = [e \in Execution |-> Nil]
    /\ authorized = [f \in Effect |-> Nil]
    /\ index = 0

CreateResource(r, version) ==
    /\ resources[r] = Nil
    /\ resources' = [resources EXCEPT ![r] = version]
    /\ UNCHANGED <<agent, plans, authorized, index>>

\* Mutant: one known resource is enough.
KnownInPart(R) == \E r \in R : resources[r] # Nil

Known(R) == \A r \in R : resources[r] # Nil

\* reads gives the version seen of each resource in the read set. Another plan
\* takes the place of the one before.
RecordPlan(e, reads, writes) ==
    /\ IsRunning(e)
    /\ writes # {} /\ writes \subseteq DOMAIN reads
    /\ Known(DOMAIN reads)
    /\ plans' = [plans EXCEPT ![e] = [reads |-> reads, writes |-> writes]]
    /\ UNCHANGED <<agent, resources, authorized, index>>

\* Mutant: only the resources that are written are checked.
CurrentWrites(plan) == \A r \in plan.writes : resources[r] = plan.reads[r]

\* Every version read is the current one.
Current(plan) == \A r \in DOMAIN plan.reads : resources[r] = plan.reads[r]

\* The writes and the intent are one step. at stands for committedAtIndex,
\* which only tells which of two authorizations came first.
AuthorizeEffect(f, s) ==
    LET plan == plans[Owner[f]]
        bump == [r \in Resource |->
                    IF r \in plan.writes THEN resources[r] + 1 ELSE resources[r]]
    IN  /\ MayIntend(f, s)
        /\ plan # Nil /\ Current(plan)
        /\ resources' = bump
        /\ effects' = [effects EXCEPT ![f] = NewEffect(s)]
        /\ authorized' = [authorized EXCEPT ![f] =
               [reads |-> plan.reads, writes |-> plan.writes,
                resulting |-> [r \in plan.writes |-> resources[r] + 1],
                at |-> index + 1]]
        /\ index' = index + 1
        /\ UNCHANGED <<executions, plans>>

\* What an agent may have read of the resources in R: any versions so far.
Readings(R) == {reads \in [R -> 0..MaxVersion] :
                    \A r \in R : resources[r] # Nil => reads[r] <= resources[r]}

ResourcesNext ==
    \/ AgentNext /\ UNCHANGED <<resources, plans, authorized, index>>
    \/ \E r \in Resource, version \in 0..MaxVersion : CreateResource(r, version)
    \/ \E e \in Execution, R \in SUBSET Resource \ {{}} :
           \E reads \in Readings(R), writes \in SUBSET R : RecordPlan(e, reads, writes)
    \/ \E f \in Effect, s \in Snapshot :
           /\ AuthorizeEffect(f, s)
           /\ \A r \in plans[Owner[f]].writes : resources[r] < MaxVersion

ResourcesSpec == ResourcesInit /\ [][ResourcesNext]_agents

-----------------------------------------------------------------------------
\* Resources have versions, a plan reads what it writes, and exactly the effects
\* that were authorized with a plan carry an authorization of a ledger entry.
ResourcesTypeOK ==
    /\ AgentTypeOK
    /\ resources \in [Resource -> Nat \cup {Nil}]
    /\ \A e \in Execution : plans[e] # Nil =>
          /\ plans[e].writes \subseteq DOMAIN plans[e].reads
          /\ \A r \in DOMAIN plans[e].reads : resources[r] # Nil
    /\ index \in Nat
    /\ \A f \in Authorizations : effects[f] # Nil

\* Two agents that are each right never add up to something wrong: the effects
\* authorized so far could have run one after the other, in log order. If f has
\* read a resource that g has written, f saw the version from before g exactly
\* if it was authorized before g. So there is no lost update and no write skew
\* (_authorizeResourceEffect).
AuthorizationsSerial ==
    \A f, g \in Authorizations : f # g =>
        \A r \in DOMAIN authorized[f].reads \cap authorized[g].writes :
            authorized[f].reads[r] < authorized[g].resulting[r]
                <=> authorized[f].at < authorized[g].at

=============================================================================
