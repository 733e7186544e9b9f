------------------------------ MODULE AgentTeam ------------------------------
(***************************************************************************)
(* One supervisor node (internal/scheduler/executor.go, runSupervisorNode; *)
(* internal/agent/supervisor.go): the supervisor plans, every part of the  *)
(* plan is routed to an agent (router.go), the parts run concurrently      *)
(* (native_runtime.go, langchain_runtime.go) and the results are summed    *)
(* up.  The router looks as user 0 and sees the system agents only, which  *)
(* no request changes.                                                     *)
(***************************************************************************)
EXTENDS Integers, FiniteSets, Sequences, SequencesExt

CONSTANTS
    Listed,     \* system agents in the list, newest first
    Wanted,     \* names a plan may give its parts; some are names of agents
    NameOf,     \* NameOf[k]: the name of the k-th agent
    CapOf,      \* CapOf[n]: the capability inferred from the name n, or "any"
    Caps,       \* capabilities
    PartIds,    \* ids the model gives the parts of its plan
    MaxParts,   \* bound: parts of a plan; MaxSubTasks is only asked for in the prompt
    MaxRounds,  \* rounds of a part, 5 in runSupervisorNode
    MaxCheck,   \* candidates whose health is looked at, 3
    CheckTime,  \* what the health check of a remote agent takes at most, 5 seconds
    Patience    \* what the checks of all candidates may take together, 10 seconds

ASSUME TeamAssumption ==
    /\ Listed \in Nat /\ MaxParts \in Nat /\ MaxRounds \in Nat \ {0}
    /\ CheckTime \in Nat \ {0} /\ Patience \in Nat

VARIABLES
    crew,      \* crew[k]: the k-th system agent
    step,      \* "plan", "assign", "run", "sum", "done", "failed"
    plan,      \* the parts of the plan
    agentMap,  \* agentMap[id]: the runtime of the parts with that id
    part,      \* part[i]: 0, the round it is in, or Over
    results,   \* results[i]: what the i-th part left behind
    waiting    \* the counter of the WaitGroup

teamVars == <<crew, step, plan, agentMap, part, results, waiting>>

Ranks   == 1..Listed
Self    == 0                      \* the runtime of the supervisor
Agent   == [caps : SUBSET Caps, active : BOOLEAN, kind : {"native", "langchain", "http"}]
Part    == [id : PartIds, name : Wanted]
Over   == MaxRounds + 1
NoResult == [of |-> 0, by |-> Self, ok |-> FALSE]
Result  == [of : 0..MaxParts, by : Ranks \cup {Self}, ok : BOOLEAN]

TeamTypeOK ==
    /\ crew \in [Ranks -> Agent]
    /\ step \in {"plan", "assign", "run", "sum", "done", "failed"}
    /\ plan \in BoundedSeq(Part, MaxParts)
    /\ \A id \in DOMAIN agentMap : id \in PartIds /\ agentMap[id] \in Ranks \cup {Self}
    /\ part \in [1..MaxParts -> 0..Over]
    /\ results \in [1..MaxParts -> Result]
    /\ waiting \in 0..MaxParts

TeamInit ==
    /\ crew \in [Ranks -> Agent]
    /\ step = "plan" /\ plan = <<>> /\ agentMap = <<>> /\ waiting = 0
    /\ part = [i \in 1..MaxParts |-> 0]
    /\ results = [i \in 1..MaxParts |-> NoResult]

-----------------------------------------------------------------------------
(* SmartRouter.Route. *)

\* GetRuntime succeeds: main registers no factory for "http".
Runs(k) == crew[k].active /\ crew[k].kind # "http"

\* The newest of some agents.
First(ranks) == CHOOSE k \in ranks : \A m \in ranks : k <= m

\* findCandidates: the active agents with the capability.
Candidates(name) ==
    {k \in Ranks : crew[k].active /\ (CapOf[name] = "any" \/ CapOf[name] \in crew[k].caps)}

(* What the router meets at one routing: the agents that are well (their   *)
(* service answers the check; a native agent's runtime can be had) and the *)
(* remote ones whose check, well or not, takes all the time it has.        *)

Remote(k) == crew[k].kind = "langchain"

\* Any other remote check takes a unit of time, a native one and a row that is read none.
Takes(k, slow) == IF k \in slow THEN CheckTime ELSE 1

\* Mutant of Spent: the check of a remote agent has no timeout of its own.
SpentAll(cands, k, slow) ==
    LET before == {m \in cands : m < k /\ Remote(m)}
    IN  Cardinality(before) + Patience * Cardinality(before \cap slow)

\* What the checks of the candidates before k take together.
Spent(cands, k, slow) ==
    LET before == {m \in cands : m < k /\ Remote(m)}
    IN  Cardinality(before) + (CheckTime - 1) * Cardinality(before \cap slow)

\* selectHealthy: the first MaxCheck candidates are looked at, one after the other, under one
\* deadline; a native agent may be found in the cache after it.
Healthy(cands, well, slow) ==
    {k \in cands : /\ Cardinality({m \in cands : m <= k}) <= MaxCheck
                   /\ Runs(k) /\ k \in well
                   /\ Remote(k) => Spent(cands, k, slow) + Takes(k, slow) <= Patience}

\* The steps of Route after the name: the first healthy candidate, else the first one, else the
\* newest agent of all; the supervisor itself if none can be built.
RouteByCapability(name, well, slow) ==
    LET cands   == Candidates(name)
        healthy == Healthy(cands, well, slow)
    IN  IF healthy # {} THEN First(healthy)
        ELSE IF cands # {} /\ Runs(First(cands)) THEN First(cands)
        ELSE IF Listed > 0 /\ Runs(1) THEN 1 ELSE Self

\* The agent of that name (the names of system agents differ) is taken without a look at its
\* health.
Route(name, well, slow) ==
    LET named == {k \in Ranks : NameOf[k] = name /\ Runs(k)}
    IN IF named # {} THEN CHOOSE k \in named : TRUE ELSE RouteByCapability(name, well, slow)

Routes(name) == {Route(name, well, slow) : well \in SUBSET Candidates(name),
                                           slow \in SUBSET Candidates(name)}

-----------------------------------------------------------------------------
(* SupervisorAgent.Execute. *)

\* decomposeTask.  An output that is no plan becomes a plan of one part; an empty plan is
\* answered by the supervisor alone; the call to the model may fail.
Decompose ==
    /\ step = "plan"
    /\ \/ step' \in {"done", "failed"} /\ UNCHANGED plan
       \/ \E p \in BoundedSeq(Part, MaxParts) \ {<<>>} : plan' = p /\ step' = "assign"
    /\ UNCHANGED <<crew, agentMap, part, results, waiting>>

\* assignAgents, keyed by id: of several parts with one id the last decides.
AssignAgents ==
    /\ step = "assign"
    /\ LET ids     == {plan[i].id : i \in DOMAIN plan}
           last(id) == CHOOSE i \in DOMAIN plan :
                           /\ plan[i].id = id
                           /\ \A j \in DOMAIN plan : plan[j].id = id => j <= i
           routes  == [id \in ids |-> Routes(plan[last(id)].name)]
       IN  agentMap' \in {m \in [ids -> Ranks \cup {Self}] : \A id \in ids : m[id] \in routes[id]}
    /\ step' = "run"
    /\ part' = [i \in 1..MaxParts |-> IF i \in DOMAIN plan THEN 1 ELSE 0]
    /\ waiting' = Len(plan)
    /\ UNCHANGED <<crew, plan, results>>

By(i) == agentMap[plan[i].id]

\* Mutant: results are appended in the order in which the parts end.
EndsAppended(i, ok) ==
    /\ results' = [results EXCEPT ![1 + Cardinality({j \in DOMAIN plan : part[j] = Over})] =
           [of |-> i, by |-> By(i), ok |-> ok]]
    /\ part' = [part EXCEPT ![i] = Over]
    /\ waiting' = waiting - 1

\* The goroutine of part i stores its result in its own place and calls Done.
Ends(i, ok) ==
    /\ results' = [results EXCEPT ![i] = [of |-> i, by |-> By(i), ok |-> ok]]
    /\ part' = [part EXCEPT ![i] = Over]
    /\ waiting' = waiting - 1

KindOf(i) == IF By(i) = Self THEN "native" ELSE crew[By(i)].kind

\* NativeRuntime.Execute, one round: an answer, an error of the gateway, or calls of tools, after
\* which the next round begins; when the rounds are used up the answer so far is an error.
NativeRound(i) ==
    /\ part[i] \in 1..MaxRounds /\ KindOf(i) = "native"
    /\ \/ \E ok \in BOOLEAN : Ends(i, ok)
       \/ /\ part[i] < MaxRounds
          /\ part' = [part EXCEPT ![i] = @ + 1]
          /\ UNCHANGED <<results, waiting>>
    /\ UNCHANGED <<crew, step, plan, agentMap>>

\* LangChainRuntime.Execute: one request; an agent that failed its check may still answer it.
Invoke(i) ==
    /\ part[i] \in 1..MaxRounds /\ KindOf(i) = "langchain"
    /\ \E ok \in BOOLEAN : Ends(i, ok)
    /\ UNCHANGED <<crew, step, plan, agentMap>>

\* wg.Wait returns.
PartsDone ==
    /\ step = "run" /\ waiting = 0
    /\ step' = "sum"
    /\ UNCHANGED <<crew, plan, agentMap, part, results, waiting>>

\* summarizeResults: when the model fails, the results are joined, and the node succeeds.
Summarize ==
    /\ step = "sum"
    /\ step' = "done"
    /\ UNCHANGED <<crew, plan, agentMap, part, results, waiting>>

PartStep(i) == NativeRound(i) \/ Invoke(i)

TeamStep == Decompose \/ AssignAgents \/ PartsDone \/ Summarize

TeamNext == TeamStep \/ (\E i \in 1..MaxParts : PartStep(i))

TeamSpec == TeamInit /\ [][TeamNext]_teamVars

-----------------------------------------------------------------------------
(* Properties. *)

\* What is summed up is complete and in order: every part of the plan has left its own result
\* at its own place before the supervisor reads them (supervisor.go:262-307).
EveryPartReported ==
    step = "sum" => \A i \in DOMAIN plan : results[i].of = i /\ results[i].by = By(i)

\* The agents up to the k-th that a part of this name could be given by its capability.
AbleUpTo(k, name) == {j \in 1..k : crew[j].active /\ CapOf[name] \in crew[j].caps \cup {"any"}}

\* The candidates share one deadline, yet a well agent that is looked at is not passed over for it
\* as long as the checks up to its own cannot use the deadline up: with 10 seconds for all and 5
\* for each, one of the first two candidates.  A part whose name no agent has then gets an agent
\* that is well and has the capability, whatever the others do (router.go:118-131, 209-229).
HealthyIsRouted ==
    step = "assign" =>
    \A name \in {plan[i].name : i \in DOMAIN plan} : (\A k \in Ranks : NameOf[k] # name) =>
        \A well, slow \in SUBSET Ranks :
            (\E k \in well : /\ Runs(k) /\ k \in AbleUpTo(k, name)
                             /\ Cardinality(AbleUpTo(k, name)) <= MaxCheck
                             /\ Cardinality(AbleUpTo(k, name)) * CheckTime <= Patience)
            => LET k == Route(name, well, slow) IN k \in well /\ k \in AbleUpTo(k, name)

\* router.go:68-69, "PreferHealthy=true（默认）：优先返回健康的".  Not met: after two candidates that
\* do not answer, the deadline is used up and a third, well one is refused.
FirstThreeRouted ==
    \A name \in Wanted, well, slow \in SUBSET Ranks :
        (/\ \A k \in Ranks : NameOf[k] # name
         /\ \E k \in well : /\ Runs(k) /\ k \in AbleUpTo(k, name)
                            /\ Cardinality(AbleUpTo(k, name)) <= MaxCheck)
        => Route(name, well, slow) \in well

\* supervisor.go:179 (为每个子任务 ... 找到最合适的 Agent).  Not met: parts with one id share an agent.
OwnAgent == step = "run" => \A i \in DOMAIN plan : By(i) \in Routes(plan[i].name)

\* router.go:63-66, "AgentName 精确匹配 → 返回匹配的（如果健康）".  Not met: health is not looked at.
NamedIsHealthy ==
    \A name \in Wanted, well \in SUBSET Ranks :
        (\E k \in Ranks : NameOf[k] = name /\ Route(name, well, {}) = k) => Route(name, well, {}) \in well
=============================================================================
