----------------------------- MODULE AgentFleet -----------------------------
(***************************************************************************)
(* One analysis of the agent fleet: the prompt guard, incident memory, the *)
(* concurrent collection of evidence, the impact analysis over the         *)
(* dependency catalog, and the workflow of seven agents.  Analyses share   *)
(* nothing: session service, tracker and clients are made per request.     *)
(***************************************************************************)
EXTENDS Integers, Sequences, FiniteSets, SequencesExt

CONSTANTS
  Systems,      \* systems of the dependency catalog
  Subject,      \* the system the event is about
  Catalogs      \* dependency catalogs: sets of managed edges

ASSUME SystemsAssumption == IsFiniteSet(Systems)
ASSUME SubjectAssumption == Subject \in Systems
ASSUME CatalogsAssumption == Catalogs \subseteq SUBSET (Systems \X Systems)

VARIABLES
  managed,      \* governance backend: Google Cloud or the local fixtures
  pc,           \* where the request is, or its answer
  guard,        \* what the prompt guard answered
  memory,       \* whether incident memory contributed evidence
  pending,      \* evidence requests without a response
  bad,          \* some response has an error status
  edges,        \* the managed edges of the collected catalog
  queue, paths, \* _dependency_paths
  agent,        \* the state of each agent's node
  order         \* history: the agents in the order they finished

vars == <<managed, pc, guard, memory, pending, bad, edges, queue, paths, agent,
          order>>
analysisVars == <<managed, edges, queue, paths>>
agentVars == <<agent, order>>

\* AGENT_IDS, and the edges of the workflow: through the two joins every agent
\* waits for all agents of the stage before it.
AgentIds == {"orchestrator", "impact-analysis", "compliance", "crm", "analytics",
             "support", "verification"}
Predecessors ==
  [a \in AgentIds |->
     IF a = "orchestrator" THEN {}
     ELSE IF a \in {"impact-analysis", "compliance"} THEN {"orchestrator"}
     ELSE IF a = "verification" THEN {"crm", "analytics", "support"}
     ELSE {"impact-analysis", "compliance"}]
MaxConcurrency == 3

EvidenceRequests == {"catalog-contract", "catalog-dependencies", "crm-configuration",
  "analytics-configuration", "analytics-field-usage", "support-configuration",
  "support-field-usage"}

\* The local guard always decides; Model Armor may be unreachable or answer
\* without a decision.
LocalDecisions == {"NO_MATCH_FOUND", "MATCH_FOUND"}
ManagedDecisions == LocalDecisions \cup {"INCOMPLETE", "UNREACHABLE"}
Answers == {"blocked", "governance_unavailable", "evidence_unavailable", "error", "answered"}

Init ==
  /\ managed \in BOOLEAN
  /\ pc = "screen"
  /\ guard = "NONE"
  /\ memory = FALSE
  /\ pending = {}
  /\ bad = FALSE
  /\ edges = {}
  /\ queue = <<>>
  /\ paths = {}
  /\ agent = [a \in AgentIds |-> "waiting"]
  /\ order = <<>>

-----------------------------------------------------------------------------
(* GovernanceService.prepare                                               *)

\* Mutant: an undecided screening lets the summary through.
Undecided_passes(answer) == answer = "UNREACHABLE"

\* _authorized_json raises, or the decision is not complete.
Undecided(answer) == answer \in {"INCOMPLETE", "UNREACHABLE"}

screen(answer) ==
  /\ pc = "screen"
  /\ answer \in IF managed THEN ManagedDecisions ELSE LocalDecisions
  /\ guard' = answer
  /\ pc' = IF Undecided(answer) THEN "governance_unavailable"
           ELSE IF answer = "MATCH_FOUND" THEN "blocked" ELSE "retrieve"
  /\ UNCHANGED <<memory, pending, bad, analysisVars, agentVars>>

\* Historical memory for this tenant, possibly none.
retrieve(found) ==
  /\ pc = "retrieve"
  /\ memory' = found
  /\ pc' = "collect"
  /\ pending' = EvidenceRequests
  /\ UNCHANGED <<guard, bad, analysisVars, agentVars>>

\* Only Memory Bank can fail; the local incidents are a file.
retrieve_fails ==
  /\ pc = "retrieve"
  /\ managed
  /\ pc' = "governance_unavailable"
  /\ UNCHANGED <<guard, memory, pending, bad, analysisVars, agentVars>>

-----------------------------------------------------------------------------
(* HttpEvidenceProvider.collect                                            *)

\* A response, of either status: statuses are looked at after the gather.
fetched(e, ok) ==
  /\ e \in pending
  /\ pending' = pending \ {e}
  /\ bad' = (bad \/ ~ok)
  /\ UNCHANGED <<pc, guard, memory, analysisVars, agentVars>>

\* No response, or no platform token: the gather raises at once, and the
\* other requests are not waited for.
fetch_fails(e) ==
  /\ pc = "collect"
  /\ e \in pending
  /\ pending' = pending \ {e}
  /\ pc' = "evidence_unavailable"
  /\ UNCHANGED <<guard, memory, bad, analysisVars, agentVars>>

collected(catalog) ==
  /\ pc = "collect"
  /\ pending = {}
  /\ \/ /\ bad
        /\ pc' = "evidence_unavailable"
        /\ UNCHANGED analysisVars
     \/ /\ ~bad
        /\ pc' = "derive"
        /\ edges' = catalog
        /\ queue' = <<<<Subject>>>>
        /\ UNCHANGED <<managed, paths>>
  /\ UNCHANGED <<guard, memory, pending, bad, agentVars>>

-----------------------------------------------------------------------------
(* _derive_outputs: the paths from the subject to the catalog's leaves.    *)

Children(s) == {t \in Systems : <<s, t>> \in edges}
OnPath(s, path) == \E i \in DOMAIN path : path[i] = s

\* Mutant: a system that some path has reached is not visited again.
NextPaths_visited_once(path) ==
  LET seen == UNION {ToSet(q) : q \in ToSet(queue) \cup paths} IN
  [i \in 1..Cardinality(Children(Last(path)) \ seen) |->
     Append(path, SetToSeq(Children(Last(path)) \ seen)[i])]

\* One longer path for each child that is not on the path yet.
NextPaths(path) ==
  LET next == {t \in Children(Last(path)) : ~OnPath(t, path)} IN
  [i \in 1..Cardinality(next) |-> Append(path, SetToSeq(next)[i])]

dependency_path ==
  LET path == Head(queue) IN
  /\ pc = "derive"
  /\ queue # <<>>
  /\ paths' = IF Children(Last(path)) = {} /\ Len(path) > 1
                THEN paths \cup {path} ELSE paths
  /\ queue' = Tail(queue) \o NextPaths(path)
  /\ UNCHANGED <<managed, pc, guard, memory, pending, bad, edges, agentVars>>

Affected == {Subject} \cup UNION {ToSet(path) : path \in paths}

\* The agents' expected outputs; evidence without a required value raises.
derive_outputs ==
  /\ pc = "derive"
  /\ queue = <<>>
  /\ pc' \in {"agents", "error"}
  /\ UNCHANGED <<guard, memory, pending, bad, analysisVars, agentVars>>

-----------------------------------------------------------------------------
(* The workflow of agents.                                                 *)

InState(state) == {a \in AgentIds : agent[a] = state}

\* Mutant: a join lets the next stage start with its first input.
Ready_any_input(a) ==
  Predecessors[a] = {} \/ \E b \in Predecessors[a] : agent[b] = "done"

Ready(a) == \A b \in Predecessors[a] : agent[b] = "done"

start_agent(a) ==
  /\ pc = "agents"
  /\ agent[a] = "waiting"
  /\ Ready(a)
  /\ Cardinality(InState("running")) < MaxConcurrency
  /\ agent' = [agent EXCEPT ![a] = "running"]
  /\ UNCHANGED <<pc, guard, memory, pending, bad, analysisVars, order>>

\* The single model call answered with the agent's output schema.
finish_agent(a) ==
  /\ pc = "agents"
  /\ agent[a] = "running"
  /\ agent' = [agent EXCEPT ![a] = "done"]
  /\ order' = Append(order, a)
  /\ UNCHANGED <<pc, guard, memory, pending, bad, analysisVars>>

\* Mutant: a model call without a timeout.
fail_agent_unbounded(a) == FALSE /\ UNCHANGED vars

\* An error of the model, an answer outside the schema, or the timeout.
fail_agent(a) ==
  /\ pc = "agents"
  /\ agent[a] = "running"
  /\ agent' = [agent EXCEPT ![a] = "failed"]
  /\ pc' = "error"
  /\ UNCHANGED <<guard, memory, pending, bad, analysisVars, order>>

\* The outputs are read from the session, and the plan is built from the three
\* proposals and all the evidence.
answer ==
  /\ pc = "agents"
  /\ agent["verification"] = "done"
  /\ pc' = "answered"
  /\ UNCHANGED <<guard, memory, pending, bad, analysisVars, agentVars>>

\* Or they are not an answer: another tenant's or change's, evidence that was
\* not supplied, a plan that is not valid, an output that is not in the session.
answer_fails ==
  /\ pc = "agents"
  /\ agent["verification"] = "done"
  /\ pc' = "error"
  /\ UNCHANGED <<guard, memory, pending, bad, analysisVars, agentVars>>

-----------------------------------------------------------------------------
Step ==
  \/ \E a \in ManagedDecisions : screen(a)
  \/ \E found \in BOOLEAN : retrieve(found)
  \/ retrieve_fails
  \/ \E e \in EvidenceRequests : (\E ok \in BOOLEAN : fetched(e, ok)) \/ fetch_fails(e)
  \/ \E catalog \in Catalogs : collected(catalog)
  \/ dependency_path
  \/ derive_outputs
  \/ \E a \in AgentIds : start_agent(a)
  \/ answer \/ answer_fails

\* A model answers when it likes, if at all; its timeout always comes.
Next == Step \/ \E a \in AgentIds : finish_agent(a) \/ fail_agent(a)

Spec == Init /\ [][Next]_vars

\* Every outgoing call has a timeout (httpx, the agent node's), and the event
\* loop runs what is ready.
FairSpec ==
  Spec /\ WF_vars(Step) /\ \A a \in AgentIds : WF_vars(fail_agent(a))

-----------------------------------------------------------------------------
\* Nothing is read for, and no agent sees, a change summary before the prompt
\* guard has decided that it is harmless; no decision is not that decision.
ScreenedFirst ==
  (memory \/ pending # {} \/ \E a \in AgentIds : agent[a] # "waiting")
    => guard = "NO_MATCH_FOUND"

\* An answer rests on the output of all seven agents, each of which ran after
\* everything it builds on was there, and on responses to all evidence requests,
\* none of which was an error.
AnalysisIsComplete ==
  pc = "answered" =>
    /\ ToSet(order) = AgentIds /\ Len(order) = Cardinality(AgentIds)
    /\ \A i, j \in DOMAIN order : order[i] \in Predecessors[order[j]] => i < j
    /\ pending = {} /\ ~bad

\* Reference: the simple paths from the subject.
SimplePaths ==
  {p \in UNION {[1..n -> Systems] : n \in 1..Cardinality(Systems)} :
     /\ p[1] = Subject
     /\ \A i, j \in DOMAIN p : p[i] = p[j] => i = j
     /\ \A i \in 1..(Len(p) - 1) : <<p[i], p[i + 1]>> \in edges}

\* No system that the subject reaches leads back to an earlier one.
Acyclic == \A p \in SimplePaths : \A t \in Children(Last(p)) : ~OnPath(t, p)

\* The loop finds exactly the paths to leaves, and the systems on them are all
\* the systems the change reaches, unless the catalog has a cycle: what only
\* leads back into it is on no path to a leaf.
ImpactIsExact ==
  (pc = "derive" /\ queue = <<>>) =>
    /\ paths = {p \in SimplePaths : Len(p) > 1 /\ Children(Last(p)) = {}}
    /\ Acyclic => Affected = {Last(p) : p \in SimplePaths}

\* Every analysis comes to an answer, whatever the guard, the systems and the
\* models do and whatever cycles the catalog has.
AnalysisEnds == <>(pc \in Answers)
=============================================================================
