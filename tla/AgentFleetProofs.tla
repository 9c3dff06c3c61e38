-------------------------- MODULE AgentFleetProofs --------------------------
(***************************************************************************)
(* Proofs about AgentFleet for every finite set of systems and any         *)
(* dependency catalogs, cyclic ones included.                              *)
(***************************************************************************)
EXTENDS AgentFleet, FiniteSetTheorems, SequenceTheorems, TLAPS

USE SystemsAssumption, SubjectAssumption

-----------------------------------------------------------------------------
(* Facts about the operators of the path search.                           *)

\* A simple path from the subject along the edges E, and a system nothing
\* depends on.
Simple(E, p) ==
  /\ p \in Seq(Systems) /\ Len(p) \in Nat \ {0}
  /\ p[1] = Subject
  /\ \A i, j \in 1..Len(p) : p[i] = p[j] => i = j
  /\ \A i \in 1..(Len(p) - 1) : <<p[i], p[i + 1]>> \in E
Leaf(E, s) == \A t \in Systems : <<s, t>> \notin E

\* A set of naturals that is not empty has a least element.
LEMMA LeastNat ==
  ASSUME NEW T, T \subseteq Nat, T # {}
  PROVE  \E x \in T : \A y \in T : x <= y
<1> DEFINE R == OpToRel(<, Nat)
<1>1. IsWellFoundedOn(R, Nat)
  BY NatLessThanWellFounded
<1>2. \A x, y \in Nat : x < y => <<x, y>> \in R
  BY DEF OpToRel
<1> HIDE DEF R
<1>3. \E x \in T : \A y \in T : ~(<<y, x>> \in R)
  BY <1>1, WFMin
<1>4. PICK x \in T : \A y \in T : ~(<<y, x>> \in R)
  BY <1>3
<1>5. \A y \in T : y \in Nat /\ x \in Nat /\ ~(y < x)
  BY <1>2, <1>4
<1>6. \A y \in T : x <= y
  BY <1>5
<1> QED
  BY <1>6

\* SetToSeq lists every element of a finite set.
LEMMA SetToSeqCovers ==
  ASSUME NEW S, IsFiniteSet(S)
  PROVE  /\ Cardinality(S) \in Nat
         /\ SetToSeq(S) \in [1..Cardinality(S) -> S]
         /\ \A t \in S : \E i \in 1..Cardinality(S) : SetToSeq(S)[i] = t
<1> DEFINE n == Cardinality(S)
<1>1. n \in Nat /\ ExistsBijection(1..n, S)
  BY FS_CardinalityType
<1>2. \E f \in [1..n -> S] : IsInjective(f)
  BY <1>1 DEF ExistsBijection, Bijection, Injection
<1> DEFINE f == SetToSeq(S)
<1>3. f \in [1..n -> S] /\ IsInjective(f)
  BY <1>2 DEF SetToSeq
<1>4. IsFiniteSet(1..n) /\ Cardinality(1..n) = n
  BY <1>1, FS_CountingElements, FS_Interval
<1> HIDE DEF f, n
<1>5. f \in Injection(1..n, S)
  BY <1>3 DEF Injection
<1>6. f \in Surjection(1..n, S)
  BY <1>4, <1>5, FS_Injection DEF n
<1> QED
  BY <1>1, <1>3, <1>6 DEF Surjection, f, n

\* Simple paths are no longer than there are systems.
LEMMA SimpleIsShort ==
  ASSUME NEW E, NEW p, Simple(E, p)
  PROVE  Len(p) <= Cardinality(Systems) /\ Cardinality(Systems) \in Nat
<1> DEFINE n == Len(p)
<1>1. n \in Nat /\ p \in [1..n -> Systems]
  BY LenProperties DEF Simple
<1>2. p \in Injection(1..n, Systems)
  BY <1>1 DEF Simple, Injection, IsInjective
<1>3. Cardinality(1..n) = n
  BY <1>1, FS_Interval
<1>4. Cardinality(Systems) \in Nat
  BY FS_CardinalityType
<1> QED
  BY <1>2, <1>3, <1>4, FS_Injection

\* The reference set of paths, in these terms.
LEMMA SimplePathsAre ==
  ASSUME NEW p
  PROVE  p \in SimplePaths <=> Simple(edges, p)
<1>1. ASSUME p \in SimplePaths PROVE Simple(edges, p)
  <2>1. Cardinality(Systems) \in Nat
    BY FS_CardinalityType
  <2>2. PICK n \in 1..Cardinality(Systems) : p \in [1..n -> Systems]
    BY <1>1 DEF SimplePaths
  <2>3. p \in Seq(Systems) /\ Len(p) = n /\ DOMAIN p = 1..n /\ n \in Nat \ {0}
    BY <2>1, <2>2
  <2> QED
    BY <1>1, <2>3 DEF SimplePaths, Simple
<1>2. ASSUME Simple(edges, p) PROVE p \in SimplePaths
  <2>0. Len(p) \in Nat \ {0} /\ Len(p) <= Cardinality(Systems) /\ Cardinality(Systems) \in Nat
    BY <1>2, SimpleIsShort DEF Simple
  <2>1. Len(p) \in 1..Cardinality(Systems)
    BY <2>0
  <2>2. p \in [1..Len(p) -> Systems] /\ DOMAIN p = 1..Len(p)
    BY <1>2, LenProperties DEF Simple
  <2>3. p \in UNION {[1..n -> Systems] : n \in 1..Cardinality(Systems)}
    BY <2>1, <2>2
  <2> QED
    BY <1>2, <2>2, <2>3 DEF SimplePaths, Simple
<1> QED
  BY <1>1, <1>2

\* A simple path goes on to any child that is not on it.
LEMMA SimpleAppend ==
  ASSUME NEW E, NEW p, Simple(E, p), NEW t \in Systems,
         <<Last(p), t>> \in E, \A i \in 1..Len(p) : p[i] # t
  PROVE  /\ Simple(E, Append(p, t))
         /\ Len(Append(p, t)) = Len(p) + 1
         /\ \A i \in 1..Len(p) : Append(p, t)[i] = p[i]
         /\ Append(p, t)[Len(p) + 1] = t
<1> DEFINE q == Append(p, t)
<1>1. p \in Seq(Systems) /\ Len(p) \in Nat \ {0}
  BY DEF Simple
<1>2. /\ q \in Seq(Systems) /\ Len(q) = Len(p) + 1
      /\ \A i \in 1..Len(p) : q[i] = p[i]
      /\ q[Len(p) + 1] = t
  BY <1>1, AppendProperties
<1> HIDE DEF q
<1>3. q[1] = Subject
  BY <1>1, <1>2 DEF Simple
<1>4. ASSUME NEW i \in 1..Len(q), NEW j \in 1..Len(q), q[i] = q[j]
      PROVE  i = j
  <2>1. i \in 1..Len(p) \/ i = Len(p) + 1
    BY <1>1, <1>2
  <2>2. j \in 1..Len(p) \/ j = Len(p) + 1
    BY <1>1, <1>2
  <2> QED
    BY <1>2, <1>4, <2>1, <2>2 DEF Simple
<1>5. ASSUME NEW i \in 1..(Len(q) - 1)
      PROVE  <<q[i], q[i + 1]>> \in E
  <2>1. CASE i \in 1..(Len(p) - 1)
    <3>1. i \in 1..Len(p) /\ i + 1 \in 1..Len(p)
      BY <1>1, <2>1
    <3> QED
      BY <1>2, <2>1, <3>1 DEF Simple
  <2>2. CASE i = Len(p)
    <3>1. i \in 1..Len(p)
      BY <1>1, <2>2
    <3> QED
      BY <1>2, <2>2, <3>1 DEF Last
  <2>3. i \in 1..(Len(p) - 1) \/ i = Len(p)
    BY <1>1, <1>2
  <2> QED
    BY <2>1, <2>2, <2>3
<1>6. Simple(E, q)
  BY <1>1, <1>2, <1>3, <1>4, <1>5 DEF Simple
<1> QED
  BY <1>2, <1>6 DEF q

\* So does every beginning of it.
LEMMA SimplePrefix ==
  ASSUME NEW E, NEW p, Simple(E, p), NEW k \in 1..Len(p)
  PROVE  /\ Simple(E, SubSeq(p, 1, k))
         /\ Len(SubSeq(p, 1, k)) = k
         /\ \A i \in 1..k : SubSeq(p, 1, k)[i] = p[i]
<1> DEFINE q == SubSeq(p, 1, k)
<1>1. p \in Seq(Systems) /\ Len(p) \in Nat \ {0} /\ k \in Nat \ {0} /\ k <= Len(p)
  BY DEF Simple
<1>2. q \in Seq(Systems) /\ Len(q) = k /\ \A i \in 1..k : q[i] = p[i]
  BY <1>1, SubSeqProperties
<1> HIDE DEF q
<1>3. \A i \in 1..k : i \in 1..Len(p)
  BY <1>1
<1>4. \A i \in 1..(k - 1) : i \in 1..k /\ i + 1 \in 1..k /\ i \in 1..(Len(p) - 1)
  BY <1>1
<1>5. Simple(E, q)
  BY <1>1, <1>2, <1>3, <1>4 DEF Simple
<1> QED
  BY <1>2, <1>5 DEF q

\* Every simple path begins one that cannot go on.
LEMMA SimpleExtends ==
  ASSUME NEW E, NEW p, Simple(E, p)
  PROVE  \E q : /\ Simple(E, q) /\ Len(q) >= Len(p)
                /\ \A i \in 1..Len(p) : q[i] = p[i]
                /\ \A t \in Systems : <<Last(q), t>> \in E =>
                     \E i \in 1..Len(q) : q[i] = t
<1> DEFINE N == Cardinality(Systems)
           Ext(q) == /\ Simple(E, q) /\ Len(q) >= Len(p)
                     /\ \A i \in 1..Len(p) : q[i] = p[i]
           T == {d \in Nat : \E q \in Seq(Systems) : Ext(q) /\ d = N - Len(q)}
<1>1. N \in Nat /\ Len(p) \in Nat /\ p \in Seq(Systems)
  BY SimpleIsShort DEF Simple
<1>2. \A q : Ext(q) => q \in Seq(Systems) /\ Len(q) \in Nat /\ N - Len(q) \in Nat
  <2> SUFFICES ASSUME NEW q, Ext(q)
               PROVE  q \in Seq(Systems) /\ Len(q) \in Nat /\ N - Len(q) \in Nat
    OBVIOUS
  <2>1. q \in Seq(Systems) /\ Len(q) \in Nat
    BY DEF Simple
  <2>2. Len(q) <= N
    BY SimpleIsShort
  <2> QED
    BY <1>1, <2>1, <2>2
<1>3. Ext(p)
  BY <1>1
<1> HIDE DEF Ext, N
<1>4. T \subseteq Nat /\ T # {}
  BY <1>2, <1>3
<1>5. PICK d \in T : \A e \in T : d <= e
  BY <1>4, LeastNat
<1>6. PICK q \in Seq(Systems) : Ext(q) /\ d = N - Len(q)
  OBVIOUS
<1>7. ASSUME NEW t \in Systems, <<Last(q), t>> \in E, \A i \in 1..Len(q) : q[i] # t
      PROVE  FALSE
  <2> DEFINE r == Append(q, t)
  <2>1. Simple(E, q) /\ Len(q) \in Nat /\ Len(q) >= Len(p)
    BY <1>6, <1>2 DEF Ext
  <2>2. /\ Simple(E, r) /\ Len(r) = Len(q) + 1
        /\ \A i \in 1..Len(q) : r[i] = q[i]
    BY <1>7, <2>1, SimpleAppend
  <2> HIDE DEF r
  <2>3. \A i \in 1..Len(p) : i \in 1..Len(q)
    BY <1>1, <2>1
  <2>4. Len(r) >= Len(p)
    BY <1>1, <2>1, <2>2
  <2>5. Ext(r)
    BY <1>6, <2>2, <2>3, <2>4 DEF Ext
  <2>6. N - Len(r) \in T
    BY <1>2, <2>5
  <2>7. d <= N - Len(r)
    BY <1>5, <2>6
  <2> QED
    BY <1>1, <1>6, <2>1, <2>2, <2>7
<1>8. \A t \in Systems : <<Last(q), t>> \in E => \E i \in 1..Len(q) : q[i] = t
  BY <1>7
<1> QED
  BY <1>6, <1>8 DEF Ext

-----------------------------------------------------------------------------
(* Screening, evidence and agents.                                         *)

\* The request reads nothing before it is screened, and only a harmless
\* summary gets further.
Screening ==
  /\ pc = "screen" => ~memory /\ pending = {} /\ \A a \in AgentIds : agent[a] = "waiting"
  /\ pc \in {"retrieve", "collect", "derive", "agents"} => guard = "NO_MATCH_FOUND"
  /\ ScreenedFirst

\* All responses are there and good once the search has begun.
Collected ==
  /\ memory \in BOOLEAN /\ bad \in BOOLEAN
  /\ pc \in {"derive", "agents", "answered"} => pending = {} /\ ~bad

\* The agents that are done are those that finished, each once, and none
\* started before its predecessors were done.
Agents ==
  /\ agent \in [AgentIds -> {"waiting", "running", "done", "failed"}]
  /\ order \in Seq(AgentIds)
  /\ \A i, j \in 1..Len(order) : order[i] = order[j] => i = j
  /\ \A a \in AgentIds : agent[a] = "done" <=> \E i \in 1..Len(order) : order[i] = a
  /\ \A a \in AgentIds : agent[a] # "waiting" => Ready(a)
  /\ \A i, j \in 1..Len(order) : order[i] \in Predecessors[order[j]] => i < j

\* An answer comes after the last agent.
Planned == pc = "answered" => agent["verification"] = "done"

WorkInv == Screening /\ Collected /\ Agents /\ Planned

\* Initially nothing is read, running or planned.
LEMMA InitWork == Init => WorkInv
<1> SUFFICES ASSUME Init PROVE WorkInv
  OBVIOUS
<1>1. Screening
  BY DEF Init, Screening, ScreenedFirst
<1>2. Collected
  BY DEF Init, Collected
<1>3. Agents
  <2>1. order = <<>> /\ Len(order) = 0 /\ order \in Seq(AgentIds)
    BY DEF Init
  <2>2. agent = [a \in AgentIds |-> "waiting"]
    BY DEF Init
  <2> QED
    BY <2>1, <2>2 DEF Agents
<1>4. Planned
  BY DEF Init, Planned
<1> QED
  BY <1>1, <1>2, <1>3, <1>4 DEF WorkInv

\* Steps that leave the agents alone.
LEMMA AgentsUnchanged ==
  ASSUME Agents, UNCHANGED <<agent, order>>
  PROVE  Agents'
  BY DEF Agents, Ready

\* A started agent had all its predecessors.
LEMMA AgentStarts ==
  ASSUME Agents, NEW a \in AgentIds, start_agent(a)
  PROVE  Agents'
<1>1. /\ agent[a] = "waiting" /\ Ready(a)
      /\ agent' = [agent EXCEPT ![a] = "running"] /\ order' = order
  BY DEF start_agent
<1>2. /\ agent' \in [AgentIds -> {"waiting", "running", "done", "failed"}]
      /\ agent'[a] = "running" /\ \A b \in AgentIds \ {a} : agent'[b] = agent[b]
  BY <1>1 DEF Agents
<1>3. \A b \in AgentIds : agent'[b] = "done" <=> agent[b] = "done"
  BY <1>1, <1>2
<1>4. \A b \in AgentIds : Predecessors[b] \subseteq AgentIds
  BY DEF Predecessors, AgentIds
<1>5. \A b \in AgentIds : Ready(b)' <=> Ready(b)
  BY <1>3, <1>4 DEF Ready
<1> QED
  BY <1>1, <1>2, <1>3, <1>5 DEF Agents

\* A failed agent was running.
LEMMA AgentFails ==
  ASSUME Agents, NEW a \in AgentIds, fail_agent(a)
  PROVE  Agents'
<1>1. /\ agent[a] = "running"
      /\ agent' = [agent EXCEPT ![a] = "failed"] /\ order' = order
  BY DEF fail_agent
<1>2. /\ agent' \in [AgentIds -> {"waiting", "running", "done", "failed"}]
      /\ agent'[a] = "failed" /\ \A b \in AgentIds \ {a} : agent'[b] = agent[b]
  BY <1>1 DEF Agents
<1>3. \A b \in AgentIds : agent'[b] = "done" <=> agent[b] = "done"
  BY <1>1, <1>2
<1>4. \A b \in AgentIds : Predecessors[b] \subseteq AgentIds
  BY DEF Predecessors, AgentIds
<1>5. \A b \in AgentIds : Ready(b)' <=> Ready(b)
  BY <1>3, <1>4 DEF Ready
<1> QED
  BY <1>1, <1>2, <1>3, <1>5 DEF Agents

\* An agent that finishes is new in the order, and nobody who is in it built
\* on this one.
LEMMA AgentFinishes ==
  ASSUME Agents, NEW a \in AgentIds, finish_agent(a)
  PROVE  Agents'
<1>1. /\ agent[a] = "running"
      /\ agent' = [agent EXCEPT ![a] = "done"] /\ order' = Append(order, a)
  BY DEF finish_agent
<1>2. /\ agent' \in [AgentIds -> {"waiting", "running", "done", "failed"}]
      /\ agent'[a] = "done" /\ \A b \in AgentIds \ {a} : agent'[b] = agent[b]
  BY <1>1 DEF Agents
<1> DEFINE n == Len(order)
<1>3. order \in Seq(AgentIds) /\ n \in Nat
  BY DEF Agents
<1>4. /\ order' \in Seq(AgentIds) /\ Len(order') = n + 1
      /\ \A i \in 1..n : order'[i] = order[i]
      /\ order'[n + 1] = a
  BY <1>1, <1>3, AppendProperties
<1>5. \A i \in 1..Len(order') : i \in 1..n \/ i = n + 1
  BY <1>3, <1>4
<1>6. \A i \in 1..n : i \in 1..Len(order') /\ order[i] \in AgentIds /\ i < n + 1
  BY <1>3, <1>4
<1>7. n + 1 \in 1..Len(order')
  BY <1>3, <1>4
<1> HIDE DEF n
<1>8. \A i \in 1..n : order[i] # a /\ agent[order[i]] = "done"
  BY <1>1, <1>6 DEF Agents, n
<1>9. \A i, j \in 1..Len(order') : order'[i] = order'[j] => i = j
  BY <1>4, <1>5, <1>8 DEF Agents, n
<1>10. \A b \in AgentIds : agent'[b] = "done" <=> \E i \in 1..Len(order') : order'[i] = b
  <2> SUFFICES ASSUME NEW b \in AgentIds
               PROVE  agent'[b] = "done" <=> \E i \in 1..Len(order') : order'[i] = b
    OBVIOUS
  <2>1. CASE b = a
    BY <1>2, <1>4, <1>7, <2>1
  <2>2. CASE b # a
    <3>1. agent'[b] = "done" <=> \E i \in 1..n : order[i] = b
      BY <1>2, <2>2 DEF Agents, n
    <3>2. (\E i \in 1..n : order[i] = b) <=> \E i \in 1..Len(order') : order'[i] = b
      BY <1>4, <1>5, <1>6, <2>2
    <3> QED
      BY <3>1, <3>2
  <2> QED
    BY <2>1, <2>2
<1>11. \A b \in AgentIds : Predecessors[b] \subseteq AgentIds
  BY DEF Predecessors, AgentIds
<1>12. \A b \in AgentIds : agent[b] = "done" => agent'[b] = "done"
  BY <1>2
<1>13. \A b \in AgentIds : Ready(b) => Ready(b)'
  BY <1>11, <1>12 DEF Ready
<1>14. \A b \in AgentIds : agent'[b] # "waiting" => Ready(b)'
  BY <1>1, <1>2, <1>13 DEF Agents
<1>15. \A b \in AgentIds : agent[b] # "waiting" => a \notin Predecessors[b]
  BY <1>1 DEF Agents, Ready
<1>16. ASSUME NEW i \in 1..Len(order'), NEW j \in 1..Len(order'),
              order'[i] \in Predecessors[order'[j]]
       PROVE  i < j
  <2>1. CASE i \in 1..n /\ j \in 1..n
    BY <1>4, <1>16, <2>1 DEF Agents, n
  <2>2. CASE i \in 1..n /\ j = n + 1
    BY <1>6, <2>2
  <2>3. CASE i = n + 1
    <3>1. order'[i] = a
      BY <1>4, <2>3
    <3>2. CASE j \in 1..n
      <4>1. order'[j] = order[j] /\ agent[order[j]] = "done" /\ order[j] \in AgentIds
        BY <1>4, <1>6, <1>8, <3>2
      <4> QED
        BY <1>15, <1>16, <3>1, <4>1
    <3>3. CASE j = n + 1
      BY <1>1, <1>4, <1>15, <1>16, <3>1, <3>3
    <3> QED
      BY <1>5, <3>2, <3>3
  <2> QED
    BY <1>5, <2>1, <2>2, <2>3
<1> QED
  BY <1>2, <1>4, <1>9, <1>10, <1>14, <1>16 DEF Agents

\* Every step keeps the work in order.
LEMMA NextWork ==
  ASSUME WorkInv, [Next]_vars
  PROVE  WorkInv'
<1>0. Screening /\ Collected /\ Agents /\ Planned
  BY DEF WorkInv
<1>1. CASE UNCHANGED vars
  <2>1. Agents'
    BY <1>0, <1>1, AgentsUnchanged DEF vars
  <2>2. Screening' /\ Collected' /\ Planned'
    BY <1>0, <1>1 DEF vars, Screening, ScreenedFirst, Collected, Planned
  <2> QED
    BY <2>1, <2>2 DEF WorkInv
<1>2. ASSUME NEW d \in ManagedDecisions, screen(d)
      PROVE  WorkInv'
  <2>1. Agents'
    BY <1>0, <1>2, AgentsUnchanged DEF screen, agentVars
  <2>2. /\ pc = "screen" /\ guard' = d /\ UNCHANGED <<memory, pending, bad, agent>>
        /\ pc' \in {"governance_unavailable", "blocked", "retrieve"}
        /\ pc' = "retrieve" => d = "NO_MATCH_FOUND"
    BY <1>2 DEF screen, agentVars, Undecided, ManagedDecisions, LocalDecisions
  <2>3. Screening' /\ Collected' /\ Planned'
    BY <1>0, <2>2 DEF Screening, ScreenedFirst, Collected, Planned
  <2> QED
    BY <2>1, <2>3 DEF WorkInv
<1>3. ASSUME NEW found \in BOOLEAN, retrieve(found)
      PROVE  WorkInv'
  <2>1. Agents'
    BY <1>0, <1>3, AgentsUnchanged DEF retrieve, agentVars
  <2>2. Screening' /\ Collected' /\ Planned'
    BY <1>0, <1>3 DEF retrieve, agentVars, Screening, ScreenedFirst, Collected, Planned
  <2> QED
    BY <2>1, <2>2 DEF WorkInv
<1>4. CASE retrieve_fails
  <2>1. Agents'
    BY <1>0, <1>4, AgentsUnchanged DEF retrieve_fails, agentVars
  <2>2. Screening' /\ Collected' /\ Planned'
    BY <1>0, <1>4 DEF retrieve_fails, agentVars, Screening, ScreenedFirst, Collected, Planned
  <2> QED
    BY <2>1, <2>2 DEF WorkInv
<1>5. ASSUME NEW e \in EvidenceRequests, NEW ok \in BOOLEAN, fetched(e, ok)
      PROVE  WorkInv'
  <2>1. Agents'
    BY <1>0, <1>5, AgentsUnchanged DEF fetched, agentVars
  <2>2. /\ e \in pending /\ pending' \subseteq pending /\ bad' \in BOOLEAN
        /\ UNCHANGED <<pc, guard, memory, agent>>
    BY <1>5 DEF fetched, agentVars
  <2>3. pc \notin {"screen", "derive", "agents", "answered"}
    BY <1>0, <2>2 DEF Screening, Collected
  <2>4. Screening' /\ Collected' /\ Planned'
    BY <1>0, <2>2, <2>3 DEF Screening, ScreenedFirst, Collected, Planned
  <2> QED
    BY <2>1, <2>4 DEF WorkInv
<1>6. ASSUME NEW e \in EvidenceRequests, fetch_fails(e)
      PROVE  WorkInv'
  <2>1. Agents'
    BY <1>0, <1>6, AgentsUnchanged DEF fetch_fails, agentVars
  <2>2. /\ e \in pending /\ pending' \subseteq pending /\ pc' = "evidence_unavailable"
        /\ UNCHANGED <<guard, memory, bad, agent>>
    BY <1>6 DEF fetch_fails, agentVars
  <2>3. Screening' /\ Collected' /\ Planned'
    BY <1>0, <2>2 DEF Screening, ScreenedFirst, Collected, Planned
  <2> QED
    BY <2>1, <2>3 DEF WorkInv
<1>7. ASSUME NEW catalog \in Catalogs, collected(catalog)
      PROVE  WorkInv'
  <2>1. Agents'
    BY <1>0, <1>7, AgentsUnchanged DEF collected, agentVars
  <2>2. /\ pc = "collect" /\ pending = {}
        /\ pc' = "evidence_unavailable" \/ (pc' = "derive" /\ ~bad)
        /\ UNCHANGED <<guard, memory, pending, bad, agent>>
    BY <1>7 DEF collected, agentVars
  <2>3. Screening' /\ Collected' /\ Planned'
    BY <1>0, <2>2 DEF Screening, ScreenedFirst, Collected, Planned
  <2> QED
    BY <2>1, <2>3 DEF WorkInv
<1>8. CASE dependency_path \/ derive_outputs
  <2>1. /\ pc = "derive" /\ pc' \in {"derive", "agents", "error"}
        /\ UNCHANGED <<guard, memory, pending, bad, agent, order>>
    BY <1>8 DEF dependency_path, derive_outputs, agentVars
  <2>2. Agents'
    BY <1>0, <2>1, AgentsUnchanged
  <2>3. Screening' /\ Collected' /\ Planned'
    BY <1>0, <2>1 DEF Screening, ScreenedFirst, Collected, Planned
  <2> QED
    BY <2>2, <2>3 DEF WorkInv
<1>9. ASSUME NEW a \in AgentIds, start_agent(a) \/ finish_agent(a) \/ fail_agent(a)
      PROVE  WorkInv'
  <2>1. Agents'
    BY <1>0, <1>9, AgentStarts, AgentFinishes, AgentFails
  <2>2. /\ pc = "agents" /\ pc' \in {"agents", "error"}
        /\ UNCHANGED <<guard, memory, pending, bad>>
    BY <1>9 DEF start_agent, finish_agent, fail_agent
  <2>3. Screening' /\ Collected' /\ Planned'
    BY <1>0, <2>2 DEF Screening, ScreenedFirst, Collected, Planned
  <2> QED
    BY <2>1, <2>3 DEF WorkInv
<1>10. CASE answer \/ answer_fails
  <2>1. Agents'
    BY <1>0, <1>10, AgentsUnchanged DEF answer, answer_fails, agentVars
  <2>2. Screening' /\ Collected'
    BY <1>0, <1>10 DEF answer, answer_fails, agentVars, Screening, ScreenedFirst, Collected
  <2>3. Planned'
    BY <1>10 DEF answer, answer_fails, agentVars, Planned
  <2> QED
    BY <2>1, <2>2, <2>3 DEF WorkInv
<1> QED
  BY <1>1, <1>2, <1>3, <1>4, <1>5, <1>6, <1>7, <1>8, <1>9, <1>10 DEF Next, Step

-----------------------------------------------------------------------------
(* The path search.                                                        *)

InQueue(p) == \E i \in 1..Len(queue) : queue[i] = p

\* What is queued or found is a path of the catalog, and until the queue is
\* empty every path to a leaf is found or has a beginning in the queue.
SearchInv ==
  /\ queue \in Seq(Seq(Systems))
  /\ \A i \in 1..Len(queue) : Simple(edges, queue[i])
  /\ \A p \in paths : Simple(edges, p) /\ Len(p) > 1 /\ Leaf(edges, Last(p))
  /\ pc \in {"screen", "retrieve", "collect"} => queue = <<>> /\ paths = {}
  /\ pc = "derive" =>
       \A p \in SimplePaths :
         Len(p) > 1 /\ Leaf(edges, Last(p)) =>
           p \in paths \/ \E k \in 1..Len(p) : InQueue(SubSeq(p, 1, k))

\* The next paths are those that go one child further.
LEMMA NextPathsAre ==
  ASSUME NEW path, Simple(edges, path)
  PROVE  /\ NextPaths(path) \in Seq(Seq(Systems))
         /\ \A i \in 1..Len(NextPaths(path)) : Simple(edges, NextPaths(path)[i])
         /\ \A t \in Systems :
              <<Last(path), t>> \in edges /\ (\A i \in 1..Len(path) : path[i] # t) =>
                \E i \in 1..Len(NextPaths(path)) : NextPaths(path)[i] = Append(path, t)
<1> DEFINE next == {t \in Children(Last(path)) : ~OnPath(t, path)}
           n == Cardinality(next)
           f == SetToSeq(next)
<1>1. path \in Seq(Systems) /\ DOMAIN path = 1..Len(path)
  BY LenProperties DEF Simple
<1>2. \A t : t \in next <=> /\ t \in Systems /\ <<Last(path), t>> \in edges
                            /\ \A i \in 1..Len(path) : path[i] # t
  BY <1>1 DEF Children, OnPath
<1>3. IsFiniteSet(next)
  BY FS_Subset DEF Children
<1>4. NextPaths(path) = [i \in 1..n |-> Append(path, f[i])]
  BY DEF NextPaths
<1> HIDE DEF next
<1>5. n \in Nat /\ f \in [1..n -> next] /\ \A t \in next : \E i \in 1..n : f[i] = t
  BY <1>3, SetToSeqCovers
<1> HIDE DEF n, f
<1>6. ASSUME NEW i \in 1..n
      PROVE  Simple(edges, Append(path, f[i])) /\ Append(path, f[i]) \in Seq(Systems)
  <2>1. f[i] \in next
    BY <1>5
  <2>2. /\ f[i] \in Systems /\ <<Last(path), f[i]>> \in edges
        /\ \A j \in 1..Len(path) : path[j] # f[i]
    BY <1>2, <2>1
  <2>3. Simple(edges, Append(path, f[i]))
    BY <2>2, SimpleAppend
  <2> QED
    BY <2>3 DEF Simple
<1>7. NextPaths(path) \in Seq(Seq(Systems)) /\ Len(NextPaths(path)) = n
  BY <1>4, <1>5, <1>6
<1>8. \A i \in 1..n : NextPaths(path)[i] = Append(path, f[i])
  BY <1>4
<1>9. ASSUME NEW t \in Systems, <<Last(path), t>> \in edges,
             \A i \in 1..Len(path) : path[i] # t
      PROVE  \E i \in 1..n : NextPaths(path)[i] = Append(path, t)
  <2>1. t \in next
    BY <1>2, <1>9
  <2>2. PICK i \in 1..n : f[i] = t
    BY <1>5, <2>1
  <2> QED
    BY <1>8, <2>2
<1> QED
  BY <1>6, <1>7, <1>8, <1>9

\* The elements of a queue q after its head has been replaced by r.
Replaced(S, q, r, c) ==
  /\ c \in Seq(S)
  /\ \A i \in 1..Len(c) : \/ \E j \in 1..Len(q) : c[i] = q[j]
                         \/ \E j \in 1..Len(r) : c[i] = r[j]
  /\ \A j \in 1..Len(q) : q[j] = Head(q) \/ \E i \in 1..Len(c) : c[i] = q[j]
  /\ \A j \in 1..Len(r) : \E i \in 1..Len(c) : c[i] = r[j]

\* That is what a popleft and the appends of its children do.
LEMMA QueueElements ==
  ASSUME NEW S, NEW q \in Seq(S), q # <<>>, NEW r \in Seq(S), NEW c, c = Tail(q) \o r
  PROVE  Replaced(S, q, r, c)
<1> DEFINE t == Tail(q)
           n == Len(q)
           m == Len(r)
<1>0. c = t \o r
  OBVIOUS
<1>1. n \in Nat /\ m \in Nat /\ n >= 1
  BY EmptySeq, LenProperties
<1>2. t \in Seq(S) /\ Len(t) = n - 1 /\ \A i \in 1..(n - 1) : t[i] = q[i + 1]
  BY HeadTailProperties
<1>3. Head(q) = q[1]
  BY HeadTailProperties
<1> HIDE DEF t, n, m
<1>4. /\ c \in Seq(S) /\ Len(c) = (n - 1) + m
      /\ \A i \in 1..((n - 1) + m) :
           c[i] = IF i <= n - 1 THEN t[i] ELSE r[i - (n - 1)]
  <2>1. /\ c \in Seq(S) /\ Len(c) = Len(t) + Len(r)
        /\ \A i \in 1..(Len(t) + Len(r)) :
             c[i] = IF i <= Len(t) THEN t[i] ELSE r[i - Len(t)]
    BY <1>0, <1>2, ConcatProperties
  <2>2. Len(t) = n - 1 /\ Len(r) = m
    BY <1>2 DEF m
  <2> QED
    BY <2>1, <2>2
<1>5. ASSUME NEW i \in 1..Len(c)
      PROVE  (\E j \in 1..n : c[i] = q[j]) \/ (\E j \in 1..m : c[i] = r[j])
  <2>1. CASE i <= n - 1
    <3>1. i \in 1..(n - 1) /\ i + 1 \in 1..n /\ i \in 1..((n - 1) + m)
      BY <1>1, <1>4, <2>1
    <3>2. c[i] = q[i + 1]
      BY <1>2, <1>4, <2>1, <3>1
    <3> QED
      BY <3>1, <3>2
  <2>2. CASE ~(i <= n - 1)
    <3>1. i - (n - 1) \in 1..m /\ i \in 1..((n - 1) + m)
      BY <1>1, <1>4, <2>2
    <3>2. c[i] = r[i - (n - 1)]
      BY <1>4, <2>2, <3>1
    <3> QED
      BY <3>1, <3>2
  <2> QED
    BY <2>1, <2>2
<1>6. ASSUME NEW j \in 1..n, q[j] # Head(q)
      PROVE  \E i \in 1..Len(c) : c[i] = q[j]
  <2>1. j # 1
    BY <1>3, <1>6
  <2>2. j - 1 \in 1..(n - 1) /\ j - 1 \in 1..((n - 1) + m) /\ (j - 1) + 1 = j /\ j - 1 <= n - 1
    BY <1>1, <2>1
  <2>3. c[j - 1] = q[j]
    BY <1>2, <1>4, <2>2
  <2> QED
    BY <1>4, <2>2, <2>3
<1>7. ASSUME NEW j \in 1..m
      PROVE  \E i \in 1..Len(c) : c[i] = r[j]
  <2> DEFINE i == (n - 1) + j
  <2>1. i \in 1..((n - 1) + m) /\ ~(i <= n - 1) /\ i - (n - 1) = j
    BY <1>1
  <2> HIDE DEF i
  <2>2. c[i] = r[j]
    BY <1>4, <2>1
  <2> QED
    BY <1>4, <2>1, <2>2
<1> QED
  BY <1>4, <1>5, <1>6, <1>7 DEF n, m, Replaced

\* One round of the loop.
LEMMA SearchRound ==
  ASSUME SearchInv, dependency_path
  PROVE  SearchInv'
<1> DEFINE path == Head(queue)
           next == NextPaths(path)
<1>1. /\ pc = "derive" /\ queue # <<>> /\ UNCHANGED <<pc, edges>>
      /\ paths' = IF Children(Last(path)) = {} /\ Len(path) > 1
                     THEN paths \cup {path} ELSE paths
      /\ queue' = Tail(queue) \o next
  BY DEF dependency_path
<1>2. queue \in Seq(Seq(Systems)) /\ 1 \in 1..Len(queue) /\ path = queue[1]
  <2>1. queue \in Seq(Seq(Systems))
    BY DEF SearchInv
  <2>2. Len(queue) \in Nat /\ Len(queue) >= 1
    BY <1>1, <2>1, EmptySeq, LenProperties
  <2> QED
    BY <1>1, <2>1, <2>2, HeadTailProperties
<1>3. Simple(edges, path)
  BY <1>2 DEF SearchInv
<1>c. Children(Last(path)) = {} <=> Leaf(edges, Last(path))
  BY DEF Children, Leaf
<1>4. /\ next \in Seq(Seq(Systems))
      /\ \A i \in 1..Len(next) : Simple(edges, next[i])
      /\ \A t \in Systems :
           <<Last(path), t>> \in edges /\ (\A i \in 1..Len(path) : path[i] # t) =>
             \E i \in 1..Len(next) : next[i] = Append(path, t)
  BY <1>3, NextPathsAre
<1> HIDE DEF path, next
<1>5. /\ queue' \in Seq(Seq(Systems))
      /\ \A i \in 1..Len(queue') : \/ \E j \in 1..Len(queue) : queue'[i] = queue[j]
                                   \/ \E j \in 1..Len(next) : queue'[i] = next[j]
      /\ \A j \in 1..Len(queue) : queue[j] = path \/
           \E i \in 1..Len(queue') : queue'[i] = queue[j]
      /\ \A j \in 1..Len(next) : \E i \in 1..Len(queue') : queue'[i] = next[j]
  <2>1. queue \in Seq(Seq(Systems)) /\ queue # <<>> /\ next \in Seq(Seq(Systems))
    BY <1>1, <1>2, <1>4
  <2>2. queue' = Tail(queue) \o next
    BY <1>1
  <2>3. Replaced(Seq(Systems), queue, next, queue')
    BY <2>1, <2>2, QueueElements, Zenon
  <2> QED
    BY <2>3 DEF path, Replaced
<1>6. \A i \in 1..Len(queue') : Simple(edges, queue'[i])
  BY <1>4, <1>5 DEF SearchInv
<1>7. \A p \in paths' : Simple(edges, p) /\ Len(p) > 1 /\ Leaf(edges, Last(p))
  BY <1>1, <1>3, <1>c DEF SearchInv
<1>8. ASSUME NEW p, Simple(edges, p), Len(p) > 1, Leaf(edges, Last(p)), p \notin paths'
      PROVE  \E k \in 1..Len(p) : InQueue(SubSeq(p, 1, k))'
  <2>1. p \notin paths
    BY <1>1, <1>8
  <2>2. PICK k \in 1..Len(p) : InQueue(SubSeq(p, 1, k))
    BY <1>1, <1>8, <2>1, SimplePathsAre DEF SearchInv
  <2>3. PICK j \in 1..Len(queue) : queue[j] = SubSeq(p, 1, k)
    BY <2>2 DEF InQueue
  <2>4. CASE queue[j] # path
    BY <1>5, <2>3, <2>4 DEF InQueue
  <2>5. CASE queue[j] = path
    <3>1. /\ Len(path) = k /\ \A i \in 1..k : path[i] = p[i]
          /\ path = SubSeq(p, 1, k)
      BY <1>8, <2>3, <2>5, SimplePrefix
    <3>2. p \in Seq(Systems) /\ Len(p) \in Nat \ {0} /\ k \in Nat \ {0} /\ k <= Len(p)
      BY <1>8 DEF Simple
    <3>3. CASE k = Len(p)
      <4>1. path = p
        BY <3>1, <3>2, <3>3, SubSeqFull
      <4> QED
        BY <1>1, <1>8, <1>c, <4>1
    <3>4. CASE k < Len(p)
      <4> DEFINE t == p[k + 1]
      <4>1. k + 1 \in 1..Len(p) /\ k \in 1..(Len(p) - 1) /\ k \in 1..k
        BY <3>2, <3>4
      <4>2. t \in Systems
        BY <3>2, <4>1
      <4>3. Last(path) = p[k]
        BY <3>1, <4>1 DEF Last
      <4>4. <<Last(path), t>> \in edges
        BY <1>8, <4>1, <4>3 DEF Simple
      <4>5. \A i \in 1..Len(path) : i \in 1..Len(p) /\ i # k + 1 /\ path[i] = p[i]
        BY <3>1, <3>2, <3>4
      <4>6. \A i \in 1..Len(path) : path[i] # t
        BY <1>8, <4>1, <4>5 DEF Simple
      <4>7. PICK i \in 1..Len(next) : next[i] = Append(path, t)
        BY <1>4, <4>2, <4>4, <4>6
      <4>8. Append(path, t) = SubSeq(p, 1, k + 1)
        BY <3>1, <3>2, <4>1
      <4> QED
        BY <1>5, <4>1, <4>7, <4>8 DEF InQueue
    <3> QED
      BY <3>2, <3>3, <3>4
  <2> QED
    BY <2>4, <2>5
<1>9. SimplePaths' = SimplePaths
  BY <1>1 DEF SimplePaths
<1>10. \A p \in SimplePaths' :
         Len(p) > 1 /\ Leaf(edges, Last(p)) =>
           p \in paths' \/ \E k \in 1..Len(p) : InQueue(SubSeq(p, 1, k))'
  BY <1>8, <1>9, SimplePathsAre
<1> QED
  BY <1>1, <1>5, <1>6, <1>7, <1>10 DEF SearchInv

\* Every other step leaves the search alone, or starts it with the subject.
LEMMA NextSearch ==
  ASSUME SearchInv, [Next]_vars
  PROVE  SearchInv'
<1>1. CASE dependency_path
  BY <1>1, SearchRound
<1>2. ASSUME pc' = "evidence_unavailable", UNCHANGED analysisVars
      PROVE  SearchInv'
  <2>1. UNCHANGED <<edges, queue, paths>> /\ pc' = "evidence_unavailable"
    BY <1>2 DEF analysisVars
  <2> QED
    BY <2>1 DEF SearchInv
<1>3. ASSUME NEW catalog \in Catalogs, collected(catalog), pc' = "derive",
             edges' = catalog, queue' = <<<<Subject>>>>, paths' = paths
      PROVE  SearchInv'
  <2>1. paths' = {}
    BY <1>3 DEF collected, SearchInv
  <2> DEFINE one == <<Subject>>
  <2>2. one \in Seq(Systems) /\ Len(one) = 1 /\ one[1] = Subject
    OBVIOUS
  <2>3. queue' \in Seq(Seq(Systems)) /\ Len(queue') = 1 /\ queue'[1] = one
    BY <1>3, <2>2
  <2> HIDE DEF one
  <2>4. Simple(edges', one)
    BY <2>2 DEF Simple
  <2>5. ASSUME NEW p \in SimplePaths', Len(p) > 1
        PROVE  \E k \in 1..Len(p) : InQueue(SubSeq(p, 1, k))'
    <3>1. Simple(edges', p)
      <4>1. (p \in SimplePaths <=> Simple(edges, p))'
        BY SimplePathsAre, PTL
      <4> QED
        BY <4>1, <2>5
    <3>2. Len(p) \in Nat /\ 1 \in 1..Len(p) /\ p[1] = Subject /\ p \in Seq(Systems)
      BY <2>5, <3>1 DEF Simple
    <3>3. /\ Len(SubSeq(p, 1, 1)) = 1 /\ SubSeq(p, 1, 1)[1] = Subject
          /\ SubSeq(p, 1, 1) \in Seq(Systems)
      BY <3>1, <3>2, SimplePrefix DEF Simple
    <3> DEFINE first == SubSeq(p, 1, 1)
    <3> HIDE DEF first
    <3>4. first \in Seq(Systems) /\ Len(first) = 1 /\ first[1] = Subject
      BY <3>3 DEF first
    <3>5. first = one
      BY <2>2, <3>4
    <3>6. InQueue(SubSeq(p, 1, 1))'
      BY <2>3, <3>5 DEF InQueue, first
    <3> QED
      BY <3>2, <3>6
  <2> QED
    BY <1>3, <2>1, <2>3, <2>4, <2>5 DEF SearchInv
<1>4. ASSUME UNCHANGED <<edges, queue, paths>>,
             pc' \in {"screen", "retrieve", "collect"} => pc \in {"screen", "retrieve", "collect"},
             pc' = "derive" => pc = "derive"
      PROVE  SearchInv'
  <2>1. SimplePaths' = SimplePaths
    BY <1>4 DEF SimplePaths
  <2>2. \A p : InQueue(p)' <=> InQueue(p)
    BY <1>4 DEF InQueue
  <2> QED
    BY <1>4, <2>1, <2>2 DEF SearchInv
<1>5. ASSUME NEW d \in ManagedDecisions, screen(d)
      PROVE  SearchInv'
  <2>1. UNCHANGED <<edges, queue, paths>> /\ pc = "screen" /\ pc' # "derive"
    BY <1>5 DEF screen, analysisVars
  <2> QED
    BY <1>4, <2>1
<1>6. CASE retrieve_fails \/ derive_outputs \/ answer \/ answer_fails
             \/ \E found \in BOOLEAN : retrieve(found)
  <2>1. /\ UNCHANGED <<edges, queue, paths>> /\ pc' # "derive"
        /\ pc = "retrieve" \/ pc' \notin {"screen", "retrieve", "collect"}
    BY <1>6 DEF retrieve_fails, retrieve, derive_outputs, answer, answer_fails, analysisVars
  <2> QED
    BY <1>4, <2>1
<1>7. ASSUME NEW e \in EvidenceRequests, (\E ok \in BOOLEAN : fetched(e, ok)) \/ fetch_fails(e)
      PROVE  SearchInv'
  <2>1. UNCHANGED <<edges, queue, paths>> /\ (pc' = pc \/ pc' = "evidence_unavailable")
    BY <1>7 DEF fetched, fetch_fails, analysisVars
  <2> QED
    BY <1>4, <2>1
<1>8. ASSUME NEW a \in AgentIds, start_agent(a) \/ finish_agent(a) \/ fail_agent(a)
      PROVE  SearchInv'
  <2>1. UNCHANGED <<edges, queue, paths>> /\ (pc' = pc \/ pc' = "error")
    BY <1>8 DEF start_agent, finish_agent, fail_agent, analysisVars
  <2> QED
    BY <1>4, <2>1
<1>9. CASE UNCHANGED vars
  BY <1>4, <1>9 DEF vars
<1>10. ASSUME NEW catalog \in Catalogs, collected(catalog)
       PROVE  SearchInv'
  <2>1. \/ pc' = "evidence_unavailable" /\ UNCHANGED analysisVars
        \/ /\ pc' = "derive" /\ edges' = catalog
           /\ queue' = <<<<Subject>>>> /\ paths' = paths
    BY <1>10 DEF collected
  <2> QED
    BY <1>2, <1>3, <1>10, <2>1
<1> QED
  BY <1>1, <1>5, <1>6, <1>7, <1>8, <1>9, <1>10 DEF Next, Step

\* When the queue is empty, the search is exact.
LEMMA SearchIsExact == SearchInv => ImpactIsExact
<1> SUFFICES ASSUME SearchInv, pc = "derive", queue = <<>>
             PROVE  /\ paths = {p \in SimplePaths : Len(p) > 1 /\ Children(Last(p)) = {}}
                    /\ Acyclic => Affected = {Last(p) : p \in SimplePaths}
  BY DEF ImpactIsExact
<1>1. \A s : Children(s) = {} <=> Leaf(edges, s)
  BY DEF Children, Leaf
<1>2. \A p : ~InQueue(p)
  <2>1. Len(queue) = 0
    OBVIOUS
  <2> QED
    BY <2>1 DEF InQueue
<1>3. \A p \in paths : p \in SimplePaths /\ Simple(edges, p)
  BY SimplePathsAre DEF SearchInv
<1>4. \A p \in SimplePaths : Len(p) > 1 /\ Leaf(edges, Last(p)) => p \in paths
  BY <1>2 DEF SearchInv
<1>5. paths = {p \in SimplePaths : Len(p) > 1 /\ Children(Last(p)) = {}}
  BY <1>1, <1>3, <1>4 DEF SearchInv
<1>6. ASSUME NEW s \in Affected
      PROVE  s \in {Last(p) : p \in SimplePaths}
  <2>1. CASE s = Subject
    <3> DEFINE one == <<Subject>>
    <3>1. one \in Seq(Systems) /\ Len(one) = 1 /\ one[1] = Subject
      OBVIOUS
    <3> HIDE DEF one
    <3>2. Simple(edges, one) /\ Last(one) = Subject
      BY <3>1 DEF Simple, Last
    <3> QED
      BY <2>1, <3>2, SimplePathsAre
  <2>2. ASSUME NEW p \in paths, s \in ToSet(p)
        PROVE  s \in {Last(q) : q \in SimplePaths}
    <3>1. Simple(edges, p) /\ DOMAIN p = 1..Len(p)
      BY <1>3, LenProperties DEF Simple
    <3>2. PICK i \in 1..Len(p) : s = p[i]
      BY <2>2, <3>1 DEF ToSet
    <3> DEFINE q == SubSeq(p, 1, i)
    <3>3. Simple(edges, q) /\ Len(q) = i /\ \A j \in 1..i : q[j] = p[j]
      BY <3>1, SimplePrefix
    <3> HIDE DEF q
    <3>4. i \in 1..i
      BY <3>1 DEF Simple
    <3>5. Last(q) = s
      BY <3>2, <3>3, <3>4 DEF Last
    <3> QED
      BY <3>3, <3>5, SimplePathsAre
  <2> QED
    BY <2>1, <2>2 DEF Affected
<1>7. ASSUME Acyclic, NEW p \in SimplePaths
      PROVE  Last(p) \in Affected
  <2>1. Simple(edges, p)
    BY SimplePathsAre
  <2>2. PICK q : /\ Simple(edges, q) /\ Len(q) >= Len(p)
                 /\ \A i \in 1..Len(p) : q[i] = p[i]
                 /\ \A t \in Systems : <<Last(q), t>> \in edges =>
                      \E i \in 1..Len(q) : q[i] = t
    BY <2>1, SimpleExtends
  <2>3. q \in SimplePaths /\ q \in Seq(Systems) /\ DOMAIN q = 1..Len(q)
    BY <2>2, SimplePathsAre, LenProperties DEF Simple
  <2>4. Leaf(edges, Last(q))
    BY <1>7, <2>2, <2>3 DEF Acyclic, Children, OnPath, Leaf
  <2>5. Len(p) \in Nat \ {0} /\ Len(q) \in Nat \ {0} /\ p[1] = Subject
    BY <2>1, <2>2 DEF Simple
  <2>6. Len(p) \in 1..Len(p) /\ Len(p) \in 1..Len(q)
    BY <2>2, <2>5
  <2>7. Last(p) = q[Len(p)]
    BY <2>2, <2>6 DEF Last
  <2>8. CASE Len(q) > 1
    <3>1. q \in paths
      BY <1>4, <2>3, <2>4, <2>8
    <3>2. Last(p) \in ToSet(q)
      BY <2>3, <2>6, <2>7 DEF ToSet
    <3> QED
      BY <3>1, <3>2 DEF Affected
  <2>9. CASE ~(Len(q) > 1)
    <3>0. Len(q) >= Len(p)
      BY <2>2
    <3>n. \A m, n \in Nat \ {0} : n >= m /\ ~(n > 1) => m = 1
      OBVIOUS
    <3>1. Len(p) = 1
      BY <3>0, <3>n, <2>5, <2>9, Zenon
    <3> QED
      BY <2>5, <3>1 DEF Last, Affected
  <2> QED
    BY <2>8, <2>9
<1> QED
  BY <1>5, <1>6, <1>7

-----------------------------------------------------------------------------
(* The results.                                                            *)

\* No system is read and no agent runs for a summary the guard has not passed,
\* whatever the guard answers or fails to answer.
THEOREM GuardComesFirst == Spec => []ScreenedFirst
<1>1. WorkInv => ScreenedFirst
  BY DEF WorkInv, Screening
<1>2. WorkInv /\ [Next]_vars => WorkInv'
  BY NextWork
<1> QED
  BY <1>1, <1>2, InitWork, PTL DEF Spec

\* An answer has the output of all seven agents, each of which ran once and
\* after everything it builds on, and rests on complete evidence.
THEOREM AnswersAreComplete == Spec => []AnalysisIsComplete
<1>1. WorkInv => AnalysisIsComplete
  <2> SUFFICES ASSUME WorkInv, pc = "answered"
               PROVE  /\ ToSet(order) = AgentIds /\ Len(order) = Cardinality(AgentIds)
                      /\ \A i, j \in DOMAIN order :
                           order[i] \in Predecessors[order[j]] => i < j
                      /\ pending = {} /\ ~bad
    BY DEF AnalysisIsComplete
  <2>1. Agents /\ Collected /\ Planned
    BY DEF WorkInv
  <2>2. agent["verification"] = "done"
    BY <2>1 DEF Planned
  <2>3. \A a \in AgentIds : agent[a] = "done" => \A b \in Predecessors[a] : agent[b] = "done"
    BY <2>1 DEF Agents, Ready
  <2>4. \A a \in {"crm", "analytics", "support"} : agent[a] = "done"
    BY <2>2, <2>3 DEF Predecessors, AgentIds
  <2>5. \A a \in {"impact-analysis", "compliance"} : agent[a] = "done"
    BY <2>3, <2>4 DEF Predecessors, AgentIds
  <2>6. agent["orchestrator"] = "done"
    BY <2>3, <2>5 DEF Predecessors, AgentIds
  <2>7. \A a \in AgentIds : agent[a] = "done"
    BY <2>2, <2>4, <2>5, <2>6 DEF AgentIds
  <2>8. order \in Seq(AgentIds) /\ Len(order) \in Nat /\ DOMAIN order = 1..Len(order)
        /\ order \in [1..Len(order) -> AgentIds]
    BY <2>1, LenProperties DEF Agents
  <2>9. ToSet(order) = AgentIds
    BY <2>1, <2>7, <2>8 DEF Agents, ToSet
  <2>10. order \in Bijection(1..Len(order), AgentIds)
    BY <2>1, <2>7, <2>8 DEF Agents, Bijection, Injection, Surjection, IsInjective
  <2>11. Len(order) = Cardinality(AgentIds)
    BY <2>8, <2>10, FS_CountingElements DEF ExistsBijection
  <2> QED
    BY <2>1, <2>2, <2>8, <2>9, <2>11 DEF Agents, Collected
<1>2. WorkInv /\ [Next]_vars => WorkInv'
  BY NextWork
<1> QED
  BY <1>1, <1>2, InitWork, PTL DEF Spec

\* For every finite catalog the loop of _dependency_paths finds exactly the
\* simple paths from the subject to leaves, and in one without cycles the
\* systems on them are exactly those the change reaches.
THEOREM SearchExact == Spec => []ImpactIsExact
<1>1. Init => SearchInv
  <2> SUFFICES ASSUME Init PROVE SearchInv
    OBVIOUS
  <2>1. queue = <<>> /\ paths = {} /\ pc = "screen"
    BY DEF Init
  <2>2. queue \in Seq(Seq(Systems)) /\ Len(queue) = 0
    BY <2>1
  <2> QED
    BY <2>1, <2>2 DEF SearchInv
<1>2. SearchInv /\ [Next]_vars => SearchInv'
  BY NextSearch
<1> QED
  BY <1>1, <1>2, SearchIsExact, PTL DEF Spec
=============================================================================
