------------------------------ MODULE JobPlan ------------------------------
(***************************************************************************)
(* From job.yaml to tasks on slots, as submit_job does it: the definition  *)
(* is validated, sorted and given a partitioning for every edge            *)
(* (StreamGraph), expanded into tasks and channels (ExecutionGraph), and   *)
(* placed (SlotScheduler).                                                 *)
(*                                                                         *)
(* An operator is a record of JobDefinition.operators; an edge is a pair   *)
(* of operator ids; a task is <<job, operator, subtask>>.                  *)
(***************************************************************************)
EXTENDS SlotScheduler, SequencesExt

CONSTANTS
  Offers,        \* what the bundles of the jobs may say: a set of [Jobs -> definitions]
  Keys,          \* keys of records, as their SHA-256 numbers
  NoDefinition

ASSUME PlanAssumption ==
  /\ \A f \in Offers :
       /\ f = [j \in Jobs |-> f[j]]
       /\ \A j \in Jobs :
            /\ f[j].operators \in Seq(Range(f[j].operators))
            /\ NoTask \notin {j} \X {o.id : o \in Range(f[j].operators)} \X Nat
  /\ Keys \subseteq Nat

VARIABLES
  definition,    \* what each job's bundle says; NoDefinition once refused
  answer         \* to POST /jobs: none, accepted, refused

vars == <<slotVars, definition, answer>>

Init ==
  /\ SlotInit
  /\ definition \in Offers
  /\ answer = [j \in Jobs |-> "none"]

-----------------------------------------------------------------------------
(* OperatorSpec and StreamGraph; d is a definition *)

\* validate_operator_contract
WellFormed(o) ==
  /\ o.parallelism \in 1..1024
  /\ o.udf <=> o.type \in {"map", "key_by", "reduce"}
  /\ o.connector = CASE o.type = "source" -> "kafka" [] o.type = "sink" -> "file" [] OTHER -> "none"
  /\ o.window <=> o.type = "reduce"

Ids(d) == {o.id : o \in Range(d.operators)}
Position(d, id) == CHOOSE i \in DOMAIN d.operators : d.operators[i].id = id
Operator(d, id) == d.operators[Position(d, id)]
TypeOf(d, id) == Operator(d, id).type
Edges(d) == Range(d.edges)
Upstream(d, id) == {e[1] : e \in {f \in Edges(d) : f[2] = id}}
Downstream(d, id) == {e[2] : e \in {f \in Edges(d) : f[1] = id}}

UniqueIds(d) == Cardinality(Ids(d)) = Len(d.operators)

ValidEdges(d) ==
  /\ Cardinality(Edges(d)) = Len(d.edges)
  /\ \A e \in Edges(d) : e[1] # e[2] /\ {e[1], e[2]} \subseteq Ids(d)
  /\ \A id \in Ids(d) : /\ TypeOf(d, id) = "source" <=> Upstream(d, id) = {}
                        /\ TypeOf(d, id) = "sink" <=> Downstream(d, id) = {}
  /\ {"source", "sink"} \subseteq {TypeOf(d, id) : id \in Ids(d)}

\* Mutant: an operator is ready when one of its upstream operators is done.
ReadyAfterOne(d, done) ==
  {id \in Ids(d) \ done : Upstream(d, id) = {} \/ Upstream(d, id) \cap done # {}}

\* The operators whose indegree has dropped to 0.
Ready(d, done) == {id \in Ids(d) \ done : Upstream(d, id) \subseteq done}

\* Kahn's algorithm with a heap over the declaration positions; shorter than the
\* operators if there is a cycle.
TopologicalOrder(d) ==
  LET upTo[n \in 0..Len(d.operators)] ==
        IF n = 0 THEN << >>
        ELSE LET done == upTo[n - 1]
                 ready == Ready(d, Range(done))
             IN IF ready = {} THEN done
                ELSE Append(done, CHOOSE id \in ready :
                       \A other \in ready : Position(d, id) <= Position(d, other))
  IN upTo[Len(d.operators)]

\* Mutant: one keyed input makes a stream keyed.
KeyedByOne(d) ==
  FoldLeft(LAMBDA keyed, id :
    IF TypeOf(d, id) = "key_by" \/ Upstream(d, id) \cap keyed # {} THEN keyed \cup {id} ELSE keyed,
    {}, TopologicalOrder(d))

\* The operators whose output is keyed, gathered in topological order.
Keyed(d) ==
  FoldLeft(LAMBDA keyed, id :
    IF \/ TypeOf(d, id) = "key_by"
       \/ TypeOf(d, id) # "source" /\ Upstream(d, id) \subseteq keyed
    THEN keyed \cup {id} ELSE keyed,
    {}, TopologicalOrder(d))

Accepts(d) ==
  /\ \A o \in Range(d.operators) : WellFormed(o)
  /\ UniqueIds(d) /\ ValidEdges(d)
  /\ Len(TopologicalOrder(d)) = Len(d.operators)
  /\ \A id \in Ids(d) : TypeOf(d, id) = "reduce" => id \in Keyed(d)

\* Mutant: equal parallelism is looked at before the key.
PartitioningUnkeyed(d, e) ==
  IF Operator(d, e[1]).parallelism = Operator(d, e[2]).parallelism THEN "forward"
  ELSE IF e[1] \in Keyed(d) THEN "hash" ELSE "rebalance"

\* _normalize_edge
Partitioning(d, e) ==
  IF e[1] \in Keyed(d) THEN "hash"
  ELSE IF Operator(d, e[1]).parallelism = Operator(d, e[2]).parallelism THEN "forward"
  ELSE "rebalance"

-----------------------------------------------------------------------------
(* ExecutionGraph *)

Subtasks(d, id) == 0..(Operator(d, id).parallelism - 1)

TasksOf(j, d, id) == [k \in 1..Operator(d, id).parallelism |-> <<j, id, k - 1>>]

Expanded(j, d, order) == FlattenSeq([i \in DOMAIN order |-> TasksOf(j, d, order[i])])

\* ExecutionGraph.tasks
TaskOrder(j, d) == Expanded(j, d, TopologicalOrder(d))

\* Mutant: upstream operators first.
DeploymentOrderUpstream(j, d) == Expanded(j, d, TopologicalOrder(d))

DeploymentOrder(j, d) == Expanded(j, d, Reverse(TopologicalOrder(d)))

\* Mutant: operators of equal parallelism are connected one to one.
LinkedInPairs(d, e) ==
  {p \in Subtasks(d, e[1]) \X Subtasks(d, e[2]) :
     Subtasks(d, e[1]) = Subtasks(d, e[2]) => p[1] = p[2]}

\* The pairs of subtasks that an edge connects.
Linked(d, e) ==
  {p \in Subtasks(d, e[1]) \X Subtasks(d, e[2]) :
     Partitioning(d, e) = "forward" => p[1] = p[2]}

Channels(j, d) ==
  UNION {{[source |-> <<j, e[1], p[1]>>, target |-> <<j, e[2], p[2]>>] : p \in Linked(d, e)}
           : e \in Edges(d)}

\* bind_endpoints: the worker that the source of a channel will connect to.
Endpoint(j, c) == place[j][c.target][1]

\* ShuffleRouter.route: the subtasks that a record of subtask k may be sent to; the
\* cursor of a rebalanced edge comes to every one.
Route(d, e, k, key) ==
  CASE Partitioning(d, e) = "forward" -> {k}
    [] Partitioning(d, e) = "hash" -> {key % Operator(d, e[2]).parallelism}
    [] OTHER -> Subtasks(d, e[2])

-----------------------------------------------------------------------------
(* POST /jobs, the end of a job *)

\* Too few free slots: the job is refused with its definition kept, see JobManager.
Submit(j) ==
  /\ answer[j] = "none" /\ Accepts(definition[j])
  /\ Schedule(j, TaskOrder(j, definition[j]))
  /\ answer' = [answer EXCEPT ![j] = "accepted"]
  /\ UNCHANGED definition

Refuse(j) ==
  /\ answer[j] = "none" /\ ~Accepts(definition[j])
  /\ answer' = [answer EXCEPT ![j] = "refused"]
  /\ definition' = [definition EXCEPT ![j] = NoDefinition]
  /\ UNCHANGED slotVars

\* The same bundle may be submitted again.
Finish(j) ==
  /\ answer[j] = "accepted"
  /\ Release(j)
  /\ answer' = [answer EXCEPT ![j] = "none"]
  /\ UNCHANGED definition

Next == \/ \E j \in Jobs : Submit(j) \/ Refuse(j) \/ Finish(j)
        \/ \E w \in Workers : HealthChanges(w) /\ UNCHANGED <<definition, answer>>

Spec == Init /\ [][Next]_vars

-----------------------------------------------------------------------------
(* Properties *)

\* A job that is accepted has a free slot of a healthy worker for each of its tasks, no
\* slot twice and the lowest of a worker first; the first two of its tasks, and only
\* these, are on different workers where two have room; from the third on a worker that
\* got a task was, before its last one, no fuller than any other with room left. A job
\* that waits or is refused is on no slot, and a refusal changes no slot of any other.
\* All this whatever slots other jobs hold and whichever workers are healthy
\* (SlotScheduler.schedule).
KeepsPlacementPromise ==
  [][\A j \in Jobs : answer[j] = "none" =>
       IF answer'[j] = "accepted"
       THEN LET order == TaskOrder(j, definition[j])
            IN PlacesAsPromised(j, order) /\ PlacesBalanced(j, order)
       ELSE place'[j] = NoPlaces /\ (answer'[j] = "refused" => owner' = owner)]_vars

Acyclic(d) == \A S \in (SUBSET Ids(d)) \ {{}} : \E id \in S : Upstream(d, id) \cap S = {}

\* A path from a source to id on which no operator before id is a key_by: id is in
\* every set that holds the sources and follows the edges up to a key_by.
ReachedUnkeyed(d, id) ==
  \A S \in SUBSET Ids(d) :
    (/\ \A up \in Ids(d) : TypeOf(d, up) = "source" => up \in S
     /\ \A e \in Edges(d) : e[1] \in S /\ TypeOf(d, e[2]) # "key_by" => e[2] \in S)
    => id \in S

\* A job is accepted exactly if its graph has no cycle and every path from a source
\* to a reduce passes a key_by, whatever the order in which operators and edges are
\* declared: the algorithm looks at one operator and its direct inputs at a time.
AnsweredSoundly ==
  [][\A j \in Jobs :
       LET d == definition[j] IN
       answer[j] = "none" /\ answer'[j] # "none" =>
         (answer'[j] = "accepted" <=>
            /\ \A o \in Range(d.operators) : WellFormed(o)
            /\ UniqueIds(d) /\ ValidEdges(d) /\ Acyclic(d)
            /\ \A id \in Ids(d) : TypeOf(d, id) = "reduce" => ~ReachedUnkeyed(d, id))]_vars

Accepted == {j \in Jobs : answer[j] = "accepted"}

\* A task connects its output channels while it is started, and does not try again:
\* the target of every channel comes earlier in the order of deployment.
TargetsDeployedFirst ==
  \A j \in Accepted :
    LET order == DeploymentOrder(j, definition[j]) IN
    \A c \in Channels(j, definition[j]) :
      \E i, k \in DOMAIN order : i < k /\ order[i] = c.target /\ order[k] = c.source

\* Records of one key meet: whichever upstream task of a reduce operator sends them,
\* and by whichever edge, they go to one task on one worker.
OneOwnerPerKey ==
  \A j \in Accepted :
    LET d == definition[j]
        channels == Channels(j, d)
    IN \A id \in Ids(d), key \in Keys :
         TypeOf(d, id) = "reduce" =>
           Cardinality({<<c.target, Endpoint(j, c)>> : c \in {x \in channels :
             /\ x.target[2] = id
             /\ x.target[3] \in Route(d, <<x.source[2], id>>, x.source[3], key)}}) = 1

\* The router of a task, which knows its own edge and parallelism only, never picks a
\* subtask to which the graph has no channel.
RoutesHaveChannels ==
  \A j \in Accepted :
    LET d == definition[j]
        channels == Channels(j, d)
    IN \A e \in Edges(d), key \in Keys : \A k \in Subtasks(d, e[1]) :
         \A m \in Route(d, e, k, key) :
           [source |-> <<j, e[1], k>>, target |-> <<j, e[2], m>>] \in channels
=============================================================================
