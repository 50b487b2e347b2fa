--------------------------- MODULE WorkflowEngine ---------------------------
(***************************************************************************)
(* One run of a workflow graph (lib/workflow/executor/executor.workflow.ts *)
(* with convergence-barrier.ts, loop-back.ts, final-success.ts and         *)
(* editor/back-edges.ts): branches that run side by side, joins that wait  *)
(* for them, conditions that skip a branch, edges that loop back, For Each *)
(* nodes, and the verdict.  A call of executeNode is an activation         *)
(* <<node, turn>>, and it stays in `live` until the calls it awaits have   *)
(* returned.  The body of a For Each runs outside this traversal and is    *)
(* abstracted to whether an iteration failed.                              *)
(***************************************************************************)
EXTENDS Naturals, FiniteSets, FiniteSetsExt

CONSTANTS
  Graphs,         \* the workflows a run may be of, each built by Planned
  MaxIterations,  \* MAX_LOOP_ITERATIONS, per back edge
  MaxTraversals,  \* MAX_LOOP_TRAVERSALS_PER_EXECUTION
  None            \* no activation

VARIABLES
  graph,       \* the workflow
  visited,     \* nodes entered in this pass
  attempted,   \* nodes entered at all (attemptedNodes)
  skipped,     \* nodes with no way in that was taken (skippedNodes)
  arrived,     \* <<source, join>> pairs that arrived, really or as a skip
  skips,       \* those of them that arrived as a skip
  result,      \* results: what each node's last activation left
  passes,      \* traversals of each back edge
  reentries,   \* times a loop has re-entered a node (reentriesOf)
  live,        \* activations that have not returned
  turn,        \* activations of each node so far
  claimed,     \* nodes whose step claim is held by a finished step
  recorded,    \* output of a node's last recorded success
  late,        \* successes whose row has not been committed yet
  logs,        \* statuses of a node's step-log rows
  verdict,     \* finalSuccess
  row,         \* what logWorkflowCompleteDb makes of it
  decision,    \* ghost: what a condition decided in this pass
  outcome,     \* ghost: how a node's step ended in this pass
  overlapped,  \* ghost: a loop re-entered nodes that were still running
  revived      \* ghost: a loop was taken for an activation that had been outrun

vars == << graph, visited, attempted, skipped, arrived, skips, result, passes,
           reentries, live, turn, claimed, recorded, late, logs, verdict, row,
           decision, outcome, overlapped, revived >>
traversal == << visited, attempted, live, turn >>
joining == << arrived, skips, skipped >>
looping == << graph, passes, reentries, overlapped, revived >>
storing == << claimed, recorded, late, logs >>
ended == << verdict, row >>

Assign(f, n, v) == [f EXCEPT ![n] = v]

(***************************************************************************)
(* The graph.                                                              *)
(***************************************************************************)

\* collectReachable: what `starts` lead to over the pairs, not through `without`.
Reachable(pairs, starts, without) ==
  LET ahead(n) == {p[2] : p \in {q \in pairs : q[1] = n /\ q[2] \notin without}}
      from[k \in 0 .. Cardinality(pairs)] ==
        IF k = 0 THEN starts \ without
        ELSE UNION {{n} \union ahead(n) : n \in from[k - 1]}
  IN  from[Cardinality(pairs)]

\* A workflow of nodes with their kinds and edges <<source, handle, target>>,
\* its back edges held apart.  The source finds an edge to be a back edge when
\* its target is on the depth-first stack; where, as in every workflow drawn
\* here, a loop has one entry, that is when the target cannot be avoided on the
\* way from the trigger to the source, in whatever order the edges are explored.
Planned(kind, edges) ==
  LET pairs == {<<e[1], e[3]>> : e \in edges}
      roots == {n \in DOMAIN kind : kind[n] = "trigger"}
      back  == {p \in pairs : p[1] \notin Reachable(pairs, roots, {p[2]})}
  IN  [kind |-> kind, edges |-> edges, back |-> back, forward |-> pairs \ back]

\* What the editor and partitionByBackEdges leave: a trigger that no edge leads to,
\* edges between nodes, each of them forward or back, and no cycle of forward edges:
\* "Removing every classified back edge always leaves an acyclic graph" (back-edges.ts).
Drawn(g) ==
  LET nodes == DOMAIN g.kind
  IN  /\ IsFiniteSet(nodes) /\ \E n \in nodes : g.kind[n] = "trigger"
      /\ g.edges \subseteq nodes \X {"out", "true", "false", "loop", "done"} \X nodes
      /\ \A e \in g.edges : g.kind[e[3]] # "trigger"
      /\ g.back \union g.forward = {<<e[1], e[3]>> : e \in g.edges}
      /\ g.back \intersect g.forward = {}
      /\ \A S \in SUBSET nodes \ {{}} :
           \E n \in S : \A p \in g.forward : p[2] = n => p[1] \notin S

\* A loop has one entry: nothing but the entry leads from the trigger to where the
\* loop goes back, as in every workflow that Planned builds.
OneEntry(g) ==
  LET pairs == {<<e[1], e[3]>> : e \in g.edges}
      roots == {n \in DOMAIN g.kind : g.kind[n] = "trigger"}
  IN  \A p \in g.back : p[1] \notin Reachable(pairs, roots, {p[2]})

ASSUME EngineAssumption ==
  /\ MaxIterations \in Nat /\ MaxTraversals \in Nat
  /\ \A g \in Graphs : Drawn(g) /\ None \notin (DOMAIN g.kind) \X Nat

Nodes == DOMAIN graph.kind
Of(k) == {n \in Nodes : graph.kind[n] = k}
Trigger == CHOOSE n \in Nodes : graph.kind[n] = "trigger"
Targets(n, handles) == {e[3] : e \in {x \in graph.edges : x[1] = n /\ x[2] \in handles}}
AllTargets(n) == {e[3] : e \in {x \in graph.edges : x[1] = n}}
ForwardFrom(n) == {p[2] : p \in {q \in graph.forward : q[1] = n}}
Preds(n) == {p[1] : p \in {q \in graph.forward : q[2] = n}}
Joins == {n \in Nodes : Cardinality(Preds(n)) > 1}
HasHandles(n) == \E e \in graph.edges : e[1] = n /\ e[2] # "out"
Scope(entry) == Reachable(graph.forward, {entry}, {})

\* identifyLoopBody: what is behind the loop handle, or behind every edge of a
\* For Each without handles, up to a Collect.
Seeds(f) == IF HasHandles(f) THEN Targets(f, {"loop"}) ELSE AllTargets(f)
BodyOf(f) == Reachable(graph.forward, Seeds(f), Of("collect"))
InnerCollect(f) ==
  (Seeds(f) \union UNION {ForwardFrom(n) : n \in BodyOf(f)}) \intersect Of("collect")
Bodies == UNION {BodyOf(f) \union InnerCollect(f) : f \in Of("foreach")}

\* planIterationContinuation: the Collect that takes the iterations' results, the
\* first one at the done handle or else the one in the body.
Aggregate(f) ==
  LET done == Targets(f, {"done"}) \intersect Of("collect")
  IN  IF done # {} THEN {CHOOSE c \in done : TRUE} ELSE InnerCollect(f)

(***************************************************************************)
(* Activations.                                                            *)
(***************************************************************************)
Fresh(parent) ==
  [at |-> "step", parent |-> parent, from |-> None, loops |-> {}, spare |-> {}, seen |-> 0]

\* An activation that now awaits what it starts; `from` is the node whose edges
\* it follows, `loops` the entries to re-enter and `spare` the branch to skip.
Awaiting(t, from, loops, spare) ==
  [live EXCEPT ![t] = [@ EXCEPT !.at = "await", !.from = from, !.loops = loops,
                                !.spare = spare, !.seen = reentries[t[1]]]]

Without(t) == [u \in DOMAIN live \ {t} |-> live[u]]
Quiet(t) == /\ t \in DOMAIN live /\ live[t].at \in {"await", "iterated"}
            /\ \A u \in DOMAIN live : live[u].parent # t

\* executeNode is called for `ids` by the activation t.
Enter(t, ids, before, others) ==
  LET new == ids \ before
      turns == [n \in Nodes |-> IF n \in new THEN turn[n] + 1 ELSE turn[n]]
      started == {<<n, turns[n]>> : n \in new}
  IN  /\ visited' = before \union new
      /\ attempted' = attempted \union new
      /\ turn' = turns
      /\ live' = [u \in started \union DOMAIN others |->
                    IF u \in started THEN Fresh(t) ELSE others[u]]

Return(t) == live' = Without(t) /\ UNCHANGED <<visited, attempted, turn>>

\* signalConvergenceArrival: the joins the arrivals complete.
CompleteButOne(arrivals, n) ==  \* Fault: the count includes the one to come.
  Cardinality(Preds(n)) <= 1 + Cardinality({p \in arrivals : p[2] = n})
Complete(arrivals, n) == Preds(n) \subseteq {p[1] : p \in {q \in arrivals : q[2] = n}}
Arriving(from, ids) == {<<from, n>> : n \in ids \intersect Joins}
Unblocked(arrivals, ids, before) ==
  {n \in ids \intersect Joins : Complete(arrivals, n) /\ n \notin before}

\* executeReadyDownstream, up to the point where the ready targets have been
\* started: they are awaited, then the loop entries are re-entered one by one.
Continue(t, from, targets, spare, before) ==
  LET forward == {n \in targets : <<from, n>> \notin graph.back}
  IN  /\ arrived' = arrived \union Arriving(from, forward)
      /\ Enter(t, (forward \ Joins) \union Unblocked(arrived', forward, before), before,
               Awaiting(t, from, targets \ forward, spare))

\* The catch's signal: joins are told of a failed step, but not of a condition.
SignalFailure(t) ==
  LET n == t[1]
      joins == IF n \in Of("condition") THEN {} ELSE ForwardFrom(n)
  IN  /\ arrived' = arrived \union Arriving(n, joins)
      /\ Enter(t, Unblocked(arrived', joins, visited), visited,
               Awaiting(t, n, {}, {}))

(***************************************************************************)
(* A step ends.                                                            *)
(***************************************************************************)
Init ==
  /\ graph \in Graphs
  /\ visited = {Trigger} /\ attempted = {Trigger}
  /\ skipped = {} /\ arrived = {} /\ skips = {}
  /\ result = [n \in Nodes |-> "none"]
  /\ passes = [e \in graph.back |-> 0]
  /\ reentries = [n \in Nodes |-> 0]
  /\ turn = [n \in Nodes |-> IF n = Trigger THEN 1 ELSE 0]
  /\ live = [t \in {<<Trigger, 1>>} |-> Fresh(None)]
  /\ claimed = {} /\ late = {}
  /\ recorded = [n \in Nodes |-> "none"]
  /\ logs = [n \in Nodes |-> {}]
  /\ verdict = "none" /\ row = "running"
  /\ decision = [n \in Nodes |-> "none"]
  /\ outcome = [n \in Nodes |-> "none"]
  /\ overlapped = FALSE /\ revived = FALSE

Running(t) == t \in DOMAIN live /\ live[t].at = "step"
Outputs(n) == IF n \in Of("condition") THEN {"true", "false"} ELSE {"ok"}
Held(n) == n \in claimed

\* What the newest activation of a node came to in this pass.
Comes(t, o) ==
  outcome' = IF t[2] = turn[t[1]] THEN Assign(outcome, t[1], o) ELSE outcome

\* Fault: a condition routed like any other node.
FollowEveryEdge(t, d) ==
  /\ decision' = Assign(decision, t[1], d)
  /\ Continue(t, t[1], AllTargets(t[1]), {}, visited)

\* continueFromCondition.  Without handles, true goes on and false stops.
FollowCondition(t, d) ==
  LET n == t[1]
      other == IF d = "true" THEN "false" ELSE "true"
      taken == IF HasHandles(n) THEN Targets(n, {d})
               ELSE IF d = "true" THEN AllTargets(n) ELSE {}
      spare == {m \in Targets(n, {other}) : <<n, m>> \notin graph.back}
  IN  /\ decision' = Assign(decision, n, d)
      /\ Continue(t, n, taken, spare, visited)

\* The step's success is recorded where the engine reads it.
Record(n, out) ==
  /\ logs' = Assign(logs, n, logs[n] \union {"success"})
  /\ recorded' = Assign(recorded, n, out)

\* The result is stored and the node's way onwards is taken.
Succeed(t, out) ==
  LET n == t[1]
  IN  /\ result' = Assign(result, n, "ok")
      /\ Comes(t, "ok")
      /\ CASE n \in Of("condition") -> FollowCondition(t, out)
           [] n \in Of("foreach") ->
                /\ live' = [live EXCEPT ![t].at = "iterating"]
                /\ UNCHANGED <<visited, attempted, turn, arrived, decision>>
           [] OTHER -> Continue(t, n, AllTargets(n), {}, visited) /\ UNCHANGED decision
      /\ UNCHANGED <<skips, skipped, looping, ended>>

\* The step ran.  Its claim stays, so that replays reuse its output.
StepSucceeds(t) ==
  \E out \in Outputs(t[1]) :
    LET n == t[1] IN
    /\ Running(t) /\ ~Held(n) /\ graph.kind[n] \notin {"disabled", "unset"}
    /\ Record(n, out)
    /\ claimed' = claimed \union {n}
    /\ UNCHANGED late
    /\ Succeed(t, out)

\* withStepLogging finds the claim held and hands back the recorded output.
StepReused(t) ==
  /\ Running(t) /\ Held(t[1])
  /\ Succeed(t, recorded[t[1]])
  /\ UNCHANGED storing

\* STALE_CLAIM_MS have passed since the claim was taken.
ClaimLapses(n) ==
  /\ Held(n) /\ \E t \in DOMAIN live : t[1] = n /\ Running(t)
  /\ claimed' = claimed \ {n}
  /\ UNCHANGED <<traversal, joining, looping, ended, result, recorded, late, logs,
                 decision, outcome>>

\* A disabled node is passed through and leaves no result.
DisabledPassed(t) ==
  /\ Running(t) /\ graph.kind[t[1]] = "disabled"
  /\ Continue(t, t[1], AllTargets(t[1]), {}, visited)
  /\ UNCHANGED <<skips, skipped, looping, storing, ended, result, decision, outcome>>

\* The step returned {success: false}, or has no action type or an unknown one, which
\* logs nothing.
\* Either way executeNode returns and tells nobody.
StepReturnsFailure(t) ==
  LET n == t[1] IN
  /\ Running(t) /\ ~Held(n) /\ graph.kind[n] # "disabled"
  /\ logs' = IF n \in Of("unset") THEN logs
             ELSE Assign(logs, n, logs[n] \union {"error"})
  /\ result' = Assign(result, n, "failed")
  /\ Comes(t, "failed")
  /\ Return(t)
  /\ UNCHANGED <<joining, looping, ended, claimed, recorded, late, decision>>

\* The step threw; "retries" is an error in the words of the runtime's own, which
\* a step that really failed on every attempt ends with too.
StepThrows(t) ==
  LET n == t[1] IN
  \E error \in {"failed", "retries"} :
    /\ Running(t) /\ ~Held(n) /\ graph.kind[n] \notin {"disabled", "unset"}
    /\ ~(error = "retries" /\ reentries[n] = 0 /\ recorded[n] # "none")
    /\ logs' = Assign(logs, n, logs[n] \union {"error"})
    /\ result' = Assign(result, n, error)
    /\ Comes(t, "failed")
    /\ SignalFailure(t)
    /\ UNCHANGED <<skips, skipped, looping, ended, claimed, recorded, late, decision>>

\* The runtime lost a step's completion and threw.  Where no loop has re-entered
\* the node, the catch finds the recorded output and routes by it: a condition by
\* its handle, anything else, a For Each too, along all its edges.
CompletionRecovered(t) ==
  \E out \in Outputs(t[1]) :
    LET n == t[1] IN
    /\ Running(t) /\ ~Held(n) /\ graph.kind[n] \notin {"disabled", "unset"}
    /\ reentries[n] = 0
    /\ Record(n, out)
    /\ claimed' = claimed \union {n}
    /\ result' = Assign(result, n, "ok")
    /\ Comes(t, "ok")
    /\ IF n \in Of("condition") THEN FollowCondition(t, out)
       ELSE Continue(t, n, AllTargets(n), {}, visited) /\ UNCHANGED decision
    /\ UNCHANGED <<skips, skipped, looping, ended, late>>

\* As before, but the row is not committed when the catch looks, or, after a
\* loop's re-entry, the catch does not look.
CompletionLost(t) ==
  \E out \in Outputs(t[1]), landed \in BOOLEAN :
    LET n == t[1] IN
    /\ Running(t) /\ ~Held(n) /\ graph.kind[n] \notin {"disabled", "unset"}
    /\ landed => reentries[n] > 0
    /\ IF landed THEN Record(n, out) /\ UNCHANGED late
       ELSE late' = late \union {<<n, out>>} /\ UNCHANGED <<logs, recorded>>
    /\ claimed' = claimed \union (IF landed THEN {n} ELSE {})
    /\ result' = Assign(result, n, "retries")
    /\ Comes(t, "lost")
    /\ SignalFailure(t)
    /\ UNCHANGED <<skips, skipped, looping, ended, decision>>

LateCommit(p) ==
  /\ p \in late /\ verdict = "none"
  /\ late' = late \ {p}
  /\ Record(p[1], p[2])
  /\ UNCHANGED <<traversal, joining, looping, ended, result, claimed, decision, outcome>>

(***************************************************************************)
(* For Each: its iterations are over.                                      *)
(***************************************************************************)

\* Every iteration succeeded: the Collect takes the results and the run goes on
\* behind it, or behind the done handle.
IterationsSucceed(t) ==
  LET f == t[1]
      sink == Aggregate(f)
      from == IF sink = {} THEN f ELSE CHOOSE c \in sink : TRUE
      targets == IF sink = {} THEN Targets(f, {"done"}) ELSE AllTargets(from)
      marked == visited \union BodyOf(f) \union sink \union
                (IF sink = {} THEN {} ELSE InnerCollect(f))
      forward == {n \in targets : <<from, n>> \notin graph.back}
  IN  /\ t \in DOMAIN live /\ live[t].at = "iterating"
      /\ result' = [n \in Nodes |-> IF n \in sink THEN "ok" ELSE result[n]]
      /\ logs' = [n \in Nodes |-> IF n \in sink THEN logs[n] \union {"success"} ELSE logs[n]]
      /\ arrived' = arrived \union Arriving(from, forward)
      /\ Enter(t, (forward \ Joins) \union Unblocked(arrived', forward, marked), marked,
               [Awaiting(t, from, targets \ forward, {}) EXCEPT ![t].at = "iterated"])
      /\ UNCHANGED <<skips, skipped, looping, ended, claimed, recorded, late,
                     decision, outcome>>

\* One failed: the Collect is marked failed, nothing behind the loop runs and no
\* join is told; the For Each's own log row turns into an error.
IterationsFail(t) ==
  LET f == t[1]
      unfed == Aggregate(f) \union (IF Aggregate(f) = {} THEN {} ELSE InnerCollect(f))
  IN  /\ t \in DOMAIN live /\ live[t].at = "iterating"
      /\ result' = [n \in Nodes |-> IF n \in unfed \union {f} THEN "failed" ELSE result[n]]
      /\ logs' = Assign(logs, f, {"error"})
      /\ Comes(t, "failed")
      /\ visited' = visited \union BodyOf(f) \union unfed
      /\ attempted' = attempted \union unfed
      /\ live' = Without(t)
      /\ UNCHANGED <<turn, joining, looping, ended, claimed, recorded, late, decision>>

\* The rows of the For Each and of its Collect, once it has thrown.
Rowed(f, own, sunk, said) ==
  [n \in Nodes |-> IF n \in sunk THEN logs[n] \union said ELSE IF n = f THEN own ELSE logs[n]]

\* The For Each throws although its step has logged success: its array resolves to
\* none (resolveArraySource), a template of it does not resolve, or the call that
\* records a failed iteration fails, or the Collect's step, once the body is marked.
\* Only for the template does the catch add a row.  In the runtime's words it takes,
\* in a first pass, the step's own output for the node's and follows all its edges,
\* unless it is not found because the row has been turned into an error.
IterationsThrow(t) ==
  LET f == t[1]
      joins == ForwardFrom(f)
  IN
  \E error \in {"failed", "retries", "ok"}, said \in SUBSET {"success", "error"},
     own \in {logs[f], logs[f] \union {"error"}, {"error"}}, sunk \in {{}, Aggregate(f)} :
    LET marked == visited \union (IF sunk = {} THEN {} ELSE BodyOf(f))
    IN  /\ t \in DOMAIN live /\ live[t].at = "iterating"
        /\ error = "ok" => reentries[f] = 0
        /\ error = "retries" => reentries[f] > 0 \/ own = {"error"}
        /\ sunk # {} => own = logs[f]
        /\ logs' = Rowed(f, own, sunk, said)
        /\ result' = Assign(result, f, error)
        /\ Comes(t, IF error = "failed" THEN "threw" ELSE "lost")
        /\ IF error = "ok" THEN Continue(t, f, AllTargets(f), {}, marked)
           ELSE /\ arrived' = arrived \union Arriving(f, joins)
                /\ Enter(t, Unblocked(arrived', joins, marked), marked, Awaiting(t, f, {}, {}))
        /\ UNCHANGED <<skips, skipped, looping, ended, claimed, recorded, late, decision>>

(***************************************************************************)
(* What an activation started has returned.                                *)
(***************************************************************************)
Traversals == MapThenSumSet(LAMBDA e : passes[e], graph.back)
AdmitsOneMore(e) == passes[e] <= MaxIterations /\ Traversals < MaxTraversals  \* Fault
Admits(e) == passes[e] < MaxIterations /\ Traversals < MaxTraversals

\* t and the activations that wait for it.
Line(t) == Reachable({<<u, live[u].parent>> : u \in DOMAIN live}, {t}, {None})

\* A later pass has run the node again.
OutrunNever(t) == FALSE  \* Fault
Outrun(t) == reentries[t[1]] # live[t].seen

\* clearArrivalsFrom: only what arrived from inside the body arrives again.
InsideAnySource(pairs, body) == {p \in pairs : p[2] \in body}  \* Fault
Inside(pairs, body) == {p \in pairs : p[1] \in body /\ p[2] \in body}

\* runLoopIteration: what the entry leads to is forgotten and the entry runs.
LoopBack(t) ==
  \E entry \in live[t].loops :
    LET e == <<live[t].from, entry>>
        body == Scope(entry)
        rest == [live EXCEPT ![t].loops = @ \ {entry}]
    IN  /\ Quiet(t) /\ Admits(e)
        /\ passes' = [passes EXCEPT ![e] = @ + 1]
        /\ reentries' = [n \in Nodes |-> IF n \in body THEN reentries[n] + 1 ELSE reentries[n]]
        /\ arrived' = arrived \ Inside(arrived, body)
        /\ skips' = skips \ Inside(skips, body)
        /\ skipped' = skipped \ body
        /\ Enter(t, {entry}, visited \ body, rest)
        /\ decision' = [n \in Nodes |-> IF n \in body THEN "none" ELSE decision[n]]
        /\ outcome' = [n \in Nodes |-> IF n \in body THEN "none" ELSE outcome[n]]
        /\ overlapped' = (overlapped \/ \E u \in DOMAIN live \ Line(t) : u[1] \in body)
        /\ revived' = (revived \/ Outrun(t))
        /\ UNCHANGED <<graph, result, storing, ended>>

\* Fault: the entry is asked for again.
LoopRefusedAgain(t) ==
  \E entry \in live[t].loops :
    /\ Quiet(t) /\ ~Admits(<<live[t].from, entry>>)
    /\ result' = Assign(result, live[t].from, "capped")
    /\ UNCHANGED <<traversal, joining, looping, storing, ended, decision, outcome>>

\* The same at a cap: the node that asked to loop is failed, and the run goes on.
LoopRefused(t) ==
  \E entry \in live[t].loops :
    /\ Quiet(t) /\ ~Admits(<<live[t].from, entry>>)
    /\ result' = Assign(result, live[t].from, "capped")
    /\ live' = [live EXCEPT ![t].loops = @ \ {entry}]
    /\ UNCHANGED <<visited, attempted, turn, joining, looping, storing, ended,
                   decision, outcome>>

\* propagateConvergenceSkips: where the skips that start at `ids` come to.  A node
\* with one way in passes them on; a join does when every way in was skipped.
SkipWalk(from, ids) ==
  LET sources[n \in Nodes] ==
        (IF n \in ids THEN {from} ELSE {}) \union
        {p \in Preds(n) :
           LET into == sources[p]
           IN  /\ into # {}
               /\ p \in Joins => Preds(p) \subseteq
                                 into \union {s \in Preds(p) : <<s, p>> \in skips}}
  IN  sources

\* The branch not taken is skipped once the one taken has returned, unless a later
\* pass has run the condition again in between.
SkipBranch(t) ==
  LET sources == SkipWalk(t[1], live[t].spare)
      reached == {n \in Nodes : sources[n] # {}}
      hits == UNION {{<<s, n>> : s \in sources[n]} : n \in reached \intersect Joins}
      through == {n \in reached : n \in Joins => Complete(skips', n)}
      served == [live EXCEPT ![t].spare = {}]
  IN  /\ Quiet(t) /\ live[t].loops = {} /\ live[t].spare # {}
      /\ ~Outrun(t)
      /\ skips' = skips \union hits
      /\ arrived' = arrived \union hits
      /\ skipped' = skipped \union through
      /\ Enter(t, Unblocked(arrived', reached \ through, visited), visited, served)
      /\ UNCHANGED <<result, looping, storing, ended, decision, outcome>>

\* Nothing is left to await.  A For Each writes its own result last.
ActivationReturns(t) ==
  /\ Quiet(t) /\ live[t].loops = {}
  /\ live[t].spare # {} => Outrun(t)
  /\ result' = IF live[t].at = "iterated" THEN Assign(result, t[1], "ok") ELSE result
  /\ Return(t)
  /\ UNCHANGED <<joining, looping, storing, ended, decision, outcome>>

(***************************************************************************)
(* The verdict.                                                            *)
(***************************************************************************)

\* reconcileSpuriousFailures: lost completions of which an output has been recorded,
\* as far as it is found: the answer to an earlier look may be cached.
RecoverableUnread == {n \in Nodes : result[n] = "retries"}  \* Fault
Recoverable == {n \in Nodes : result[n] = "retries" /\ recorded[n] # "none"}
Reconciled(found) ==
  [n \in Nodes |-> IF n \in found THEN "reconciled" ELSE result[n]]
Fine(r) == r \in {"none", "ok", "reconciled"}

\* Fault: what a condition did not choose counts as orphaned.
OrphansOfConditions(results) ==
  {n \in Nodes \ (attempted \union skipped \union Bodies) :
     Preds(n) # {} /\ \A p \in Preds(n) : p \in attempted \ skipped /\ Fine(results[p])}

\* findOrphanedNodes: never entered, although every way in ended well.
Orphans(results) ==
  {n \in Nodes \ (attempted \union skipped \union Bodies) :
     /\ Preds(n) # {}
     /\ \A p \in Preds(n) : /\ p \in attempted \ skipped
                            /\ Fine(results[p])
                            /\ p \notin Of("condition")}

\* listTrulyFailedNodes: nodes with a log row and none that says success.
TrulyFailed ==
  {n \in Nodes : logs[n] = {"error"}} \union
  {n \in Nodes : logs[n] = {} /\ \E p \in late : p[1] = n}

\* awaitLateStepCommits: no step has logged a failure and the error is in the
\* runtime's own words, so the commits on the wire are waited for, and may land.
Awaited(results) ==
  /\ \A n \in Nodes : "error" \notin logs[n]
  /\ \E n \in Nodes : results[n] = "retries"

\* computeFinalSuccess, and logWorkflowCompleteDb's word on it: an error without a
\* failed step log is taken for a spurious one.
Finalize ==
  \E found \in SUBSET Recoverable :
    LET orphans == Orphans(Reconciled(found))
        results == [n \in Nodes |-> IF n \in orphans THEN "orphan" ELSE Reconciled(found)[n]]
        good == \A n \in Nodes \ skipped : Fine(results[n])
    IN  /\ DOMAIN live = {} /\ verdict = "none"
        /\ result' = results
        /\ verdict' = IF good THEN "success" ELSE "error"
        /\ \/ row' = "success" /\ (good \/ TrulyFailed = {} \/ Awaited(results))
           \/ row' = "error" /\ ~good /\ TrulyFailed # {}
        /\ UNCHANGED <<traversal, joining, looping, storing, decision, outcome>>

StepEnds(t) ==
  \/ StepSucceeds(t) \/ StepReused(t) \/ DisabledPassed(t)
  \/ StepReturnsFailure(t) \/ StepThrows(t)
  \/ CompletionRecovered(t) \/ CompletionLost(t)
  \/ IterationsSucceed(t) \/ IterationsFail(t) \/ IterationsThrow(t)
GoesOn(t) ==
  \/ LoopBack(t) \/ LoopRefused(t) \/ SkipBranch(t) \/ ActivationReturns(t)

Next ==
  \/ \E t \in DOMAIN live : StepEnds(t) \/ GoesOn(t)
  \/ \E n \in Nodes : ClaimLapses(n)
  \/ \E p \in late : LateCommit(p)
  \/ Finalize


Spec == Init /\ [][Next]_vars
FairSpec == Spec /\ WF_vars((\E t \in DOMAIN live : StepEnds(t) \/ GoesOn(t)) \/ Finalize)
(***************************************************************************)
(* Properties.                                                             *)
(***************************************************************************)
Results ==
  {"none", "ok", "failed", "retries", "capped", "orphan", "reconciled"}

\* Types, with what they say of one another: only joins count arrivals and a skip
\* is an arrival; what was entered was attempted; every activation waits for one
\* that is live; and the back edges were traversed no more often than loop-back.ts
\* allows for each and for all.
TypeOK ==
  /\ graph \in Graphs
  /\ visited \subseteq Nodes /\ attempted \subseteq Nodes /\ skipped \subseteq Nodes
  /\ visited \ (Bodies \union Of("collect")) \subseteq attempted
  /\ skips \subseteq arrived
  /\ arrived \subseteq {p \in graph.forward : p[2] \in Joins}
  /\ result \in [Nodes -> Results]
  /\ passes \in [graph.back -> 0 .. MaxIterations] /\ Traversals <= MaxTraversals
  /\ \A n \in Nodes : reentries[n] <= Traversals /\ turn[n] <= 1 + reentries[n]
  /\ \A t \in DOMAIN live :
       /\ t[1] \in attempted /\ t[2] \in 1 .. turn[t[1]]
       /\ live[t].at \in {"step", "iterating", "await", "iterated"}
       /\ live[t].parent \in DOMAIN live \union {None}
       /\ live[t].loops \union live[t].spare \subseteq Nodes
  /\ claimed \subseteq Nodes
  /\ recorded \in [Nodes -> {"none", "ok", "true", "false"}]
  /\ late \subseteq Nodes \X {"ok", "true", "false"}
  /\ logs \in [Nodes -> SUBSET {"success", "error"}]
  /\ <<verdict, row>> \in {<<"none", "running">>, <<"success", "success">>,
                           <<"error", "success">>, <<"error", "error">>}

Entered(n) == turn'[n] # turn[n]

\* A join starts only when each node before it has been skipped or has run and is
\* done with its step and its iterations, whatever the order its branches end in.
\* The barrier (convergence-barrier.ts) counts arrivals and knows nothing of steps.
\* Once a loop has re-entered nodes that were still running, it does not hold; and a
\* Collect arrives when the iterations of its For Each are over, not by a step.
JoinsWait ==
  [][\A j \in Joins : Entered(j) /\ reentries' = reentries /\ ~overlapped =>
       \A p \in Preds(j) :
         \/ p \in skipped'
         \/ /\ p \in visited'
            /\ p \in Of("collect") \/ \A t \in DOMAIN live' :
                                        t[1] = p => live'[t].at \in {"await", "iterated"}]_vars

Decided(e, d) ==
  e[1] \in Of("condition") => d[e[1]] = (IF HasHandles(e[1]) THEN e[2] ELSE "true")

\* A node is entered only over an edge whose source was entered and, where that is
\* a condition, chose it: neither a recovered condition, nor a skip that releases a
\* join, nor a failure's signal, nor a loop starts a branch that was not taken.  Only
\* a condition that a later pass has run again still repeats what it chose before:
\* runLoopIteration does not look whether it has been outrun.  And once a loop has
\* re-entered nodes that were still running, a join may be released on what a
\* condition decided before it decided again.
NotTakenNeverRuns ==
  [][\A n \in Nodes : Entered(n) /\ ~overlapped =>
       \/ \E e \in graph.edges :
            /\ e[3] = n /\ e[1] \in visited \union visited' \union Of("collect")
            /\ Decided(e, decision) \/ Decided(e, decision')
       \/ \E t \in DOMAIN live : n \in live[t].loops /\ Outrun(t)]_vars

\* Wired to both handles of one condition, or behind such a node.
BothWays ==
  Reachable(graph.forward,
            {n \in Nodes : \E p \in Preds(n) :
               n \in Targets(p, {"true"}) \intersect Targets(p, {"false"})},
            {})

\* A node counted as skipped, whose failure the verdict leaves out, did not run in
\* this pass.  A node wired to both handles of one condition does both and so does
\* what is behind it, and so may one that a loop re-entered while it was running.
SkippedDidNotRun ==
  \A n \in skipped \intersect visited : n \in BothWays \/ overlapped

\* A step that failed in its last pass, and a For Each that threw, makes the verdict an
\* error; and the row's status too where it was the first pass and a step failed of
\* which a log row tells, which is not so of a For Each that threw after its step had
\* logged success.  Five ways of losing the failure are left out: a node skipped and
\* run; passes that overlap; in a later pass, the runtime's own words, which are taken
\* for a lost completion of which the earlier pass's output is the proof; a For Each
\* in a loop, whose earlier activation returns last and writes its success over the
\* failure; and, for the row, a Collect that a For Each had run before it threw.
FailureShows(n) ==
  /\ verdict # "none" /\ outcome[n] \in {"failed", "threw"}
  /\ n \notin BothWays /\ ~overlapped
  /\ reentries[n] > 0 => result[n] # "reconciled" /\ n \notin Of("foreach")
  => /\ verdict = "error"
     /\ /\ outcome[n] = "failed" /\ reentries[n] = 0 /\ n \notin Of("unset")
        /\ n \in Of("collect") => \A f \in Of("foreach") : outcome[f] \notin {"threw", "lost"}
        => row = "error"

\* Every step shows its failure.
FailuresShow == \A n \in Nodes : FailureShows(n)

\* What the conditions' last decisions lead to.  Those in a body that only iterations
\* run are theirs, and the Collect takes the results whatever they decide.
Due ==
  LET iterated(n) == n \in Bodies /\ decision[n] = "none"
  IN  Reachable({<<e[1], e[3]>> : e \in {x \in graph.edges :
                                        Decided(x, decision) \/ iterated(x[1])}},
                {Trigger}, {})

\* What hears nothing from one of its sources: what is behind an edge that names
\* neither branch of its condition and that the condition did not follow, or behind
\* a node that the trigger does not lead to.
Unheard ==
  LET quiet  == {e \in graph.edges : e[1] \in Of("condition") /\ decision[e[1]] # "none" /\
                                     e[2] \notin {"true", "false"} /\ ~Decided(e, decision)}
      strays == Nodes \ Scope(Trigger)
  IN  Reachable(graph.forward, {e[3] : e \in quiet} \union strays, {})

\* What is at the done handle beside a Collect, or behind it: the run goes on behind
\* the Collect alone.
PassedOver ==
  Reachable(graph.forward,
            UNION {Targets(f, {"done"}) \ Aggregate(f) :
                     f \in {g \in Of("foreach") : Aggregate(g) # {}}},
            {})

\* A green run ran the whole of what its conditions decided and nothing else: no
\* join came up short, and every completion that was lost and later found had its
\* branch run or was reported (final-success.ts).  A condition or a node of a
\* For Each's body that is found only after the drain is left out: what it leads to
\* does not run, and findOrphanedNodes looks neither behind a condition nor into a
\* body.  So are a For Each that was lost, a loop taken for an activation that had been
\* outrun, and what is wired to both handles of one condition: where that is a join,
\* it is skipped although it was chosen.  And so is a run with a join that hears of
\* one source less: behind an edge of a condition that names neither branch and was
\* not followed, which skips nothing, or behind a node that nothing leads to.  What is
\* at a done handle beside a Collect is not run, and not reported where the Collect
\* leads to it too.
GreenRunsWhole ==
  /\ verdict = "success" /\ ~overlapped /\ ~revived
  /\ \A n \in Nodes : result[n] = "reconciled" =>
       reentries[n] = 0 /\ n \notin Of("condition") \union Bodies
  /\ \A f \in Of("foreach") : outcome[f] \in {"none", "ok"}
  /\ Unheard \intersect Joins = {}
  => LET aside == Bodies \union BothWays \union PassedOver
     IN  visited \ aside = Due \ aside

\* findOrphanedNodes accuses no run that is whole: what it calls orphaned had been
\* cut off by a completion that was found too late, or lies behind a node that ran
\* before a loop and that the loop has not come to again.  Collects, and what is
\* behind a For Each or a Collect, are left out: the run goes on behind the Collect,
\* so that the Collect itself and a second node at the done handle are not attempted,
\* and a For Each in a loop may have its failure overwritten.
OrphansWereCutOff ==
  \A n \in Nodes \ Of("collect") : result[n] = "orphan" =>
    \E p \in Preds(n) :
      \/ result[p] = "reconciled" \/ p \notin visited
      \/ p \in Of("foreach") \union Of("collect")

\* Every run comes to a verdict once its steps end: no activation waits for one that
\* waits for it, a join that came up short holds nothing up, and a refused loop is
\* not asked for again.
EveryRunEnds == <>(verdict # "none")

\* "Hitting either cap fails the run" (loop-back.ts).
CapFailsTheRun ==
  row = "success" => \A n \in Nodes : result[n] # "capped"
=============================================================================
