-------------------------- MODULE MCWorkflowEngine --------------------------
(* The workflows TLC draws for WorkflowEngine. *)
EXTENDS WorkflowEngine, TLC

Kinds(conditions, others) ==
  [n \in conditions |-> "condition"] @@ others @@ [n \in {"T"} |-> "trigger"]
Plain(ids) == [n \in ids |-> "action"]
Out(s, t) == <<s, "out", t>>

\* Two branches, one through a disabled node, meet in J; E follows.
Diamond == Planned(Kinds({}, ("B" :> "disabled") @@ Plain({"A", "J", "E"})),
  {Out("T", "A"), Out("T", "B"), Out("A", "J"), Out("B", "J"), Out("J", "E")})
\* Two conditions share an alert X on their false handles.
Alert == Planned(Kinds({"K", "M"}, Plain({"A", "X", "E"})),
  {Out("T", "K"), Out("T", "M"), <<"K", "false", "X">>, <<"M", "false", "X">>,
   <<"K", "true", "A">>, Out("X", "E")})
\* A branch not taken ends in the join of the branch taken.
Rejoin == Planned(Kinds({"K"}, Plain({"A", "B", "D", "J"})),
  {Out("T", "K"), <<"K", "true", "A">>, <<"K", "false", "B">>, Out("B", "D"),
   Out("A", "J"), Out("D", "J")})
\* A condition that repeats the step before it.
Repeat == Planned(Kinds({"K"}, Plain({"L", "A", "E"})),
  {Out("T", "L"), Out("L", "K"), <<"K", "true", "L">>, <<"K", "false", "E">>, <<"K", "true", "A">>})
\* The same with a slow step beside the condition, or with a join before it.
Beside == Planned(Kinds({"K"}, Plain({"L", "S"})),
  {Out("T", "L"), Out("L", "K"), Out("L", "S"), <<"K", "true", "L">>})
Within == Planned(Kinds({"K"}, Plain({"L", "A", "J"})),
  {Out("T", "L"), Out("L", "A"), Out("L", "J"), Out("A", "J"), Out("J", "K"), <<"K", "true", "L">>})
\* A join behind a loop, fed by a step outside it; and a loop within a loop.
Fed == Planned(Kinds({"K"}, Plain({"L", "S", "J"})),
  {Out("T", "L"), Out("T", "S"), Out("L", "K"), Out("S", "J"), <<"K", "true", "L">>, <<"K", "false", "J">>})
Nested == Planned(Kinds({"K", "M"}, Plain({"L"})),
  {Out("T", "L"), Out("L", "K"), <<"K", "true", "L">>, <<"K", "false", "M">>, <<"M", "true", "L">>})
\* A For Each and its Collect, and a For Each that a condition repeats.
Iterate == Planned(Kinds({}, ("F" :> "foreach") @@ ("C" :> "collect") @@ Plain({"B", "E"})),
  {Out("T", "F"), <<"F", "loop", "B">>, <<"F", "done", "C">>, Out("C", "E")})
Again == Planned(Kinds({"K"}, ("F" :> "foreach") @@ Plain({"B"})),
  {Out("T", "F"), <<"F", "loop", "B">>, <<"F", "done", "K">>, <<"K", "true", "F">>})
\* A For Each without handles, and a condition without handles.
Legacy == Planned(Kinds({"K"}, ("F" :> "foreach") @@ ("C" :> "collect") @@ ("A" :> "unset")
                  @@ Plain({"B"})),
  {Out("T", "F"), Out("F", "B"), Out("B", "C"), Out("C", "K"), Out("K", "A")})
\* A condition in a body, and a step behind both the done handle and the Collect.
Gather == Planned(Kinds({"K"}, ("F" :> "foreach") @@ ("C" :> "collect") @@ Plain({"A", "E", "J"})),
  {Out("T", "F"), <<"F", "loop", "K">>, <<"K", "true", "A">>, <<"K", "false", "C">>, Out("A", "C"),
   <<"F", "done", "J">>, Out("C", "J"), Out("C", "E")})
\* Both handles of a condition lead to the same step, and on to another.
Both == Planned(Kinds({"K"}, Plain({"A", "B"})),
  {Out("T", "K"), <<"K", "true", "A">>, <<"K", "false", "A">>, Out("A", "B")})
\* A condition that repeats two steps, one of which is within what the other repeats.
Twice == Planned(Kinds({"K", "P"}, Plain({"M"})),
  {Out("T", "P"), <<"P", "true", "M">>, Out("M", "K"), <<"K", "true", "P">>, <<"K", "true", "M">>})

\* A join behind a condition without handles, or behind the edge that has none, and
\* a join that a node feeds which the trigger does not lead to.
Stopped == Planned(Kinds({"K"}, Plain({"A", "J"})),
  {Out("T", "K"), Out("K", "J"), Out("T", "A"), Out("A", "J")})
Mixed == Planned(Kinds({"K"}, Plain({"A", "J"})),
  {Out("T", "K"), Out("K", "J"), <<"K", "true", "A">>, Out("A", "J")})
Stray == Planned(Kinds({}, Plain({"A", "X", "J"})),
  {Out("T", "A"), Out("A", "J"), Out("X", "J")})

MCGraphs == {Diamond, Alert, Rejoin, Repeat, Beside, Within, Fed, Nested,
             Iterate, Again, Legacy, Gather, Both, Twice, Stopped, Mixed, Stray}

ASSUME \A g \in MCGraphs : OneEntry(g)
=============================================================================
