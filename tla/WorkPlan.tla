------------------------------ MODULE WorkPlan ------------------------------
(***************************************************************************)
(* The project plan (src/engorc/plan.py) and the supervision policy over   *)
(* it (src/engorc/orchestrator/supervisor.py): work items, the questions   *)
(* asked of a plan, and the rewrites applied to one.  No variables: the    *)
(* phase machine of BuildPhase keeps one plan on disk and one in memory    *)
(* and applies these operators to either.                                  *)
(*                                                                         *)
(* A plan maps every item identifier that may ever exist to a record; an   *)
(* identifier whose status is "absent" has not been created yet.  Of the   *)
(* attempt list only what the policy reads is kept: how many attempts      *)
(* count against the budget, whether an attempt without an outcome is on   *)
(* record, whether a finished implementation with a base_sha is, and       *)
(* whether a tester attempt succeeded.  Of the notes: the number of        *)
(* triage markers and the wrap confirmation.                               *)
(***************************************************************************)
EXTENDS Naturals, FiniteSets

CONSTANTS
  Items,        \* every work item identifier that may ever be used
  MaxAttempts,  \* config.run.max_attempts_per_item
  TriageRounds  \* config.run.triage_rounds

ASSUME WorkPlanAssumption ==
  /\ IsFiniteSet(Items)
  /\ MaxAttempts \in Nat \ {0} /\ TriageRounds \in Nat

TerminalStatuses == {"done", "dropped"}

Statuses ==
  {"absent", "todo", "in_progress", "blocked", "review", "failed"} \cup TerminalStatuses

WorkItem ==
  [ status    : Statuses,
    fails     : Nat,          \* attempts with outcome fail, stuck or error
    live      : BOOLEAN,      \* an attempt without an outcome is on record
    good      : BOOLEAN,      \* a successful attempt with a base_sha is
    tested    : BOOLEAN,      \* a successful tester attempt is
    triaged   : Nat,          \* "triage#" markers among the notes, as far as counted
    confirmed : BOOLEAN,      \* the user confirmed finishing without it
    fix       : BOOLEAN,      \* titled "Fix the build"
    deps      : SUBSET Items ]

Plans == [Items -> WorkItem]

(* A work item as it is created: queued, with no history. *)
NewItem(deps, fix) ==
  [ status |-> "todo", fails |-> 0, live |-> FALSE, good |-> FALSE, tested |-> FALSE,
    triaged |-> 0, confirmed |-> FALSE, fix |-> fix, deps |-> deps ]

Absent == [NewItem({}, FALSE) EXCEPT !.status = "absent"]

-----------------------------------------------------------------------------
(* Questions asked of a plan *)

InPlan(p)      == {i \in Items : p[i].status # "absent"}
Terminal(p, i) == p[i].status \in TerminalStatuses

(* A dropped dependency satisfies; one that is not in the plan is ignored. *)
DepsSatisfied(p, i) == \A d \in p[i].deps \cap InPlan(p) : Terminal(p, d)

(* Slips: dependencies are not looked at; the budget is one too large. *)
ReadyAnyhow(p)     == {i \in Items : p[i].status \in {"todo", "failed"}}
PickableOnceMore(p) == {i \in Items : /\ p[i].status \in {"todo", "failed"}
                                      /\ DepsSatisfied(p, i)
                                      /\ p[i].fails <= MaxAttempts}

Ready(p)     == {i \in Items : p[i].status \in {"todo", "failed"} /\ DepsSatisfied(p, i)}
Pickable(p)  == {i \in Ready(p) : p[i].fails < MaxAttempts}
Exhausted(p) == {i \in InPlan(p) : ~Terminal(p, i) /\ p[i].fails >= MaxAttempts}
Complete(p)  == InPlan(p) # {} /\ \A i \in InPlan(p) : Terminal(p, i)

UnconfirmedDrops(p) == {i \in Items : p[i].status = "dropped" /\ ~p[i].confirmed}
InStatus(p, status) == {i \in Items : p[i].status = status}

(* Kahn's algorithm as validate_graph runs it: what has been dequeued after *)
(* n rounds, a round taking every item whose known dependencies are out.    *)
Dequeued(p) ==
  LET out[n \in 0 .. Cardinality(Items)] ==
        IF n = 0 THEN {}
        ELSE LET earlier == out[n - 1]
             IN  {i \in InPlan(p) : p[i].deps \cap InPlan(p) \subseteq earlier}
  IN  out[Cardinality(Items)]

HasCycle(p) == Dequeued(p) # InPlan(p)

ValidGraph(p) ==
  /\ \A i \in InPlan(p) : p[i].deps \subseteq InPlan(p) \ {i}
  /\ ~HasCycle(p)

-----------------------------------------------------------------------------
(* Rewrites of a plan *)

(* Interrupted attempts are taken off the record, and their items requeued. *)
Cleaned(p) ==
  [i \in Items |->
     [p[i] EXCEPT !.live = FALSE,
                  !.status = IF @ = "in_progress" THEN "todo" ELSE @]]

(* The queue again, with a fresh budget: the attempt list is emptied. *)
Revived(p, S) ==
  [i \in Items |->
     IF i \in S
       THEN [p[i] EXCEPT !.status = "todo", !.fails = 0, !.live = FALSE,
                         !.good = FALSE, !.tested = FALSE]
       ELSE p[i]]

WithStatus(p, S, status) ==
  [i \in Items |-> IF i \in S THEN [p[i] EXCEPT !.status = status] ELSE p[i]]

(* A slip: the failure is not counted. *)
FailedUncounted(p, i, status) ==
  [p EXCEPT ![i].status = status, ![i].live = FALSE, ![i].good = FALSE]

(* The attempt on record ends without success and the item goes to status. *)
Failed(p, i, status) ==
  [p EXCEPT ![i].status = status, ![i].fails = @ + 1, ![i].live = FALSE, ![i].good = FALSE]

(* One more round of triage.  Nobody tells the numbers apart from           *)
(* TriageRounds on: the count stops there, triage does not.                 *)
OneMore(rounds) == IF rounds < TriageRounds THEN rounds + 1 ELSE rounds
Marked(p, i) == [p EXCEPT ![i].triaged = OneMore(@)]

(* The split of item i into the items r[1], ..., r[Len]: draft[k] is the set *)
(* of positions the k-th replacement was drafted to depend on (positions     *)
(* outside the list and its own are dropped).  Each replacement inherits the *)
(* dependencies of i and waits for the one before it; what waited for i now  *)
(* waits for the last one.                                                   *)
Replacement(p, i, draft, r, k) ==
  NewItem({r[n] : n \in (draft[k] \cap DOMAIN r) \ {k}}
            \cup p[i].deps
            \cup (IF k = 1 THEN {} ELSE {r[k - 1]}),
          FALSE)

(* A slip: what waited for i waits for the first replacement only. *)
SplitOntoHead(p, i, draft, r) ==
  LET news == {r[k] : k \in DOMAIN r}
  IN  [j \in Items |->
         IF j \in news
           THEN Replacement(p, i, draft, r, CHOOSE k \in DOMAIN r : r[k] = j)
         ELSE IF j = i
           THEN [p[i] EXCEPT !.status = "dropped", !.triaged = OneMore(@)]
         ELSE IF i \in p[j].deps
           THEN [p[j] EXCEPT !.deps = (@ \ {i}) \cup {r[1]}]
         ELSE p[j]]

Split(p, i, draft, r) ==
  LET size == Cardinality(DOMAIN r)
      news == {r[k] : k \in DOMAIN r}
  IN  [j \in Items |->
         IF j \in news
           THEN Replacement(p, i, draft, r, CHOOSE k \in DOMAIN r : r[k] = j)
         ELSE IF j = i
           THEN [p[i] EXCEPT !.status = "dropped", !.triaged = OneMore(@)]
         ELSE IF i \in p[j].deps
           THEN [p[j] EXCEPT !.deps = (@ \ {i}) \cup {r[size]}]
         ELSE p[j]]

=============================================================================
