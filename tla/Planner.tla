------------------------------- MODULE Planner -------------------------------
(***************************************************************************)
(* daemon/planner.py and DaemonLoop._plan_empty_bundles: graph code for    *)
(* bundles without tasks.                                                  *)
(*                                                                         *)
(* The daemon's one background loop looks for claimable tasks              *)
(* (DaemonLoop.tla), then for bundles to plan, then sleeps.  A round lists *)
(* the cookbook's bundles, reads one after the other in detail, gives the  *)
(* first empty one to a brain, checks what the brain wrote, and attaches   *)
(* it; then the round is over.  Every read is a call during which people,  *)
(* other daemons and krewhub go on.                                        *)
(*                                                                         *)
(* An output of the brain is the sequence of its fenced blocks, or one     *)
(* text without fences.  A text is one of Texts; what is cut off an output *)
(* of more than 128 KB makes it another of these.                          *)
(***************************************************************************)
EXTENDS Integers, Sequences, SequencesExt

CONSTANTS
  MaxBundles,  \* bound: the bundles of the cookbook, in the order listed
  MaxBlocks,   \* bound: the fenced blocks of an output
  None

ASSUME PlannerAssumption ==
  /\ MaxBundles \in Nat \ {0}
  /\ MaxBlocks \in Nat \ {0}
  /\ None \notin 1..MaxBundles

Bundles == 1..MaxBundles

VARIABLES
  hub,       \* krewhub: each bundle's status, and whether it has tasks, a graph
  prompted,  \* krewhub: the bundles with a prompt
  broken,    \* krewhub: the bundles whose detail cannot be read
  pc,        \* where the loop is
  listed,    \* the bundles listed as open that are still to be looked at
  at,        \* the bundle being looked at, or planned
  planning   \* DaemonLoop._planning_bundle

hubVars  == <<hub, prompted, broken>>
loopVars == <<pc, listed, at, planning>>
vars     == <<hubVars, loopVars>>

Statuses == {"absent", "open", "closed"}

Init ==
  /\ hub = [b \in Bundles |-> [status |-> "absent", tasks |-> FALSE, graph |-> FALSE]]
  /\ prompted \in SUBSET Bundles
  /\ broken \in SUBSET Bundles
  /\ pc = "claims"
  /\ listed = <<>>
  /\ at = None
  /\ planning = None

Open(b)  == hub[b].status = "open"
Empty(b) == ~hub[b].tasks /\ ~hub[b].graph

-----------------------------------------------------------------------------
(* What the brain writes: clean_code, _is_valid_graph_code.                *)

\* A graph; a graph that begins with an import from __future__; code that
\* builds a graph and has what the sandbox forbids; anything else.
Texts == {"graph", "future graph", "forbidden graph", "prose"}

Outputs ==
  [fenced : {TRUE}, texts : SeqOf(Texts, MaxBlocks) \ {<<>>}]
    \cup [fenced : {FALSE}, texts : SeqOf(Texts, 1)]

Mentions(text) == text # "prose"

\* The fenced block that mentions a graph, the first of them; else the first.
Picked(texts) ==
  IF \E i \in DOMAIN texts : Mentions(texts[i])
    THEN SelectSeq(texts, Mentions)[1]
    ELSE texts[1]

WithoutFuture(text) == IF text = "future graph" THEN "graph" ELSE text

\* full_output is empty when there is no text at all.
CleanCode(out) == WithoutFuture(Picked(out.texts))

IsValidGraphCode(code) == code = "graph"

Usable(out) == out.texts # <<>> /\ IsValidGraphCode(CleanCode(out))

-----------------------------------------------------------------------------
(* The loop.                                                               *)

RoundOver ==
  /\ pc' = "sleeps"
  /\ listed' = <<>>
  /\ at' = None

\* _poll_claimable_tasks is over, and no bundle is being planned.
ClaimsLookedAt ==
  /\ pc = "claims"
  /\ IF planning = None
       THEN pc' = "lists" /\ UNCHANGED <<listed, at>>
       ELSE RoundOver
  /\ UNCHANGED <<hubVars, planning>>

\* list_bundles; what is not open is passed over.
BundlesListed ==
  /\ pc = "lists"
  /\ listed' = SelectSeq([b \in Bundles |-> b], Open)
  /\ pc' = "next"
  /\ UNCHANGED <<hubVars, at, planning>>

ListingFails ==
  /\ pc = "lists"
  /\ RoundOver
  /\ UNCHANGED <<hubVars, planning>>

NextBundle ==
  /\ pc = "next"
  /\ IF listed = <<>>
       THEN RoundOver
       ELSE /\ at' = Head(listed)
            /\ listed' = Tail(listed)
            /\ pc' = "looks"
  /\ UNCHANGED <<hubVars, planning>>

NeedsPlan(b) == Empty(b) /\ b \in prompted

\* get_bundle answers: planned, or passed over.
BundleRead(b) ==
  /\ pc = "looks"
  /\ at = b
  /\ b \notin broken
  /\ IF NeedsPlan(b)
       THEN pc' = "plans" /\ planning' = b /\ at' = at
       ELSE pc' = "next" /\ planning' = planning /\ at' = None
  /\ UNCHANGED <<hubVars, listed>>

\* Mutant: the round ends at a bundle that cannot be read.
MutReadFails ==
  /\ pc = "looks"
  /\ RoundOver
  /\ UNCHANGED <<hubVars, planning>>

ReadFails ==
  /\ pc = "looks"
  /\ pc' = "next"
  /\ at' = None
  /\ UNCHANGED <<hubVars, listed, planning>>

BrainPlans ==
  /\ pc = "plans"
  /\ \E out \in Outputs : Usable(out)
  /\ pc' = "attaches"
  /\ UNCHANGED <<hubVars, listed, at, planning>>

\* `finally`, and the round ends with the first bundle that was planned.
PlanningOver ==
  /\ RoundOver
  /\ planning' = None

\* Nothing usable, or execute raises.
BrainFails ==
  /\ pc = "plans"
  /\ \E out \in Outputs : ~Usable(out)
  /\ PlanningOver
  /\ UNCHANGED hubVars

\* The runner dies, of a line that is too long or no UTF-8, and leaves neither a
\* result nor the sentinel: plan_bundle waits on, and the one loop with it.
RunnerDies ==
  /\ pc = "plans"
  /\ pc' = "stuck"
  /\ UNCHANGED <<hubVars, listed, at, planning>>

\* krewhub takes the graph unless the bundle has one; whether the answer comes
\* back or not, the round is over.
GraphAttached ==
  /\ pc = "attaches"
  /\ ~hub[at].graph
  /\ hub' = [hub EXCEPT ![at].graph = TRUE]
  /\ PlanningOver
  /\ UNCHANGED <<prompted, broken>>

\* Mutant: the graph is sent again until krewhub takes it.
MutAttachFails ==
  /\ pc = "attaches"
  /\ UNCHANGED vars

\* 404, 409, rejected by krewhub's sandbox, or the call fails.
AttachFails ==
  /\ pc = "attaches"
  /\ PlanningOver
  /\ UNCHANGED hubVars

Sleeps ==
  /\ pc = "sleeps"
  /\ pc' = "claims"
  /\ UNCHANGED <<hubVars, listed, at, planning>>

-----------------------------------------------------------------------------
(* People, other daemons and krewhub.                                      *)

BundleCreated(b) ==
  /\ hub[b].status = "absent"
  /\ \E withTasks \in BOOLEAN :
       hub' = [hub EXCEPT ![b] = [@ EXCEPT !.status = "open", !.tasks = withTasks]]
  /\ UNCHANGED <<prompted, broken, loopVars>>

\* A person adds a task, or krewhub makes the tasks of the graph.
TaskAdded(b) ==
  /\ Open(b)
  /\ ~hub[b].tasks
  /\ hub' = [hub EXCEPT ![b].tasks = TRUE]
  /\ UNCHANGED <<prompted, broken, loopVars>>

AttachedElsewhere(b) ==
  /\ Open(b)
  /\ ~hub[b].graph
  /\ hub' = [hub EXCEPT ![b].graph = TRUE]
  /\ UNCHANGED <<prompted, broken, loopVars>>

BundleClosed(b) ==
  /\ Open(b)
  /\ hub' = [hub EXCEPT ![b].status = "closed"]
  /\ UNCHANGED <<prompted, broken, loopVars>>

-----------------------------------------------------------------------------
Brain == BrainPlans \/ BrainFails \/ RunnerDies

Loop ==
  \/ ClaimsLookedAt \/ BundlesListed \/ ListingFails \/ NextBundle
  \/ \E b \in Bundles : BundleRead(b)
  \/ ReadFails \/ GraphAttached \/ AttachFails \/ Sleeps

World ==
  \E b \in Bundles :
    BundleCreated(b) \/ TaskAdded(b) \/ AttachedElsewhere(b) \/ BundleClosed(b)

Next == Loop \/ Brain \/ World

Spec == Init /\ [][Next]_vars

(* The loop goes on between two calls and after a call, and a call ends    *)
(* within its timeout.  Nothing obliges a brain: plan_bundle sets it no    *)
(* deadline.  krewhub lets itself be read again and again.                 *)
FairSpec ==
  /\ Spec
  /\ WF_vars(Loop)
  /\ SF_vars(BundlesListed) /\ \A b \in Bundles : SF_vars(BundleRead(b))

-----------------------------------------------------------------------------
(* Properties.                                                             *)

TypeOK ==
  /\ hub \in [Bundles -> [status : Statuses, tasks : BOOLEAN, graph : BOOLEAN]]
  /\ prompted \subseteq Bundles /\ broken \subseteq Bundles
  /\ pc \in {"claims", "lists", "next", "looks", "plans", "stuck", "attaches",
            "sleeps"}
  /\ listed \in SeqOf(Bundles, MaxBundles)
  /\ at \in Bundles \cup {None}
  /\ planning = IF pc \in {"plans", "stuck", "attaches"} THEN at ELSE None

Planned(b) == pc = "plans" /\ at = b

\* A brain keeps the loop for ever.
BrainStays == <>[](pc \in {"plans", "stuck"})

Waiting(b) == Open(b) /\ NeedsPlan(b) /\ b \notin broken

(* A bundle that waits for its graph for ever is given to a brain again    *)
(* and again, although a round plans one bundle only, bundles keep coming  *)
(* before it, and some of these cannot be read or have no prompt           *)
(* (loop.py:804-860).  It may starve only behind a bundle listed before it *)
(* that is planned over and over in vain, or behind a brain that never     *)
(* comes to an end.                                                        *)
EveryBundleTried ==
  \A b \in Bundles :
    <>[]Waiting(b) =>
      \/ []<>Planned(b)
      \/ \E earlier \in 1..(b - 1) : []<>Planned(earlier)
      \/ BrainStays

(* The poll loop gets back to the claimable tasks after every round, also  *)
(* when brains fail, and when another daemon's graph was there first and   *)
(* krewhub refuses this one for ever (loop.py:211-215, planner.py:321-341);*)
(* only a brain that never comes to an end keeps it from them.             *)
ClaimsGoOn == []<>(pc = "claims") \/ BrainStays
=============================================================================
