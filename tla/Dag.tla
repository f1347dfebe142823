-------------------------------- MODULE Dag --------------------------------
(***************************************************************************)
(* The dependency graph of a workflow run (crates/harness-dag): what graph *)
(* is accepted, and how start, complete and cancel move a run along.  The  *)
(* engine is synchronous; a run is a value, and each operation maps a run  *)
(* to a run and the stages it emits.                                       *)
(*                                                                         *)
(* A stage id is a pair <<s, i>>: <<s, 0>> is the stage s as submitted,    *)
(* <<s, i>> the i-th child a map stage s expands to.  Their order is the   *)
(* order of the ids in the code's BTree collections.                       *)
(***************************************************************************)
EXTENDS Naturals, Sequences, FiniteSets, FiniteSetsExt, Functions, TLC

CONSTANTS
  Stage,      \* stage ids a graph may use, a set of numbers
  MaxItems,   \* how long an array answer may be
  Cap         \* maxStages, children included

ASSUME DagAssumption ==
  /\ Stage \subseteq Nat /\ IsFiniteSet(Stage)
  /\ MaxItems \in Nat /\ Cap \in Nat \ {0}

Id == Stage \X (0..MaxItems)
NoStage == <<0, 0>>
Kids(m, n) == {<<m[1], i>> : i \in 1..n}

(* An answer: who gave it, and how long the array it parses to is.         *)
NotArray == MaxItems + 1
Answered(by, n) == [ok |-> TRUE, by |-> by, items |-> n]
EmptyArray == Answered(<< >>, 0)
ErrorAnswer == [ok |-> FALSE, by |-> << >>, items |-> 0]

(***************************************************************************)
(* validate: the ancestors are found in waves, each stage after the stages *)
(* it needs; a wave that finds none leaves a cycle.  uses are the stages a *)
(* prompt's template names.                                                *)
(***************************************************************************)
Normalise(g) ==
  [s \in DOMAIN g |->
     IF g[s].kind = "map" /\ g[s].over # NoStage
     THEN [g[s] EXCEPT !.needs = @ \cup {g[s].over}] ELSE g[s]]

Ancestors(g) ==
  LET wave[n \in 0..Cardinality(DOMAIN g)] ==
        IF n = 0 THEN << >>
        ELSE LET known == wave[n - 1]
                 new == {s \in DOMAIN g \ DOMAIN known :
                           g[s].needs \subseteq DOMAIN known}
             IN  [s \in new |-> g[s].needs \cup UNION {known[d] : d \in g[s].needs}]
                 @@ known
  IN  wave[Cardinality(DOMAIN g)]

Valid(g) ==
  /\ DOMAIN g # {} /\ Cardinality(DOMAIN g) <= Cap
  /\ \A s \in DOMAIN g :
       /\ (g[s].kind = "map") = (g[s].over # NoStage)
       /\ g[s].needs \subseteq DOMAIN g
       /\ g[s].kind = "map" => g[g[s].over].schema \/ g[g[s].over].kind = "map"
  /\ DOMAIN Ancestors(g) = DOMAIN g
  /\ \A s \in DOMAIN g : g[s].uses \subseteq Ancestors(g)[s]

(* stage_key without the models: a stage's definition and its ancestors'.  *)
KeyOf(g, s) ==
  LET up[n \in 0..Cardinality(DOMAIN g)] ==
        IF n = 0 THEN {s} ELSE up[n - 1] \cup UNION {g[d].needs : d \in up[n - 1]}
  IN  Restrict(g, up[Cardinality(DOMAIN g)])

FromStages(g) ==
  [graph     |-> g,
   waiting   |-> [s \in DOMAIN g |-> Cardinality(g[s].needs)],
   ready     |-> {s \in DOMAIN g : g[s].needs = {}},
   remaining |-> << >>,
   output    |-> << >>,
   inflight  |-> {},
   status    |-> [s \in DOMAIN g |-> "Pending"],
   retries   |-> {},
   state     |-> "Running",
   degraded  |-> FALSE]

SettleEager(d, id, answer) ==    \* mutation: ready with one need still open
  LET next == {s \in DOMAIN d.waiting : id \in d.graph[s].needs}
      waits == [s \in DOMAIN d.waiting \ {id} |->
                  IF s \in next THEN d.waiting[s] - 1 ELSE d.waiting[s]]
  IN  [d EXCEPT !.output = (id :> answer) @@ @,
                !.status = [@ EXCEPT ![id] = "Done"],
                !.waiting = waits,
                !.ready = @ \cup {s \in next \ {id} : waits[s] <= 1}]

(* settle: the stages that waited for this one wait for one stage less.    *)
Settle(d, id, answer) ==
  LET next == {s \in DOMAIN d.waiting : id \in d.graph[s].needs}
      waits == [s \in DOMAIN d.waiting \ {id} |->
                  IF s \in next /\ d.waiting[s] > 0
                  THEN d.waiting[s] - 1 ELSE d.waiting[s]]
  IN  [d EXCEPT !.output = (id :> answer) @@ @,
                !.status = [@ EXCEPT ![id] = "Done"],
                !.waiting = waits,
                !.ready = @ \cup {s \in next \ {id} : waits[s] = 0}]

(* settle_parent: the last child settles the map with the list of answers. *)
SettleParent(d, child) ==
  LET m == <<child[1], 0>>
      n == Cardinality({i \in DOMAIN d.graph : i[1] = m[1] /\ i # m})
  IN  IF child[2] = 0 THEN d
      ELSE IF d.remaining[m] > 1 THEN [d EXCEPT !.remaining[m] = @ - 1]
      ELSE Settle([d EXCEPT !.remaining = Restrict(@, DOMAIN @ \ {m})], m,
                  Answered([i \in 1..n |-> d.output[<<m[1], i>>].by], n))

Finish(d, state) ==
  [d EXCEPT !.state = state,
            !.status = [s \in DOMAIN @ |->
                          IF @[s] \notin {"Pending", "Running"} THEN @[s]
                          ELSE IF state = "Cancelled" THEN "Cancelled"
                          ELSE "Stopped"]]

(***************************************************************************)
(* One wave of emit: the ready agents go in flight, the ready maps expand  *)
(* (expand_map) and the maps without items settle at the end of the wave.  *)
(* A prompt that cannot be rendered and a map over the cap fail the run.   *)
(***************************************************************************)
Child(d, m, i) ==
  LET source == d.output[d.graph[m].over]
  IN  [d.graph[m] EXCEPT !.kind = "agent", !.over = NoStage,
         !.text = <<@, i, source, [u \in d.graph[m].uses |-> d.output[u]]>>]

Wave(d) ==
  LET maps == {s \in d.ready : d.graph[s].kind = "map"}
      size(m) == d.output[d.graph[m].over].items
      empty == {m \in maps : size(m) = 0}
      kids == UNION {Kids(m, size(m)) : m \in maps}
      rendered == (d.ready \ empty)
      begun == (d.ready \ maps) \cup kids
      e == [d EXCEPT
              !.graph = [k \in kids |-> Child(d, <<k[1], 0>>, k[2])] @@ @,
              !.ready = {},
              !.inflight = @ \cup begun,
              !.status = [s \in begun \cup maps |-> "Running"] @@ @,
              !.remaining = [m \in maps \ empty |-> size(m)] @@ @,
              !.degraded = @ \/ empty # {}]
  IN  IF \/ \E s \in rendered : ~(d.graph[s].uses \subseteq DOMAIN d.output)
         \/ Cardinality(DOMAIN d.graph) + Cardinality(kids) > Cap
      THEN Finish([d EXCEPT !.ready = {}], "Failed")
      ELSE FoldSet(LAMBDA m, acc : Settle(acc, m, EmptyArray), e, empty)

Emit(d) ==
  LET wave[n \in 0..Cardinality(DOMAIN d.graph)] ==
        IF n = 0 THEN d
        ELSE LET p == wave[n - 1]
             IN  IF p.ready = {} \/ p.state # "Running" THEN p ELSE Wave(p)
      e == wave[Cardinality(DOMAIN d.graph)]
  IN  IF e.state # "Running" \/ e.inflight # {} THEN e
      ELSE IF DOMAIN e.waiting = {} THEN Finish(e, "Done")
      ELSE [e EXCEPT !.state = "Stalled"]

(* What an operation returns: the run, and the stages it emits.            *)
Emitted(d, e) ==
  [dag |-> e, spawn |-> IF e.state = "Running" THEN e.inflight \ d.inflight ELSE {}]

Start(d) == Emitted(d, Emit(d))

CompleteRetryLost(d, id, answer) ==    \* mutation: a retry is not in flight again
  LET landed == [d EXCEPT !.inflight = @ \ {id}]
      failed == Finish([landed EXCEPT !.status[id] = "Failed"], "Failed")
  IN  IF d.state # "Running" \/ id \notin d.inflight THEN [dag |-> d, spawn |-> {}]
      ELSE IF ~answer.ok \/ id \in d.retries THEN [dag |-> failed, spawn |-> {}]
      ELSE IF d.graph[id].schema /\ answer.items = NotArray
      THEN [dag |-> [landed EXCEPT !.retries = @ \cup {id}], spawn |-> {id}]
      ELSE Emitted(landed, Emit(SettleParent(Settle(landed, id, answer), id)))

Complete(d, id, answer) ==
  LET landed == [d EXCEPT !.inflight = @ \ {id}]
      failed == Finish([landed EXCEPT !.status[id] = "Failed"], "Failed")
  IN  IF d.state # "Running" \/ id \notin d.inflight THEN [dag |-> d, spawn |-> {}]
      ELSE IF ~answer.ok THEN [dag |-> failed, spawn |-> {}]
      ELSE IF d.graph[id].schema /\ answer.items = NotArray
      THEN IF id \in d.retries THEN [dag |-> failed, spawn |-> {}]
           ELSE [dag |-> [d EXCEPT !.retries = @ \cup {id}], spawn |-> {id}]
      ELSE Emitted(landed, Emit(SettleParent(Settle(landed, id, answer), id)))

Cancel(d) == IF d.state = "Running" THEN Finish(d, "Cancelled") ELSE d
=============================================================================
