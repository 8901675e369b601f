--------------------------- MODULE MCPackPipeline ---------------------------
(* Model checking of the pipeline: one run with every retry and every       *)
(* fault, or two runs of one CV, whose creations, polls and tasks           *)
(* interleave without a fault and with retries of the parser only.          *)
EXTENDS PackPipeline
LOCAL INSTANCE TLC

Requested == {r \in Runs : request[r] # "none"}

FaultFree ==
    /\ \A k \in FaultKind : faults[k] = 0
    /\ \A t \in Tasks : task[t].kind \in {"llm", "render"} => task[t].tries = 0

\* The bound of the run: more than one request only where nothing goes wrong.
OneRunOrNoFault == Cardinality(Requested') > 1 => FaultFree'

\* Runs are alike, and so are message slots.
MCSymmetry == Permutations(Runs) \cup Permutations(Tasks)
=============================================================================
