--------------------------- MODULE MCConformanceRun ---------------------------
(* ConformanceRun with a suite of a test known to fail on this device, which *)
(* also talks to it past the session, a plain one, and one that writes.      *)
EXTENDS ConformanceRun

CONSTANTS known, plain, writer, media

MCSuite ==
  [t \in Test |->
     [requires |-> IF t = plain THEN {} ELSE {media},
      demands  |-> IF t = writer THEN Consent ELSE {},
      knownBad |-> t = known,
      aside    |-> t = known]]

\* The workers are interchangeable: the next-state relation and the invariants
\* name none.
WorkerSymmetry == Permutations(Worker)
==============================================================================
