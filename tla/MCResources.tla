------------------------------ MODULE MCResources ------------------------------
(* The instance of Resources that TLC checks. *)
EXTENDS Resources

CONSTANTS r1, r2

MCKinds == {MmapKind, BlobKind, CowKind, FactKind, StreamKind, CapabilityKind}

MCExpiries == {None, 0}

Query(r, v) == [capability |-> Ref(r, v), operation |-> "query"]
Drop(r, v)  == [capability |-> Ref(r, v), operation |-> "drop"]

Request(type, export, steps, compensations, rollback) ==
  [type |-> type, export |-> export, steps |-> steps, compensations |-> compensations,
   rollback_guarantee |-> rollback]

Export(ref)      == Request("export", ref, <<>>, <<>>, FALSE)
Batch(steps)     == Request("batch", None, steps, <<>>, FALSE)
Saga(steps, undo) == Request("saga", None, steps, undo, FALSE)

MCRequests ==
  {Export(Ref(r1, v)) : v \in 1..2}
    \cup {Request("batch", None, <<Query(r1, 1)>>, <<>>, TRUE),
          Batch(<<Query(r1, 1), Query(r1, 1)>>),
          Saga(<<Query(r1, 1), Query(r1, 1)>>, <<Query(r1, 1), Query(r1, 2)>>),
          Saga(<<Query(r1, 1), Drop(r1, 1)>>, <<Query(r1, 1), Drop(r1, 1)>>),
          Saga(<<>>, <<Query(r1, 1)>>)}
================================================================================
