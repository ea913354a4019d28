------------------------------- MODULE Documents -------------------------------
(***************************************************************************)
(* What the codecs find out about a document by walking it.                *)
(***************************************************************************)
EXTENDS Contracts, FiniteSetsExt

(* MessagePack structure. Both ends walk the value before it is used. *)

RECURSIVE Deepest(_), Widest(_), LongestBlob(_)

Parts(doc) == IF doc[1] \in {"list", "map"} THEN {doc[2][i] : i \in DOMAIN doc[2]} ELSE {}

Deepest(doc) ==
  IF Parts(doc) = {} THEN 0 ELSE 1 + Max({Deepest(part) : part \in Parts(doc)})

Widest(doc) ==
  IF doc[1] \notin {"list", "map"} THEN 0
  ELSE Max({Cardinality(DOMAIN doc[2])} \cup {Widest(part) : part \in Parts(doc)})

LongestBlob(doc) ==
  IF doc[1] = "bytes" THEN doc[2] ELSE Max({0} \cup {LongestBlob(part) : part \in Parts(doc)})
================================================================================
