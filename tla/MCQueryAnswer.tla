--------------------------- MODULE MCQueryAnswer ---------------------------
(* Instances of QueryAnswer for TLC. *)
EXTENDS QueryAnswer

CONSTANT DocIds

\* The ascending posting lists over DocIds, the empty one included.
MCPostings == {SetToSortSeq(docs, <) : docs \in SUBSET DocIds}

\* log2(3 / (df + 1)) for df = 0..3: 1.58, 0.58, 0 and -0.42, doubled.
MCIdf == (0 :> 3) @@ (1 :> 1) @@ (2 :> 0) @@ (3 :> -1)

MCOldAnswer == <<1>>
=============================================================================
