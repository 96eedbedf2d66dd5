------------------------------ MODULE MCParts -------------------------------
(* Four parts that are each a small program of their own and share no state: *)
(* the wrapping words of the board, the ranges of the sparse file, the split *)
(* of a stream into frames, the preview over two starts of the receiver.     *)
(* The initial state says which one runs; the others rest.  The words have   *)
(* eight values and wrap twice, the file has nine bytes, a stream up to      *)
(* seven units.                                                              *)
EXTENDS WireWords, Preview, SparseRanges, NalSplit

VARIABLE part

partVars == <<part, wireVars, previewVars, sparseVars, nalVars>>

PartsInit ==
  /\ part \in {"words", "ranges", "frames", "preview"}
  /\ WireInit /\ PreviewInit /\ SparseInit
  /\ NalInit /\ (part # "frames" => delimited = "none")

Words   == part = "words" /\ WireNext /\ UNCHANGED <<part, previewVars, sparseVars, nalVars>>
Ranges  == part = "ranges" /\ SparseNext /\ UNCHANGED <<part, wireVars, previewVars, nalVars>>
Split   == part = "frames" /\ NalNext /\ UNCHANGED <<part, wireVars, previewVars, sparseVars>>
Viewed(A) == part = "preview" /\ A /\ UNCHANGED <<part, wireVars, sparseVars, nalVars>>

PartsNext == Words \/ Ranges \/ Split \/ Viewed(PreviewNext)

PartsSpec ==
  /\ PartsInit /\ [][PartsNext]_partVars
  /\ WF_partVars(Viewed(Gui)) /\ \A s \in Sessions : WF_partVars(Viewed(Worker(s)))
=============================================================================
