--------------------------- MODULE MCDocumentIndex ---------------------------
(***************************************************************************)
(* Two files and five texts for TLC: none, one chunk, exactly one chunk in *)
(* two versions, and several chunks.                                       *)
(***************************************************************************)
EXTENDS DocumentIndex, TLC

CONSTANTS readme, brief, empty, short, full, revised, long

TwoFiles == <<brief, readme>>

LengthOf == empty :> 0 @@ short :> 2 @@ full :> 5 @@ revised :> 5 @@ long :> 12

=============================================================================
