-------------------------------- MODULE MCAccess --------------------------------
(* Access for TLC.  Requests are interchangeable.                             *)
EXTENDS Access, TLC

CONSTANTS k1, k2

ASSUME AccessParameters == Live!LiveAssumption

\* One API token, or two with the same first characters.
OnePrefix == k1 :> "p"
SamePrefix == k1 :> "p" @@ k2 :> "p"

Interchangeable == Permutations(Handlers)
=============================================================================
