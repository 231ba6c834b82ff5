------------------------- MODULE MCDatasetRegistry -------------------------
(* Instances of DatasetRegistry for TLC.                                   *)
EXTENDS DatasetRegistry, TLC

CONSTANTS u1, u2, u3, a, b, s1, s2, s3, s4, csv, parquet

\* Two uploads of one name and one of a name with the same slug.
SharedNames == u1 :> a @@ u2 :> a @@ u3 :> b
TwoTypes    == u1 :> csv @@ u2 :> parquet @@ u3 :> csv
Colliding   == a :> <<s1, s2, s3, s4>> @@ b :> <<s1, s2, s3, s4>>
Asked       == {<<s1, 0>>, <<s2, 1>>}
=============================================================================
