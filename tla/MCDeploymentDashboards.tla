----------------------- MODULE MCDeploymentDashboards -----------------------
(* Instances of DeploymentDashboards for TLC.                              *)
EXTENDS DeploymentDashboards

CONSTANTS r1, r2

Of(type)      == [type |-> {type}]
Maybe(type)   == [type |-> {type, "null"}]
Object(props) == [type |-> {"object"}, properties |-> props]
Array(items)  == [type |-> {"array"}, items |-> items]
Fixed(items, n) == [type |-> {"array"}, items |-> items, minItems |-> n, maxItems |-> n]
Tuple(items)  == [type |-> {"array"}, prefixItems |-> items, minItems |-> Len(items),
                  maxItems |-> Len(items)]

a == <<"a">>
b == <<"b">>

\* Named schemas.
MCDefs == [Point |-> Object(<< <<a, Of("number")>> >>), Flag |-> [enum |-> {"boolean"}]]

Nothing == Object(<<>>)

\* What a model's input or output looks like: numbers and lists of them, feature matrices,
\* batches of records, optional values, tuples, references.
MCSchemas ==
    <<[input |-> Object(<< <<a, Fixed(Fixed(Of("number"), 1), 1)>> >>),
      output |-> Object(<< <<a, Array(Of("string"))>> >>)],
     [input |-> Object(<< <<a, Array(Array(Of("boolean")))>> >>),
      output |-> Object(<< <<a, Object(<< <<b, Maybe("integer")>> >>)>> >>)],
     [input |-> Object(<< <<a, Array([ref |-> "Point"])>> >>),
      output |-> Object(<< <<a, [anyOf |-> <<[ref |-> "Flag"], Of("null")>>]>> >>)],
     [input |-> Object(<< <<a, Tuple(<<Of("string"), Array(Of("number"))>>)>> >>),
      output |-> Nothing],
     [input |-> Object(<< <<a, [oneOf |-> <<Of("number"), Array(Of("number"))>>]>> >>),
      output |-> Object(<< <<b, Array(Array(Array(Of("number"))))>> >>)]>>
=============================================================================
