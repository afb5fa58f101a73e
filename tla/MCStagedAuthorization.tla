----------------------- MODULE MCStagedAuthorization -----------------------
(* One allocation, two signed materializations of it and two signed starts *)
(* of the first; start s1 was signed with the request nonce of m1, s2 with *)
(* one of its own.                                                         *)
EXTENDS StagedAuthorization

CONSTANTS m1, m2, s1, s2, n1, n2, n3

MCMaterializationOf == [s \in Starts |-> m1]
MCRequestNonce == [d \in Deliveries |-> CASE d \in {m1, s1} -> n1 [] d = m2 -> n2 [] d = s2 -> n3]
=============================================================================
