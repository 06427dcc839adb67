------------------------ MODULE MCPrincipalRegistry ------------------------
\* Instances of PrincipalRegistry for TLC.
EXTENDS PrincipalRegistry, TLC

CONSTANTS o1, o2, o3, o4, n1, n2, n3, n4

Symmetric == Permutations(Callers)

\* The operations and nonces of four commands.
FourKeys ==
  {[operation |-> o1, nonce |-> n1], [operation |-> o2, nonce |-> n2],
   [operation |-> o3, nonce |-> n3], [operation |-> o4, nonce |-> n4]}

\* A fourth operation that repeats the nonce of the third.
RepeatedKeys ==
  {[operation |-> o1, nonce |-> n1], [operation |-> o2, nonce |-> n2],
   [operation |-> o3, nonce |-> n3], [operation |-> o4, nonce |-> n3]}
============================================================================
