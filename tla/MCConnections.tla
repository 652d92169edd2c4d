--------------------------- MODULE MCConnections ----------------------------
EXTENDS Connections, TLC

CONSTANTS A, B

\* One participant loses the connection and returns, the partner stays or goes.
Restless == A :> 2 @@ B :> 1
=============================================================================
