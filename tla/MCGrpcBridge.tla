---------------------------- MODULE MCGrpcBridge ----------------------------
EXTENDS GrpcBridge

Bound(ops) == [op \in Inputs |-> IF op \in DOMAIN ops THEN ops[op] ELSE 0]
\* Events against gets, before the callback is registered too; a set of several
\* values; streams that are lost; the end of the server and of the client; calls; a
\* server without the newer calls.
MCBudgets == {Bound([change |-> 1, get |-> 1, connect |-> 1, keys |-> 2]),
              Bound([change |-> 2, get |-> 2, connect |-> 1, keys |-> 1]),
              Bound([change |-> 1, get |-> 1, register |-> 1, connect |-> 1, keys |-> 1]),
              Bound([get |-> 1, set |-> 1, connect |-> 1, keys |-> 1]),
              Bound([set |-> 2, keys |-> 2]),
              Bound([change |-> 2, connect |-> 2, disconnect |-> 1, keys |-> 1]),
              Bound([supported |-> 2, connect |-> 2, shutdown |-> 1, close |-> 1]),
              Bound([change |-> 1, connect |-> 3, disconnect |-> 1, shutdown |-> 1,
                     close |-> 1, keys |-> 1]),
              Bound([call |-> 3, shutdown |-> 1]),
              Bound([call |-> 1, legacy |-> 1, supported |-> 1, shutdown |-> 1,
                     close |-> 1])}
=============================================================================
