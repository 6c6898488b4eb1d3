--------------------------- MODULE MCVhalService ---------------------------
EXTENDS VhalService

Area(access, vur, info) == [access |-> access, vur |-> vur, info |-> info]
Config(system, version, global, access, mode, min, max, areas) ==
  [system |-> system, version |-> version, global |-> global, access |-> access,
   changeMode |-> mode, minSampleRate |-> min, maxSampleRate |-> max, areas |-> areas]
\* A continuous property with two areas of which one has VUR, an on-change one
\* that is readable at one area only, a global one with an area configuration, a
\* global one that is write only, one that is too new and a vendor property.
MCConfigs ==
  [speed |-> Config(TRUE, 2, FALSE, "READ", "CONTINUOUS", 2, 4,
                    (0 :> Area("NONE", FALSE, NULL)) @@ (1 :> Area("NONE", TRUE, {"list"}))),
   door |-> Config(TRUE, 1, FALSE, "NONE", "ON_CHANGE", 0, 0,
                   (0 :> Area("WRITE", FALSE, {})) @@ (1 :> Area("READ_WRITE", FALSE, {"min"}))),
   gear |-> Config(TRUE, 1, TRUE, "NONE", "ON_CHANGE", 0, 0,
                   0 :> Area("READ", FALSE, {"list", "max"})),
   later |-> Config(TRUE, 4, TRUE, "READ_WRITE", "ON_CHANGE", 0, 0,
                    0 :> Area("READ_WRITE", FALSE, {"list"})),
   vendor |-> Config(FALSE, NULL, TRUE, "READ_WRITE", "CONTINUOUS", 1, 2, Nothing)]
MCTestProps == {"vendor"}
Option(p, areas, rate, vur) ==
  [prop |-> p, areaIds |-> areas, rate |-> rate, vur |-> vur, validResolution |-> TRUE]
MCOptionLists ==
  {<<Option("speed", {}, 1, TRUE), Option("door", {1}, 0, FALSE)>>,
   <<Option("speed", {1}, 5, FALSE)>>, <<Option("door", {}, 0, FALSE)>>,
   <<Option("gear", {0}, 0, TRUE)>>, <<Option("later", {}, 0, FALSE)>>,
   <<Option("vendor", {0}, 0, TRUE)>>}
MCQueryLists ==
  {<<<<"door", 0>>, <<"gear", 1>>, <<"speed", 1>>>>, <<<<"door", 1>>>>,
   <<<<"later", 0>>, <<"gear", 0>>>>, <<<<"vendor", 0>>, <<"gear", 0>>>>}

Bound(ops) == [op \in Inputs |-> IF op \in DOMAIN ops THEN ops[op] ELSE 0]
\* Deaths against calls; refusals; the end of the service; configurations read by
\* two threads while they change; events with and without a window.
MCBudgets ==
  {Bound([fetch |-> 1, subscribe |-> 2, die |-> 1]),
   Bound([fetch |-> 1, subscribe |-> 1, register |-> 1, die |-> 1, refuse |-> 1]),
   Bound([fetch |-> 1, subscribe |-> 1, unsubscribe |-> 1, refuse |-> 1]),
   Bound([register |-> 1, unsubscribe |-> 1, values |-> 1, die |-> 1, destroy |-> 1]),
   Bound([values |-> 2, die |-> 1]),
   Bound([fetch |-> 3, query |-> 1, dump |-> 2, subscribe |-> 1]),
   Bound([fetch |-> 2, values |-> 1, dump |-> 1]),
   Bound([event |-> 3, window |-> 1, beat |-> 1, destroy |-> 1]),
   Bound([event |-> 2, beat |-> 1, destroy |-> 1])}
=============================================================================
