---------------------- MODULE MCConfigurationPublisher ----------------------
EXTENDS ConfigurationPublisher, TLC

CONSTANTS h1, h2, h3, d1, d2, x, y, k1, k2, v1

\* Two handles of x share d1 with one of y, which has d2 below it.
MCHandles   == {h1, h2, h3}
MCExtension == (h1 :> x) @@ (h2 :> x) @@ (h3 :> y)
MCSources   == (h1 :> <<d1>>) @@ (h2 :> <<d1>>) @@ (h3 :> <<d2, d1>>)
MCWritable  == (h1 :> 1) @@ (h2 :> 1) @@ (h3 :> 2)

\* x accepts at most one of its keys, y wants k1 from any source.
MCAccepted ==
    (x :> {m \in Mappings : m[k1] = Missing \/ m[k2] = Missing})
      @@ (y :> {m \in Mappings : m[k1] # Missing})

Input(h, op, k) == [handle |-> h, op |-> op, key |-> k, value |-> v1]

MCInputs ==
    {Input(h1, "set", k1), Input(h1, "delete", k1), Input(h1, "get", k1),
     Input(h2, "set", k1), Input(h2, "set", k2),
     Input(h3, "set", k1), Input(h3, "delete", k1)}

MCInit ==
    /\ Init
    /\ documents = (d1 :> [e \in Extensions |-> [k \in Keys |-> Missing]])
                  @@ (d2 :> [e \in Extensions |-> [k \in Keys |-> IF e = y THEN v1 ELSE Missing]])

MCSpec == MCInit /\ [][Next]_vars /\ \A h \in Handles : WF_vars(Proceed(h))
=============================================================================
