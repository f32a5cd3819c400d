-------------------------- MODULE MCPluggableService --------------------------
EXTENDS PluggableService, TLC

CONSTANTS a, b, c1, c2, c3, c4

MCRequests == {a, b}

\* Two requests to plug, one to clear and a question for the plugged code.
MCClients == {c1, c2, c3, c4}
MCAsks == c1 :> Plug(a) @@ c2 :> Plug(b) @@ c3 :> GetPlugged @@ c4 :> Plug(NoRequest)

AllFaults == FaultKinds
=============================================================================
