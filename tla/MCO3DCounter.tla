---------------------------- MODULE MCO3DCounter ----------------------------
(* Two counters in one list: one with a range, callbacks and every mode that *)
(* has an end, and a continuous one that is advanced by nothing, so that its *)
(* count is no bound on the number of ticks.                                 *)
EXTENDS O3DCounter

CONSTANTS c1, c2

MCCounters == {c1, c2}
MCTypeOf == [c \in MCCounters |-> "SecondCounter"]
Ranged(m, s, e, f) == [mode |-> m, start |-> s, end |-> e, multiplier |-> f]

Still == Ranged("CONTINUOUS", 0, 1, 0)

MCSetups ==
    (c1 :> {Ranged("ONCE", 0, 1, 1), Ranged("CYCLE", 0, 2, 1), Ranged("OSCILLATE", 1, 0, -1)})
    @@ (c2 :> {Still})

\* One that neither stops, wraps nor turns.
MCContinuous == (c1 :> {Ranged("CONTINUOUS", 0, 1, 1)}) @@ (c2 :> {Still})

MCCallbackCounts == (c1 :> {0, 1}) @@ (c2 :> {})
MCCounts == (c1 :> {0, 1}) @@ (c2 :> {})
MCAmounts == {0, 1}

(* The loops of advance, turn by turn.  The paths have no loop, and come to  *)
(* the same legs.                                                            *)

RECURSIVE CycleLoop(_, _, _, _)
CycleLoop(from, to, behind, ahead) ==
    IF to < ahead THEN <<<<from, to>>>>
    ELSE IF ahead = behind THEN <<<<from, ahead>>, <<from, to>>>>
    ELSE <<<<from, ahead>>>> \o CycleLoop(behind, to - (ahead - behind), behind, ahead)

RECURSIVE BounceLoop(_, _, _, _)
BounceLoop(from, delta, behind, ahead) ==
    LET rest == delta - (ahead - from)
    IN  IF delta = 0 \/ rest < 0 THEN <<<<from, from + delta>>>>
        ELSE IF rest = 0 \/ ahead = behind THEN <<<<from, ahead>>, <<ahead, ahead>>>>
        ELSE IF ahead - rest > behind THEN <<<<from, ahead>>, <<ahead, ahead - rest>>>>
        ELSE <<<<from, ahead>>, <<ahead, behind>>>>
               \o BounceLoop(behind, rest - (ahead - behind), behind, ahead)

ASSUME PathsAreLoops ==
    \A from \in -4 .. 4, delta \in 0 .. 9, behind \in -2 .. 2, range \in 0 .. 3 :
        LET ahead == behind + range
        IN  /\ CyclePath(from, from + delta, behind, ahead) = CycleLoop(from, from + delta, behind, ahead)
            /\ BouncePath(from, delta, behind, ahead) = BounceLoop(from, delta, behind, ahead)
=============================================================================
