------------------------------ MODULE Research ------------------------------
(* The programs that look for a configuration and judge it.  Each is a process *)
(* of its own; what they share is the scoring.                               *)
EXTENDS Study, GridSearch, WalkForward, HybridSearch, CurveMetrics

VARIABLE program

vars == <<studyVars, gridVars, walkVars, hybridVars, curveVars, program>>

Programs == {"optimize", "grid", "walk_forward", "hybrid", "backtest"}

Init ==
    /\ InitStudy
    /\ InitGrid
    /\ InitWalk
    /\ InitHybrid
    /\ InitCurve
    /\ program \in Programs

Next ==
    /\ UNCHANGED program
    /\ \/ /\ program = "optimize" /\ NextStudy
          /\ UNCHANGED <<gridVars, walkVars, hybridVars, curveVars>>
       \/ /\ program = "grid" /\ NextGrid
          /\ UNCHANGED <<studyVars, walkVars, hybridVars, curveVars>>
       \/ /\ program = "walk_forward" /\ NextWalk
          /\ UNCHANGED <<studyVars, gridVars, hybridVars, curveVars>>
       \/ /\ program = "hybrid" /\ NextHybrid
          /\ UNCHANGED <<studyVars, gridVars, walkVars, curveVars>>
       \/ /\ program = "backtest" /\ NextCurve
          /\ UNCHANGED <<studyVars, gridVars, walkVars, hybridVars>>

Spec == Init /\ [][Next]_vars
=============================================================================
