------------------------- MODULE MCExperimentScheduler -------------------------
(* Model checking of ExperimentScheduler: three cells of one connection. *)
EXTENDS ExperimentScheduler

OneConnection == <<"a", "a", "a">>

LimitTwo == [k \in Connections |-> 2]

ShortAndLong == {1, 2}

=============================================================================
