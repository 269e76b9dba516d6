---------------------------- MODULE MCConveyor ----------------------------
(* Instances of the conveyor for TLC. *)
EXTENDS Conveyor

CONSTANTS e1, e2

MCEvents == {e1, e2}

\* The first event carries any of the first three pulses, a number before or
\* between them, or no number; the second one carries the second pulse.
MCInputs == ({e1} \X {Unknown, FirstPulse - 1, FirstPulse, FirstPulse + Delta,
                      FirstPulse + 2 * Delta - 1, FirstPulse + 2 * Delta})
            \cup {<<e2, FirstPulse + Delta>>}
=============================================================================
