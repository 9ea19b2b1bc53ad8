------------------------- MODULE MCAppointmentDates -------------------------
(* Instance of AppointmentDates for TLC.                                   *)
EXTENDS AppointmentDates, TLC

\* Two dates, each the deadline of the other.
MCDates == {1, 2}
MCDue == [d \in MCDates |-> 3 - d]

\* Lawyers and runs of the job are interchangeable.
MCSymmetry == Permutations(Lawyers) \cup Permutations(Runs)
=============================================================================
