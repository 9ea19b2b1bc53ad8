--------------------------- MODULE MCCalendarSync ---------------------------
(* Instance of CalendarSync for TLC.                                       *)
EXTENDS CalendarSync
=============================================================================
