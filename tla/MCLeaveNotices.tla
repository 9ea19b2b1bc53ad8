--------------------------- MODULE MCLeaveNotices ---------------------------
(* Instance of LeaveNotices for TLC.                                       *)
EXTENDS LeaveNotices
=============================================================================
