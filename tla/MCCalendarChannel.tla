-------------------------- MODULE MCCalendarChannel -------------------------
(* Instances of CalendarChannel small enough for TLC. *)
EXTENDS CalendarChannel
=============================================================================
