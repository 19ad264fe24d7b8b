--------------------------- MODULE MCCalendarItem ---------------------------
EXTENDS CalendarItem, TLC
Interchangeable == Permutations(Pushes)
=============================================================================
