---------------------------- MODULE MCReloader ----------------------------
EXTENDS Reloader

\* Edit 1 is rejected at part 2 and edit 3 at part 3, both in the middle of an observer.
TwoMidway == {<<2, 1>>, <<3, 3>>}
=============================================================================
