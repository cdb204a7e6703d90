-------------------------- MODULE MCUploadSchedule --------------------------
EXTENDS UploadSchedule

\* The clock is set by less and by more than one interval.
SomeSteps == {-4, -1, 2, 7}
=============================================================================
