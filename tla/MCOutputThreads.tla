-------------------------- MODULE MCOutputThreads --------------------------
EXTENDS OutputThreads

\* The nine kinds of a weather report and one that it does not have.
SomeKinds == Told \cup {"Voltage"}
FewReports == [weather |-> 2, status |-> 1]
=============================================================================
