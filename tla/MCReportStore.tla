--------------------------- MODULE MCReportStore ---------------------------
\* Instances of ReportStore for TLC.
EXTENDS ReportStore, TLC

\* Clients are interchangeable: sound for the safety properties of the run
\* with two of them.
ClientSymmetry == Permutations(Clients)
=============================================================================
