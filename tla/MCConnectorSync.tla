--------------------------- MODULE MCConnectorSync ---------------------------
(* Instances of ConnectorSync for TLC. *)
EXTENDS ConnectorSync, TLC

\* Two ticks make a day.
HalfDays == [t \in Times |-> t \div 2]

\* Runs differ in nothing but their names.
WorkerSymmetry == Permutations(Workers)
==============================================================================
