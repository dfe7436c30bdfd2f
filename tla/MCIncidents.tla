---------------------------- MODULE MCIncidents ----------------------------
\* Instances of IncidentLifecycle for TLC.
EXTENDS IncidentLifecycle, TLC

Measured(s) == [status |-> s, reasons |-> {}]
Outage == [status |-> "unknown", reasons |-> {"datasource_unavailable"}]
PartialCritical == [status |-> "critical", reasons |-> {"partial_result"}]

\* Trustworthy verdicts both ways, and what breaks a streak: an outage
\* (served from last-good when there is one), a partial answer.
MixedReadings ==
    {Measured("critical"), Measured("healthy"), Outage, PartialCritical}

Symmetry == Permutations(Workers) \cup Permutations(IncidentIds)
=============================================================================
