CONSTANT Trials <- AllTrials
SPECIFICATION Spec
INVARIANTS TypeOK RoundTrip LossReported DamageIsLocal SingleErrorReported Canonical
