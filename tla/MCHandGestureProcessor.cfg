CONSTANT Trigger = 4
SPECIFICATION MCSpec
INVARIANTS TypeOK EvidenceBacksState ConfirmedIffSeen
