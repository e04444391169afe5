SPECIFICATION FairSpec
INVARIANTS TypeOK OneVerdict
PROPERTIES HandshakeFinishes AdmissionSpec
CHECK_DEADLOCK FALSE
