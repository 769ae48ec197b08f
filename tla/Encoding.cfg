SPECIFICATION Spec
CONSTANT Texts <- MCTexts
INVARIANTS RoundTrip AssemblersAgree LlvmReads
CHECK_DEADLOCK FALSE
