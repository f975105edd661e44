SPECIFICATION Spec
INVARIANTS SentParses UpdateIsSound
PROPERTY ReadsBack
CHECK_DEADLOCK FALSE
