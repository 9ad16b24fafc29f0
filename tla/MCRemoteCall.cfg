SPECIFICATION Spec
CONSTANT Calls <- MCCalls
CHECK_DEADLOCK FALSE
INVARIANT ValuesArrive
INVARIANT EchoSettles
INVARIANT StartsAsFlagged
INVARIANT HeadersArrive
INVARIANT CallsAsAsked
