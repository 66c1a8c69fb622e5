\* Interfaces that come and go at any time.
SPECIFICATION DSpec
CONSTANT Interfaces = {1, 2}
INVARIANTS DTypeOK OneChain QueueBounded JoinedUnlessFlapped
PROPERTIES OnlyStallsSilence KeepsAnnouncing KeepsJoining
\* pop_front() on an empty deque ends the program.
CHECK_DEADLOCK FALSE
