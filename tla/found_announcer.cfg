\* An interface that vanishes between its queueing and its turn.
SPECIFICATION DSpec
CONSTANT Interfaces = {1, 2}
PROPERTY AnnouncementsPaced
\* pop_front() on an empty deque ends the program.
CHECK_DEADLOCK FALSE
