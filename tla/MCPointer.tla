---- MODULE MCPointer ----
EXTENDS Pointer
Both == [shown |-> {1, 2}, hidden |-> {}, area |-> <<{0, 1}, {0}>>, hoverable |-> {}]
Hiding == [shown |-> {2}, hidden |-> {1}, area |-> <<{0}, {1}>>, hoverable |-> {2}]
SomeScenes == {Both, Hiding}
Drops == <<{2, Files}, {Files}>>
Tips == [p \in {0, 1} |-> {p}]
====
