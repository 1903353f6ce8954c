---------------------------- MODULE MCLogAppend ----------------------------
\* Every call of the loop with short logs over two terms and two strokes.
EXTENDS LogAppend

SomeEntries == [term : 1..2, stroke : {"a", "b"}]

=============================================================================
