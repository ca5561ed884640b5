--------------------------- MODULE MCPermissions ---------------------------
EXTENDS Permissions

\* An assignment that gives, and one that takes and is protected.
SomeAssignments ==
    {[value |-> 1, negated |-> FALSE, skipped |-> FALSE],
     [value |-> 0, negated |-> TRUE, skipped |-> TRUE]}

\* A key for the group Server Admin, and for Channel Admin in channel 2.
SomeKeys == {[group |-> 9, channel |-> 2, channelGroup |-> 8]}
=============================================================================
