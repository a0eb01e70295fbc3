----------------------------- MODULE MCPersist -----------------------------
EXTENDS Persist, MCBlockTree

Archive == [archive |-> TRUE, keep |-> 1]
Keep(n) == [archive |-> FALSE, keep |-> n]
ArchiveOnly == {Archive}
KeepNone == {Keep(0)}
KeepNoneOrArchive == KeepNone \cup ArchiveOnly
=============================================================================
