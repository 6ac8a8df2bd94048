------------------------------ MODULE MCScanTree ------------------------------
\* A small host directory for TLC.
EXTENDS ScanTree

MCPaths == {<<1>>, <<2>>, <<2, 1>>}
MCTargets == {<<1>>, <<9>>}
=============================================================================
