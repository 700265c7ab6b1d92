----------------------------- MODULE MCFileLock -----------------------------
EXTENDS FileLock

CONSTANTS p1, p2, p3

MCPids == {p1, p2, p3}
=============================================================================
