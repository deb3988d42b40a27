--------------------------- MODULE MCBFCAllocator ---------------------------
EXTENDS BFCAllocator
=============================================================================
