----------------------------- MODULE MCSeekLeaf -----------------------------
EXTENDS SeekLeaf

MCUndated == {2}
MCPinned == {1}
=============================================================================
