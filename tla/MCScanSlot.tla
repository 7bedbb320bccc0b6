----------------------------- MODULE MCScanSlot -----------------------------
EXTENDS ScanSlot

CONSTANTS a, b

\* Folders are interchangeable only up to the default request, so no symmetry.
McFolders == {a, b}
=============================================================================
