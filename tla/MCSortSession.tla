---------------------------- MODULE MCSortSession ----------------------------
(* Instances of SortSession for TLC.                                          *)
EXTENDS SortSession

CONSTANTS a, b, c

TwoPictures   == {<<a, b>>}
ThreePictures == {<<a, b, c>>}
==============================================================================
