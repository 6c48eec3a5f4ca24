---------------------------- MODULE MCCuratedLists ----------------------------
(* Small instances of CuratedLists for TLC.                                    *)
EXTENDS CuratedLists, TLC

CONSTANTS c1, c2, w, n
=============================================================================
