---------------------------- MODULE MCAppControl ----------------------------
(* Instances of AppControl for TLC.                                        *)
EXTENDS AppControl, TLC

CONSTANTS chat, stop, c1
=============================================================================
