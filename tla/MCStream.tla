------------------------------ MODULE MCStream ------------------------------
(* Two writers and a reader of a small stream.                          *)
EXTENDS Stream, TLC

CONSTANTS w1, w2, r, h
=============================================================================
