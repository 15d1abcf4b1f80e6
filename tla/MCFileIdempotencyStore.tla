----------------------- MODULE MCFileIdempotencyStore -----------------------
EXTENDS FileIdempotencyStore, TLC

CONSTANTS c1, c2, c3, c4, k1, k2, store

MCFileOf == [c \in Calls |-> store]

(* Three calls on one key, which meet, and one on another.                 *)
MCKeyOf == [c \in Calls |-> IF c = c4 THEN k2 ELSE k1]
=============================================================================
