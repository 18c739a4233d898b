--------------------------- MODULE MCOrderMachine ---------------------------
(* Orders of one to three units and executions of -1 to 7: below zero, past *)
(* the order and past twice the order.                                      *)
EXTENDS OrderMachine

MCQuantities == 1..3
MCFillSizes  == -1..7
=============================================================================
