---------------------------- MODULE MCCKYTable ----------------------------
(* A chart for two words and three tags, holding one of two values.       *)
EXTENDS CKYTable
===========================================================================
