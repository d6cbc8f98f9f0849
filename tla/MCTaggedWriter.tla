---------------------------- MODULE MCTaggedWriter ----------------------------
(* A six-octet array, an outer cursor and one nested cursor. *)
EXTENDS TaggedWriter, TLC

MCRaw == <<3, 1>>

(* The least Integer_64 of these constants. *)
MCIntegers_64 == {-4}
=============================================================================
