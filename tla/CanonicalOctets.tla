---------------------------- MODULE CanonicalOctets ----------------------------
(***************************************************************************)
(* The octets of an integer of Profile 1, of what stands behind its length *)
(* and of parts one behind the other: what canonical encodings are made    *)
(* of, without an array and a cursor.                                      *)
(***************************************************************************)
EXTENDS TaggedProfile

Digits(n) == [i \in 1 .. Unsigned_Size(n) |-> Group(n, i - 1)]
Delimited(octets) == Digits(Len(octets)) \o octets

Joined(parts, last) ==
  LET Prefix[n \in 0 .. last] == IF n = 0 THEN <<>> ELSE Prefix[n - 1] \o parts[n]
  IN  Prefix[last]

=============================================================================
