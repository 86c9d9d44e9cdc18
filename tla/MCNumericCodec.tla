--------------------------- MODULE MCNumericCodec ---------------------------
(* One to three groups, with zero digits and zero groups at either end and *)
(* in the middle; scales from minus one group to two groups and a part.      *)
EXTENDS NumericCodec
MCUnscaled == 0 .. 20 \cup {99, 100, 9999, 10000, 10001, 12345, 40050, 99999,
                            1000000, 90000007, 100000000, 123456789, 120003400}
MCScales == -4 .. 9
=============================================================================
