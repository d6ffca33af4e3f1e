------------------------------ MODULE ByteCount ------------------------------
(***************************************************************************)
(* The total of a sequence of sizes.  Each item of size n stands for the n *)
(* bytes <<its position, 1>> to <<its position, n>>; the total is how many *)
(* bytes there are.                                                        *)
(***************************************************************************)
EXTENDS Naturals, Sequences, FiniteSets

BytesOf(sizes) == UNION {{i} \X (1 .. sizes[i]) : i \in DOMAIN sizes}

Total(sizes) == Cardinality(BytesOf(sizes))
=============================================================================
