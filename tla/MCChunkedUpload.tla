--------------------------- MODULE MCChunkedUpload ---------------------------
(* Instances of ChunkedUpload for TLC. *)
EXTENDS ChunkedUpload, FiniteSetsExt, TLC

\* Chunks of two bytes; part n is stated to have n + 1 bytes, so that no two
\* parts add the same to bytes_received.
MCSizeOf == [n \in PartNumbers |-> n + 1]

\* A sum by counting is the sum of the community modules.
ASSUME TotalsAreSums ==
    \A S \in SUBSET PartNumbers : Total(SizeOf, S) = MapThenSumSet(LAMBDA n : SizeOf[n], S)

ClientSymmetry == Permutations(Clients)
=============================================================================
