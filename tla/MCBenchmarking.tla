--------------------------- MODULE MCBenchmarking ----------------------------
(* Instances of Benchmarking for TLC. *)
EXTENDS Benchmarking, TLC

Interchangeable == Permutations(Models \ Seeded) \cup Permutations(BenchCalls)
=============================================================================
