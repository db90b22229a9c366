---------------------------- MODULE MCMongoClient ----------------------------
(* MongoClient with goroutines that may be exchanged (safety runs only).    *)
EXTENDS MongoClient, TLC

Symmetry == Permutations(Procs)
=============================================================================
