------------------------------ MODULE MCStores ------------------------------
(* Constants for model-checking Stores.                                    *)
EXTENDS Stores, TLC

CONSTANTS a, b

\* Two records of one shard: together they fill a file, by rows and by bytes.
MCShardOf == (a :> 0) @@ (b :> 0)
MCSizeOf == (a :> 1) @@ (b :> 2)

MCOrder == <<"parquet", "warc">>

\* Workers are interchangeable.
MCSymmetry == Permutations(Workers)
=============================================================================
