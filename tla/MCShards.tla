------------------------------ MODULE MCShards ------------------------------
(* Constants for model-checking Shards.                                    *)
EXTENDS Shards, TLC

CONSTANTS a, b, c

\* A page of shard 0 links to itself and to two pages of a host of shard 1, of
\* which the host's quota admits one.
MCHostOf == (a :> "h0") @@ (b :> "h1") @@ (c :> "h1")
MCShardOf == ("h0" :> 0) @@ ("h1" :> 1)
MCMaxUrls == ("h0" :> -1) @@ ("h1" :> 1)
MCLinksOf == (a :> <<a, b, c>>) @@ (b :> <<>>) @@ (c :> <<>>)
MCNone == <<>>
=============================================================================
