-------------------------- MODULE MCKVCacheManager --------------------------
(***************************************************************************)
(* Instances of KVCacheManager for TLC.  In the full-attention run two     *)
(* requests share their first block and the longer one fills three; in the *)
(* sliding-window run they share four blocks of one token.                 *)
(***************************************************************************)
EXTENDS KVCacheManager

CONSTANTS r1, r2

HashesOf(toks) ==
  UNION {{SubSeq(toks[r], 1, i * BlockSize) :
            i \in 1 .. Len(toks[r]) \div BlockSize} : r \in DOMAIN toks}

MCTokens == (r1 :> <<"a", "a", "b", "b", "c", "c", "f">>) @@ (r2 :> <<"a", "a", "d", "d", "e">>)
MCPrompt == (r1 :> 4) @@ (r2 :> 4)
MCHashes == HashesOf(MCTokens)

MCSwaTokens == (r1 :> <<"a", "b", "c", "d", "e", "g">>) @@ (r2 :> <<"a", "b", "c", "d", "f">>)
MCSwaPrompt == (r1 :> 3) @@ (r2 :> 4)
MCSwaHashes == HashesOf(MCSwaTokens)

==============================================================================
