--------------------------- MODULE MCEncoderCache ---------------------------
(* Three requests over three images; request 1 shows image "A" twice, and   *)
(* "A" is shared between requests.                                          *)
EXTENDS EncoderCache

Img(h, at) == [hash |-> h, offset |-> at, length |-> IF h = "B" THEN 2 ELSE 1]
MCFeatures == <<<<Img("A", 0), Img("A", 3)>>, <<Img("A", 1), Img("B", 2)>>, <<Img("C", 0)>>>>
MCPrompt == <<4, 5, 2>>
=============================================================================
