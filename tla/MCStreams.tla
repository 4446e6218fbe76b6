------------------------------ MODULE MCStreams ------------------------------
(* TLC instance of Streams: the sizes of three headers.                     *)
EXTENDS Streams, TLC

CONSTANTS h1, h2, h3

Sizes == h1 :> 2 @@ h2 :> 3 @@ h3 :> 1
=============================================================================
