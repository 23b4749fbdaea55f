------------------------ MODULE MCChatCompletionCache ------------------------
(* Small instances of ChatCompletionCache: who asks for what. *)
EXTENDS ChatCompletionCache, TLC

CONSTANTS ra, rb, rc, rd, kstream, kwhole

\* Three streams of one prompt and a request for another.
ThreeStreams == (ra :> kstream) @@ (rb :> kstream) @@ (rc :> kstream) @@ (rd :> kwhole)

\* Two pairs of equal requests, of which one is streamed.
TwoPairs == (ra :> kstream) @@ (rb :> kstream) @@ (rc :> kwhole) @@ (rd :> kwhole)

\* Equal requests that are not streamed.
AllWhole == [r \in Requests |-> kwhole]
=============================================================================
