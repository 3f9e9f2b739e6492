---------------------------- MODULE MCMediaOwner ----------------------------
EXTENDS MediaOwner, TLC

CONSTANTS r1, r2, r3, A, B

\* Up to the names of requests, channels and documents, every way three requests
\* ask where at least two want one channel.
MCRequests == {r1, r2, r3}
Of(first, second, third) == (r1 :> first) @@ (r2 :> second) @@ (r3 :> third)
Audio(d) == [channel |-> "audio", document |-> d]
Video(d) == [channel |-> "video", document |-> d]
MCAsks == {Of(Audio(A), Audio(A), x) : x \in {Audio(A), Audio(B), Video(A), Video(B)}}
          \cup {Of(Audio(A), Audio(B), Video(A))}
=============================================================================
