-------------------------- MODULE MCRequestPipeline --------------------------
(* RequestPipeline on small instances, and what the comments of the headers *)
(* say of it that its code does not do.                                     *)
EXTENDS RequestPipeline

MCAllEnds == {"ok", "keyless", "fail"}
MCRegistered == {"ok"}
MCAllReplies == {"ok", "stale", "tokenless", "fail"}
MCGoodReplies == {"ok"}

\* LMInnerTubeSession.h: "The completion handler will be called asynchronously after
\* complete is called".  A request whose start finds the device not ready just before it
\* becomes so adds its callback after the callbacks have run.
CompletionIsCalledOnceReady ==
    \A s \in Sessions : s \in started /\ ready ~> completed[s] > 0 \/ ended # "" \/ s \notin started

\* LMAccessTokenManager.h: privateAccess is a "Token able to access private Google
\* API".  The general token is stored under the private token's key, and read back as
\* the private one if the program ends before the private token arrives.
PrivateIsPrivate == private.valid => private.kind # "general"
=============================================================================
