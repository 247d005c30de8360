---------------------------- MODULE MCSubtitles -----------------------------
EXTENDS Subtitles, TLC
CONSTANTS p1, p2
MCPaths == {p1, p2}
Either == BOOLEAN
MCTree == <<p1 :> 1 @@ p2 :> 1, p1 :> 2 @@ p2 :> 1, p1 :> 0 @@ p2 :> 3>>
=============================================================================
