--------------------------- MODULE MCWireSession ----------------------------
EXTENDS WireSession

MCOutKinds    == {PaneA, PaneB, Answer}
MCFillers     == {<<>>, <<5, 5, 5, 5>>}
MCInBodies    == {<<Request, 7, 7, 7>>, <<Ping>>, <<Disconnect>>}
MCStrayChunks == {<<>>, <<0, 0>>, <<1, 2, 3, 9>>, <<1, 3, 7, 4>>}
=============================================================================
