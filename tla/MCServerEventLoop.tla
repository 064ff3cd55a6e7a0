------------------------- MODULE MCServerEventLoop -------------------------
EXTENDS ServerEventLoop, TLC

CONSTANTS i1, i2, f1, s1

MCHandlers == {i1, i2, f1, s1}
MCKind == i1 :> "idle" @@ i2 :> "idle" @@ f1 :> "fd" @@ s1 :> "signal"
=============================================================================
