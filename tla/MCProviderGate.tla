-------------------------- MODULE MCProviderGate --------------------------
EXTENDS ProviderGate, TLC

CONSTANTS c1, c2, c3, p1, p2

TwoAndOne == c1 :> p1 @@ c2 :> p1 @@ c3 :> p2
OneEach   == c1 :> p1 @@ c2 :> p2
=============================================================================
