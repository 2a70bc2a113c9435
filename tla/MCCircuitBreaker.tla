-------------------------- MODULE MCCircuitBreaker --------------------------
(* An instance of CircuitBreaker: two channels of one server compete for   *)
(* its probe, and a third is on another server.                            *)
EXTENDS CircuitBreaker

CONSTANTS a1, a2, c1, c2, c3

TwoServers == {a1, a2}
ThreeChannels == {c1, c2, c3}
TwoOnOne == [c \in ThreeChannels |-> IF c = c3 THEN {a2} ELSE {a1}]

\* A failing server is neither forgotten, when room is made in the registry, nor
\* given up: it is tried again though probes end without a result.
NotGivenUp == FailingRemembered /\ ProbedAgain
=============================================================================
