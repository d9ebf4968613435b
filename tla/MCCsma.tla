------------------------------ MODULE MCCsma ------------------------------
(***************************************************************************)
(* A small instance of CSMA: one packet with the configured number of      *)
(* retries, and the others with a single transmission, as the network      *)
(* layer may ask for.                                                      *)
(***************************************************************************)
EXTENDS Csma

CONSTANTS a1, a2, a3, p1, p2, p3

MixedRequests == [p \in Packet |-> IF p = p3 THEN 0 ELSE 1]

\* Every way three packets share destinations, up to the names of the addresses,
\* which Csma does not tell apart.
UpToNames ==
  [p \in Packet |-> CASE p = p1 -> {a1} [] p = p2 -> {a1, a2} [] p = p3 -> {a1, a2, a3}]
=============================================================================
