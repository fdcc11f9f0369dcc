---------------------------- MODULE MCReceiver ----------------------------
(* Small instances of Receiver for TLC: one gRPC request, and HTTP        *)
(* requests that may be sent twice.                                       *)
EXTENDS Receiver, TLC

CONSTANTS g1, h1, h2

MCProto == [r \in Requests |-> IF r = g1 THEN "grpc" ELSE "http"]
MCSize == [r \in Requests |-> IF r = h2 THEN 1 ELSE 2]
=============================================================================
