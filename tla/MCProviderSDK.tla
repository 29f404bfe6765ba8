---------------------------- MODULE MCProviderSDK ----------------------------
(***************************************************************************)
(* The server of the Go SDK for TLC.  A behaviour runs either the          *)
(* connection registry and the requests that share it, or the streaming    *)
(* handlers of one call after the other, or the unary ones; the other      *)
(* parts stay in their initial state, in which no action of the fairness   *)
(* is enabled.                                                             *)
(***************************************************************************)
EXTENDS ProviderServer, ProviderStreams, FiniteSets

VARIABLE part

\* Two goroutines can meet on a connection while a third one closes it.
ASSUME InstanceAssumption == Cardinality(Caller) > 2

SDKVars == <<vars, streamsVars, part>>

SDKInit ==
    /\ part \in {"server", "streams", "unary"} /\ Init /\ StreamsInit
    /\ part # "unary" => manager = "none"

SDKNext ==
    \/ part = "server" /\ Next /\ UNCHANGED <<streamsVars, part>>
    \/ part = "streams" /\ StreamNext /\ UNCHANGED <<vars, unaryVars, part>>
    \/ part = "unary" /\ UnaryNext /\ UNCHANGED <<vars, streamVars, part>>

SDKSpec == SDKInit /\ [][SDKNext]_SDKVars /\ Fairness
=============================================================================
