------------------------------ MODULE MCWmsTiles ------------------------------
(***************************************************************************)
(* The WMS part of the map library for TLC: tiles, and the proxy for the   *)
(* rest of WMS. A behaviour is of one part, chosen when it starts; what    *)
(* the two share, the names of layers and the hosts left alone, each takes *)
(* from the environment.                                                   *)
(***************************************************************************)
EXTENDS WmsTiles, WmsProxy

VARIABLE part

\* Documents of two hosts; either fits in the cache, both do not.
MCHost(d) == IF d = 1 THEN "a" ELSE "b"
MCSize(d) == d

MCInit == part \in {"tiles", "proxy"} /\ Init /\ ProxyInit
MCNext ==
  /\ part' = part
  /\ \/ part = "tiles" /\ Next /\ UNCHANGED proxyVars
     \/ part = "proxy" /\ ProxyNext /\ UNCHANGED vars
MCSpec == MCInit /\ [][MCNext]_<<vars, proxyVars, part>> /\ Fairness
===============================================================================
