------------------------------ MODULE MCCrawl ------------------------------
(* Instances of Crawl for TLC.  A configuration picks the addresses and    *)
(* workers and says which of them belong to the tor transport; the others  *)
(* are ip.                                                                 *)
EXTENDS Crawl, TLC

CONSTANTS a1, a2, a3, w1, w2, TorAddrs, TorWorkers

RouteOf == [a \in Addrs |-> IF a \in TorAddrs THEN "tor" ELSE "ip"]
PoolOf == [w \in Workers |-> IF w \in TorWorkers THEN "tor" ELSE "ip"]

(* Workers of one pool are interchangeable. *)
SamePool == Permutations(Workers)
=============================================================================
