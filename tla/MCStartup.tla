----------------------------- MODULE MCStartup -----------------------------
(* Instances of Startup for TLC: command lines around a plain crawl, and   *)
(* answers of the DNS seeds that make the preflight's limit of tries and   *)
(* the collapse of mapped addresses matter.                                *)
EXTENDS Startup, TLC

CONSTANTS l1, l2, r1, r2

Flags(off) == [net \in Network |-> IF net \in off THEN "off" ELSE "absent"]
Pools(none) == [t \in Transports |-> IF t \in none THEN 0 ELSE 1]

Plain == [program |-> "crawler", run |-> r1, numeric |-> TRUE,
          flag |-> Flags({"ipv6", "i2p", "cjdns"}), workers |-> Pools({"i2p"}),
          dry |-> FALSE, strict |-> FALSE, record |-> TRUE, debugLog |-> TRUE,
          checkpoints |-> TRUE, usable |-> TRUE, targets |-> {}]

Strict == [Plain EXCEPT !.strict = TRUE, !.debugLog = FALSE]
DryRun == [Plain EXCEPT !.dry = TRUE, !.flag = Flags({"tor", "i2p"}), !.workers = Pools({"tor", "i2p"})]
Unlogged == [Plain EXCEPT !.run = r2, !.record = FALSE, !.checkpoints = FALSE]
(* --no-ipv4 --no-ipv6 leaves cjdns, which needs the ip pool. *)
NoPool == [Plain EXCEPT !.flag = Flags({"ipv4", "ipv6", "tor", "i2p"}), !.workers = Pools({"ip"})]
NoI2pPool == [Plain EXCEPT !.flag = [Flags({"tor", "ipv6"}) EXCEPT !["i2p"] = "on"]]
Ipv6Only == [Plain EXCEPT !.flag = Flags({"ipv4", "tor", "i2p", "cjdns"})]
NotNumeric == [Plain EXCEPT !.numeric = FALSE]
Probe == [Plain EXCEPT !.program = "probe", !.targets = {"ipv4", "tor"}]
ProbeI2p == [Probe EXCEPT !.targets = {"i2p"}, !.run = r2]
ProbeNothing == [Probe EXCEPT !.usable = FALSE]

SomeConfigs == {Plain, Strict, DryRun, Unlogged, NoPool, NoI2pPool, Ipv6Only, NotNumeric, Probe,
                ProbeI2p, ProbeNothing}

On(family, accepts) == [family |-> family, accepts |-> accepts]

SomeResolutions ==
    {<<>>,
     <<On("v4", TRUE), On("v6", TRUE)>>,
     <<On("v4", FALSE), On("mapped", TRUE), On("v4", FALSE), On("v4", TRUE)>>,
     <<On("fc", TRUE), On("v4", FALSE), On("v4", TRUE)>>}
=============================================================================
