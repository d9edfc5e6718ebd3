----------------------------- MODULE MCFullRecon -----------------------------
(* Instances of FullRecon: registries, in the order they are written in.   *)
EXTENDS FullRecon, Sequences

Names(reg)       == {reg[i].name : i \in DOMAIN reg}
WaveIn(reg)      == [t \in Names(reg) |->
                       (CHOOSE e \in {reg[i] : i \in DOMAIN reg} : e.name = t).wave]
PositionIn(reg)  == [t \in Names(reg) |-> CHOOSE i \in DOMAIN reg : reg[i].name = t]

E(n, w) == [name |-> n, wave |-> w]

(* The shipped registry, with one tool for each group that behaves alike.  *)
Shipped == <<E("whois", 1), E("dns", 1), E("asn", 1), E("ports", 2),
             E("headers", 2), E("ip_reputation", 3)>>
ShippedTools    == Names(Shipped)
ShippedWave     == WaveIn(Shipped)
ShippedPosition == PositionIn(Shipped)
ShippedGated    == {"ip_reputation"}

(* A registry the code accepts although it is not sound: the my_ip_tool of *)
(* CONTRIBUTING.md in the wave of the tools whose results its should_run   *)
(* reads.                                                                  *)
Loose == <<E("whois", 1), E("dns", 1), E("asn", 1), E("my_ip_tool", 1), E("ports", 2)>>
LooseTools    == Names(Loose)
LooseWave     == WaveIn(Loose)
LoosePosition == PositionIn(Loose)
LooseGated    == {"my_ip_tool"}

ASSUME SoundInstance == Tools = ShippedTools => RegistrySound
=============================================================================
