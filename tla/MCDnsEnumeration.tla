-------------------------- MODULE MCDnsEnumeration --------------------------
(* An instance of DnsEnumeration: A, AAAA (both sources of PTR lookups)    *)
(* and a third record type that may be garbled, one lookup of each other   *)
(* kind, and a pool smaller than the batch.                                *)
EXTENDS DnsEnumeration
=============================================================================
