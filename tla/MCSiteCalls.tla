----------------------------- MODULE MCSiteCalls -----------------------------
(* An instance of SiteCalls.                                               *)
EXTENDS SiteCalls

(* RedirectTrace: a site with and without www, another site and a private  *)
(* address.                                                                *)
OwnAndOther   == {<<"own", FALSE>>, <<"own", TRUE>>, <<"other", FALSE>>}
PrivateHosts  == {<<"10.0.5.23", FALSE>>}

(* HeaderWalk: the kinds of responses it tells apart.                      *)
Clean(n) == [challenge |-> FALSE, blocked |-> FALSE, missing |-> n]

PageKinds == {Clean(n) : n \in {0, 2, 4}}
               \cup {[Clean(2) EXCEPT !.challenge = TRUE], [Clean(4) EXCEPT !.blocked = TRUE]}

(* EmailSecurity: records of every kind, and lists of DKIM records in both *)
(* orders.                                                                 *)
SomeSpf == {<<"-all">>, <<"~all", "-all">>, <<"other", "?all">>, <<"+all">>,
            <<"redirect">>, <<"redirect", "-all">>, <<"other">>}

SomeDmarc == [p : {"none", "quarantine", "reject", "bad", "absent"},
              sp : {"absent", "reject", "bad"},
              rua : {"valid", "malformed", "empty", "absent"}]

SomeKeys == {<<"active">>, <<"revoked", "active">>, <<"malformed", "revoked">>,
             <<"revoked", "malformed">>, <<"not_dkim", "malformed">>}
=============================================================================
