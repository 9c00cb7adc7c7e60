---------------------------- MODULE MCDnsLookup ----------------------------
(* Two hosts, two servers and a third that one or two threads add.  A cache *)
(* time of 1 fits in the int, one of 2 does not.  Two of the three seconds  *)
(* have the same trans_id.                                                  *)
EXTENDS DnsLookup, TLC

MCServers == <<"s1", "s2">>
MCIdOf == [sec \in 0..2 |-> IF sec = 1 THEN 7 ELSE 3]

=============================================================================
