---------------------------- MODULE MCDnsMessage ----------------------------
(* Labels of one and two letters, addresses with bytes that look like ends  *)
(* of names and like pointers.                                              *)
EXTENDS DnsMessage, TLC

a  == <<97>>
bc == <<98, 99>>
MCQuestions == {<<a, bc>>, <<bc, a, <<>>>>}
MCNames == {<<a, bc>>, <<bc>>, <<bc, a>>}
MCAddresses == {<<192, 12, 0, 7>>, <<10, 0, 0, 200>>}
MCTransId == <<6, 98>>

=============================================================================
