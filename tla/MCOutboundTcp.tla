--------------------------- MODULE MCOutboundTcp ---------------------------
(* OutboundTcp on 4-tuples that differ in source and destination but share *)
(* the destination port, so that their listeners compete for SYNs, and on  *)
(* a single 4-tuple that is used again and again.                          *)
EXTENDS OutboundTcp

Alice == [src |-> "a", dst |-> "X", port |-> 80]
Bob == [src |-> "b", dst |-> "Y", port |-> 80]

SharedPort == {Alice, Bob}
OneTuple == {Alice}
=============================================================================
