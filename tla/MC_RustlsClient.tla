-------------------------- MODULE MC_RustlsClient --------------------------
(* Model-checking instance of RustlsClient: a ticket allowing up to 3    *)
(* early bytes, writes of 1 or 2 bytes, MTUs 0..7 around the 5-byte       *)
(* record header.                                                        *)
EXTENDS RustlsClient

MCMaxEarly == 3
MCMaxWrite == 2
MCPacketOverhead == 5
MCMaxMtu == 7

=============================================================================
