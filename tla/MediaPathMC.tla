------------------------------ MODULE MediaPathMC ------------------------------
(***************************************************************************)
(* MediaPath with numbers that wrap within three packets, and a choice of  *)
(* what the memory of udp_ and of sc_send_ held.                           *)
(***************************************************************************)
EXTENDS MediaPath

\* An IP header of which some words are known; the others are all equal.
Memory(known, other) ==
  [k \in 1 .. 10 |-> IF k \in DOMAIN known THEN known[k] ELSE other]

MCIpHeaders ==
  { Memory(<<>>, 0),                           \* ip_hl is 0, and no RTP there
    Memory(<<0, 0, 0, 0, 128>>, 0),            \* ip_hl is 0, ip_ttl is 128
    Memory(<<1>>, 65535),                      \* ip_hl is 1, in ip_src all ones
    Memory(<<4>>, 0),                          \* RTP is read at uh_ulen
    Memory(<<>>, 65535),                       \* ip_hl is 15; ip_id becomes 0
    Memory(<<69, 0, 65279>>, 0),               \* whole; ip_id is about to wrap
    Memory(<<65349, 0, 65279>>, 65535),        \* whole, with 8 carries at first
    Memory(<<69, 0, 65279>>, 30367),           \* the folded sums have a carry
    Memory(<<69, 0, 65279>>, 63135) }          \* ... up to the second datagram
MCUdpHeaders == {<<0, 0, 0, 0>>, <<65535, 65535, 65535, 65535>>}

\* The numbers are compared with each other only, so one start is enough; of
\* a header that is not configured one content is.
MCInit ==
  /\ udp_ \in [iphdr_ : MCIpHeaders, udphdr_ : MCUdpHeaders]
  /\ Init
  /\ send_header_ = [sequence_num |-> 0, timestamp |-> TsSpace - 1]
  /\ ~param_.if_add_udpip => udp_.iphdr_ = Memory(<<>>, 0) /\ udp_.udphdr_[1] = 0
  /\ sc_send_.send_header_.ueid # 0 /\ sc_send_.send_header_.sn = SnSpace - 1
  /\ ~param_.if_send_sc => /\ sc_recv_ = Fresh(0, "To4G", 0)
                           /\ sc_send_.send_header_.forward = "To4G"

MCSpec == MCInit /\ [][Next]_vars
===============================================================================
