------------------------------- MODULE CodersMC -------------------------------
(***************************************************************************)
(* Coders with every two neighbouring samples there are, in packets of     *)
(* three frames, and with one pair in stretches of other lengths: nothing, *)
(* no whole frame, one frame, the most the AMR converter takes and more,   *)
(* the most the test programs and kBuffSize have room for and more.        *)
(***************************************************************************)
EXTENDS Coders

MCPairs == {<<x, x + 1>> : x \in -32768 .. 32766}
MCLengths == {0, 162, 320, 960, 1600, 1920, 2240, 3200, 4800, 5120}

MCInit ==
  /\ Init
  /\ bytes # kPacketLength => pair = <<0, 1>>
  /\ user = "server" => pair = <<0, 1>>

MCSpec == MCInit /\ [][Next]_vars
===============================================================================
