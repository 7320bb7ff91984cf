-------------------------------- MODULE MainMC --------------------------------
(***************************************************************************)
(* Main with up to three entries for two ports, and descriptors that run   *)
(* out when all three sessions are set up at once.                         *)
(***************************************************************************)
EXTENDS Main

\* Ports are only compared with each other, and only those of sound entries:
\* the first entry may have either, and one with a fault any.  Without standard
\* input there are two entries: the one that is given 0 and the one that is
\* not, one of them with a lookup in between.
MCInit ==
  /\ Init
  /\ \A s \in DOMAIN config : s = 1 \/ config[s].fault # "none" => config[s].port = 1
  /\ 0 \notin open => Len(config) <= 2

MCFairSpec ==
  /\ MCInit /\ [][Next]_vars
  /\ WF_vars(MainStep)
  /\ \A s \in Entries : WF_vars(SessionStep(s))
==============================================================================
