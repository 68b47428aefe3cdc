------------------------------ MODULE MCLink ------------------------------
(***************************************************************************)
(* Link with two devices.  MCSetups: both carry the key, and writes cross, *)
(* or the links are started again (MCRestart); both carry the topic, with  *)
(* two messages, with one and a fault, or with links that are started      *)
(* again (MCReturn); the second carries only the topic; they have nothing  *)
(* in common; the second refuses the first's ABI.                          *)
(***************************************************************************)
EXTENDS Link

CONSTANTS a, b, t

MCSetup(forA, forB, accepts, owner, maxOps, maxSessions, maxFaults) ==
  [carries |-> [d \in {a, b} |-> IF d = a THEN forA ELSE forB], accepts |-> accepts,
   owner |-> owner, maxOps |-> maxOps, maxSessions |-> maxSessions, maxFaults |-> maxFaults]
MCRestart == { MCSetup({KEY}, {KEY}, {a, b}, a, 1, 2, 1) }
MCReturn  == { MCSetup({t}, {t}, {a, b}, NONE, 1, 2, 1) }
MCSetups  == MCRestart \cup MCReturn \cup
             { MCSetup({KEY}, {KEY}, {a, b}, a, 2, 1, 1),
               MCSetup({t}, {t}, {a, b}, NONE, 2, 1, 0),
               MCSetup({KEY, t}, {t}, {a, b}, a, 2, 1, 0),
               MCSetup({KEY, t}, {t}, {a, b}, a, 1, 1, 1),
               MCSetup({t}, {KEY}, {a, b}, b, 1, 1, 1),
               MCSetup({t}, {t}, {a}, NONE, 1, 1, 1) }
=============================================================================
