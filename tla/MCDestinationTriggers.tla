----------------------- MODULE MCDestinationTriggers -----------------------
(* Destinations my, which drops triggers, and pg, which disables them.     *)
EXTENDS DestinationTriggers

CONSTANTS my, pg

TwoKinds   == {my, pg}
OnlyMySQL  == {my}

(* All fire; some do not, or fire in a way of their own.                   *)
SomeOriginals ==
  { [x \in Held |-> "origin"],
    [x \in Held |-> IF x = <<pg, 1>> THEN "replica" ELSE IF x[2] = 2 THEN "off" ELSE "always"] }

AllFire == { [x \in Held |-> "origin"] }
=============================================================================
