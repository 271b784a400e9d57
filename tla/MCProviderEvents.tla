--------------------------- MODULE MCProviderEvents ---------------------------
(* Callbacks of one provider event: a settlement, a contradicting failure and *)
(* a payload whose status the service does not know.                          *)
EXTENDS ProviderEvents

CONSTANTS w1, w2, w3, p1, p2, settled, declined, unknown

TwoProcesses == [w \in Workers |-> IF w = w3 THEN p2 ELSE p1]

Statuses3 ==
  [x \in EventPayloads |->
     IF x = settled THEN "completed" ELSE IF x = declined THEN "failed" ELSE None]
=============================================================================
