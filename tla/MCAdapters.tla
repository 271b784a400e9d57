------------------------------ MODULE MCAdapters ------------------------------
(***************************************************************************)
(* The issuing adapters on orders whose texts are easily confused: two     *)
(* tenants with the same reference, two amounts, and orders whose colons   *)
(* stand in different texts but join to the same key material.             *)
(***************************************************************************)
EXTENDS IssuingAdapters

MCDocumentOrders ==
  LET Document(t, r, n) == [tenant |-> t, reference |-> r, fund |-> <<>>, amount |-> n]
  IN {Document(<<"a">>, <<"c">>, 1), Document(<<"a">>, <<"c">>, 2),
      Document(<<"b">>, <<"c">>, 1), Document(<<"a", "b">>, <<"c">>, 1),
      Document(<<"a">>, <<"b", "c">>, 1)}

MCCardOrders ==
  LET Card(t, c, f, n) == [tenant |-> t, reference |-> c, fund |-> f, amount |-> n]
  IN {Card(<<"a">>, <<"c">>, <<"f">>, 1), Card(<<"a">>, <<"c">>, <<"f">>, 2),
      Card(<<"b">>, <<"c">>, <<"f">>, 1), Card(<<"a">>, <<"c", "f">>, <<"f">>, 1),
      Card(<<"a">>, <<"c">>, <<"f", "f">>, 1)}
===============================================================================
