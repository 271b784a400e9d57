-------------------------------- MODULE MCRates --------------------------------
(* The converter on the two legs of an asked cross rate; one of them is the   *)
(* inverse of a quoted rate.                                                  *)
EXTENDS CurrencyRates

MCQuoted == {<<"EUR", "USD">>, <<"GBP", "USD">>}
MCAsked == {<<"EUR", "GBP">>}
\* revalue_amount; its first half is convert.
MCDates == {<<1, 2>>}
===============================================================================
