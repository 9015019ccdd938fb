------------------------------- MODULE MCOoni -------------------------------
(* Two WhatsApp endpoints, one more Telegram endpoint than lanes, and two  *)
(* services besides STUN; two public addresses of one ASN and a private    *)
(* one; pages that agree and differ in what is compared; a file submitted  *)
(* twice; three syncs; and the fields of a client that decide what a sync  *)
(* tells, with a probe of its own country or elsewhere.                    *)
EXTENDS Ooni, TLC

CONSTANTS a, b, p

MCTelegram == <<"e1", "e2", "e3", "e4">>
MCServices == <<"edge", "star", "stun">>
MCVendors == <<"v1", "v2", "v3", "v4">>
MCAsn == (a :> 1) @@ (b :> 1)

MCPages ==
  {[length |-> 100, status |-> 200, headers |-> {"App", "Date"}, title |-> <<"The", "Welcome">>],
   [length |-> 30, status |-> 200, headers |-> {"Date"}, title |-> <<"Forbidden">>],
   [length |-> 90, status |-> 503, headers |-> {}, title |-> <<>>]}

MCLocations == {[asn |-> "AS1", cc |-> "C1"]}

MCFiles ==
  {[lines |-> lines, terminated |-> terminated] :
     lines \in {<< >>, <<"x", "y", "x">>, <<"x", "cut">>, <<"x", "refused">>, <<"x", "number">>,
               <<"refused">>},
     terminated \in BOOLEAN}
=============================================================================
