------------------------- MODULE MCFieldEncryption -------------------------
(* RequestPath and FieldEncryption for TLC.  Requests: one with every kind  *)
(* of Content-Length around the limit, the same with less known about its   *)
(* client, and cross-origin ones, preflights among them.  The keys: none at *)
(* first, then a passphrase as the single key, then a real key before it,   *)
(* and at last that key alone.                                              *)
EXTENDS FieldEncryption

Plain == [method |-> "GET", cors_path |-> FALSE, origin |-> "none", declared |-> NoLength,
          id |-> NoId, client |-> TRUE, tier |-> TRUE]

MCRequests ==
  {[Plain EXCEPT !.declared = n, !.id = i] : n \in {NoLength, 0, 2, 3}, i \in {NoId, "given"}}
    \cup {[Plain EXCEPT !.client = c, !.tier = t] : c \in BOOLEAN, t \in BOOLEAN}
    \cup {[Plain EXCEPT !.cors_path = TRUE, !.method = m, !.origin = o, !.declared = n] :
            m \in {"GET", "OPTIONS"}, o \in {"none", "allowed", "denied"}, n \in {2, 3}}

MCRunbook ==
  << [keys |-> <<>>, key |-> NoKeySet],
     [keys |-> <<>>, key |-> "passphrase"],
     [keys |-> <<"new", "passphrase">>, key |-> "passphrase"],
     [keys |-> <<"new">>, key |-> NoKeySet] >>
=============================================================================
