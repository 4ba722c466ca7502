---------------------------- MODULE MCHttpClient ----------------------------
(* Instances of HttpClient for TLC: address 3 is a link-local one that a   *)
(* resolver may return after or together with public ones; a registration  *)
(* leaves the defaults, or retries any Exception once.                     *)
EXTENDS HttpClient

MCRegistrations == {Nothing, [max_attempts |-> 2, retry_on |-> {}]}
MCFlags == <<{}, {}, {"private", "link_local"}>>
MCDnsAnswers == {{}, {1, 2}, {2, 3}, {3}}
Api == <<"api", "partner", "example">>
MCHosts == {Api, <<"partner", "test">>}
MCAllowlist == {[kind |-> "suffix", name |-> <<"partner", "example">>]}
=============================================================================
