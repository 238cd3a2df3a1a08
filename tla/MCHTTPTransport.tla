-------------------------- MODULE MCHTTPTransport --------------------------
(***************************************************************************)
(* A scaled-down clock: a second is 10 units and a Duration lies in        *)
(* -128..127, so that Retry-After: 13 overflows as 9223372037 does.        *)
(***************************************************************************)
EXTENDS HTTPTransport

\* One status per branch of Do and httpErrorForStatus, and its neighbours.
MCStatuses == {200, 399, 400, 401, 404, 429, 499, 500}

MCRetryAfters ==
  {NoHeader} \cup [form : {"seconds"}, value : {0, 1, 13}]
             \cup [form : {"date"}, value : {-5, 20, 200}]

=============================================================================
