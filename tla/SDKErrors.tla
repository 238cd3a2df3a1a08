----------------------------- MODULE SDKErrors -----------------------------
(***************************************************************************)
(* Error values of the client, as errors.Is sees them.                     *)
(*                                                                         *)
(* An error is the sequence of the links that successive calls of Unwrap   *)
(* produce, outermost first.  A link is an SDKError (named by its code), a *)
(* sentinel of another package, the wrapper added by fmt.Errorf("%w"), an  *)
(* *HTTPError, or the nil *SDKError that HTTPError.Unwrap returns for a    *)
(* status httpErrorForStatus has no error for.  <<>> is the nil error.     *)
(***************************************************************************)
EXTENDS Integers, Sequences

\* Codes of the SDKErrors that reach a caller of HTTPClient.Do.
SDKCodes == {"BadRequest", "Unauthorized", "TooManyRequests", "InternalServerError"}

NilSDKError == "nil"

\* Error links of the transport: the *HTTPError, the "max retries exceeded"
\* wrapper, a failed request, an unreadable or undecodable body, arguments no
\* request can be built from, and the error of the caller's context.
TransportLinks ==
  {"http", "max retries", "request", "read", "decode", "arguments", "context"}

Links == SDKCodes \cup {NilSDKError} \cup TransportLinks

httpErrorForStatus(status) ==
  CASE status = 400          -> "BadRequest"
    [] status \in {401, 403} -> "Unauthorized"
    [] status = 429          -> "TooManyRequests"
    [] status >= 500         -> "InternalServerError"
    [] OTHER                 -> NilSDKError

\* An *HTTPError and what it unwraps to.  Unwrap converts the *SDKError field to
\* the error interface, so a nil field is a non-nil link.
HTTPError(status) == <<"http", httpErrorForStatus(status)>>

Has(err, link) == \E i \in DOMAIN err : err[i] = link

(***************************************************************************)
(* errors.Is(err, target): the verdict of the first link that decides.     *)
(* SDKError.Is reads the code of its receiver when the target is an        *)
(* SDKError, so the nil *SDKError link panics before any later match.      *)
(***************************************************************************)
ErrorsIs(err, target) ==
  LET decides(i) == \/ err[i] = target
                    \/ err[i] = NilSDKError /\ target \in SDKCodes
      first == {i \in DOMAIN err : decides(i) /\ \A j \in 1..(i - 1) : ~decides(j)}
  IN  IF first = {} THEN "no"
      ELSE IF \E i \in first : err[i] = NilSDKError THEN "panic" ELSE "yes"

=============================================================================
