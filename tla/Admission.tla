----------------------------- MODULE Admission -----------------------------
(***************************************************************************)
(* What `gosmee server` lets in: every POST passes ipRestrictMiddleware    *)
(* and the checks of handleWebhookPost or handleReplayPost before its      *)
(* payload goes to the relay (gosmee/server.go).                           *)
(*                                                                         *)
(* Handlers share nothing but the relay, so one request at a time is       *)
(* modelled.  A signature is the secret it was made with over the body of  *)
(* the request, "forged" stands for any other, "none" for no header.  An   *)
(* address is a member of Addresses, "none" is no header and "bad" a text  *)
(* that is not an address.  What the options are worth comes from          *)
(* Configuration.                                                          *)
(***************************************************************************)
EXTENDS Configuration

CONSTANTS Secrets,     \* source |-> the secrets --webhook-signature has from there
          Allowed,     \* source |-> the addresses --allowed-ips covers from there
          Addresses,
          Requests,    \* the POSTs that arrive
          MaxAttempts  \* bound: XADDs go-redis tries for one payload (4 by default)

\* The headers a signature may be in, in the order validateWebhookSignature asks:
\* X-Gitlab-Token, X-Hub-Signature-256, X-Hub-Signature and X-Gitea-Signature.
Headers == 1..4

ASSUME AdmissionAssumption ==
  /\ MaxAttempts \in Nat \ {0}
  /\ Requests # {}
  /\ {"none", "bad"} \cap Addresses = {}
  /\ \A s \in Sources : Allowed[s] \subseteq Addresses
  /\ \A r \in Requests :
       /\ r.to \in {"webhook", "replay"}
       /\ r.peer \in Addresses \cup {"bad"}
       /\ {r.forwarded, r.realIP} \subseteq Addresses \cup {"none", "bad"}
       /\ r.body \in {"json", "text", "unread"}
       /\ {r.typed, r.channel} \subseteq BOOLEAN
       /\ DOMAIN r.signed = Headers
       /\ r.bearer \in Sources \cup {"none", "forged"}

VARIABLES
  request,   \* the request being handled
  stage,     \* "none", "arrived", "passed", "valid", "answered"
  published, \* how often its payload was put into the relay
  status     \* the answer: "accepted", "refused" before the relay was asked, "error"

admissionVars == <<request, stage, published, status>>

AdmissionTypeOK ==
  /\ request.to \in {"webhook", "replay"}
  /\ stage \in {"none", "arrived", "passed", "valid", "answered"}
  /\ published \in 0..MaxAttempts
  /\ status \in {"none", "accepted", "refused", "error"}

\* Between two requests the variable holds any of them.
Idle == CHOOSE r \in Requests : TRUE

AdmissionInit ==
  /\ request = Idle
  /\ stage = "none"
  /\ published = 0
  /\ status = "none"

-----------------------------------------------------------------------------
Arrives(r) ==
  /\ pc = "serving"
  /\ stage = "none"
  /\ request' = r
  /\ stage' = "arrived"
  /\ UNCHANGED <<configVars, published, status>>

Answer(s) == stage' = "answered" /\ status' = s

-----------------------------------------------------------------------------
(* ipRestrictMiddleware                                                    *)

\* Fault: the proxy's own address is taken for the client's.
ClientIPOfPeer(r) == r.peer

\* getRealIP: behind a trusted proxy the first of X-Forwarded-For, else X-Real-IP, where
\* they are addresses, and else the peer.
ClientIP(r) ==
  IF Given("trust-proxy") /\ r.forwarded \in Addresses THEN r.forwarded
  ELSE IF Given("trust-proxy") /\ r.realIP \in Addresses THEN r.realIP
  ELSE r.peer

AddressAllowed(r) == Given("allowed-ips") => ClientIP(r) \in Allowed[flag["allowed-ips"]]

PassAddress ==
  /\ stage = "arrived"
  /\ AddressAllowed(request)
  /\ stage' = "passed"
  /\ UNCHANGED <<configVars, request, published, status>>

RefuseAddress ==
  /\ stage = "arrived"
  /\ ~AddressAllowed(request)
  /\ Answer("refused")
  /\ UNCHANGED <<configVars, request, published>>

-----------------------------------------------------------------------------
(* handleWebhookPost and handleReplayPost                                  *)

Present(r) == {h \in Headers : r.signed[h] # "none"}

\* Fault: a request without any signature header is let through.
SignatureValidIfAny(r) ==
  Given("webhook-signature") =>
    \A h \in Present(r) : (\A g \in Present(r) : h <= g) =>
      r.signed[h] \in Secrets[flag["webhook-signature"]]

\* The first header that is there decides, and any of the secrets may have made it.
SignatureValid(r) ==
  Given("webhook-signature") =>
    \E h \in Present(r) : /\ \A g \in Present(r) : h <= g
                          /\ r.signed[h] \in Secrets[flag["webhook-signature"]]

TokenValid(r) == Given("replay-token") => r.bearer = flag["replay-token"]

\* The body is read whole and within --max-body-size; a webhook is signed JSON, and a
\* replay is anything for a channel with a name.
Valid(r) ==
  \/ r.to = "webhook" /\ r.typed /\ r.body = "json" /\ SignatureValid(r)
  \/ r.to = "replay" /\ TokenValid(r) /\ r.channel /\ r.body \in {"json", "text"}

Check ==
  /\ stage = "passed"
  /\ Valid(request)
  /\ stage' = "valid"
  /\ UNCHANGED <<configVars, request, published, status>>

Refuse ==
  /\ stage = "passed"
  /\ ~Valid(request)
  /\ Answer("refused")
  /\ UNCHANGED <<configVars, request, published>>

\* relay.Publish.  The broker takes every payload.  go-redis repeats an XADD whose answer
\* it did not get, so the payload may be stored more than once, or be stored although
\* all it has in the end is an error.
PublishPayload ==
  /\ stage = "valid"
  /\ IF Given("redis-url") THEN published' \in 0..MaxAttempts ELSE published' = 1
  /\ \/ published' > 0 /\ Answer("accepted")
     \/ Given("redis-url") /\ Answer("error")
  /\ UNCHANGED <<configVars, request>>

Returns ==
  /\ stage = "answered"
  /\ stage' = "none"
  /\ request' = Idle
  /\ published' = 0
  /\ status' = "none"
  /\ UNCHANGED configVars

AdmissionStep ==
  \/ \E r \in Requests : Arrives(r)
  \/ PassAddress \/ RefuseAddress \/ Check \/ Refuse \/ PublishPayload \/ Returns

-----------------------------------------------------------------------------
(* Properties                                                              *)

\* Whoever configured a secret, a token or addresses, and wherever: what reaches the
\* relay was signed with a secret of that source, carries that token, and came from
\* such an address, as the peer's or, behind a proxy that is trusted, as it reports it.
OnlyGenuine ==
  published > 0 =>
    /\ request.to = "webhook" /\ Asked("webhook-signature") =>
         \E h \in Headers : request.signed[h] \in Secrets[flag["webhook-signature"]]
    /\ request.to = "replay" /\ Asked("replay-token") =>
         request.bearer = flag["replay-token"]
    /\ Asked("allowed-ips") =>
         \/ request.peer \in Allowed[flag["allowed-ips"]]
         \/ /\ Asked("trust-proxy")
            /\ {request.forwarded, request.realIP} \cap Allowed[flag["allowed-ips"]] # {}

\* A provider's webhook is taken: JSON within the size, all of whose signatures were made
\* with one of the secrets, and whose client is allowed, directly or as a trusted proxy
\* reports it, is not turned away before the relay has it.
GenuineTaken ==
  status = "refused" =>
    ~ /\ request.to = "webhook" /\ request.typed /\ request.body = "json"
      /\ Given("webhook-signature") =>
           /\ Present(request) # {}
           /\ \A h \in Present(request) :
                request.signed[h] \in Secrets[flag["webhook-signature"]]
      /\ Given("allowed-ips") =>
           (IF ~Given("trust-proxy") THEN request.peer
            ELSE IF request.forwarded # "none" THEN request.forwarded
            ELSE IF request.realIP # "none" THEN request.realIP
            ELSE request.peer) \in Allowed[flag["allowed-ips"]]
=============================================================================
