-------------------------- MODULE MCClientConnection --------------------------
(***************************************************************************)
(* A small instance of ClientConnection: clients with and without keys of  *)
(* open and protected channels, a client of smee.io, and the mistakes that *)
(* end a client before it connects; webhooks of several forges.            *)
(***************************************************************************)
EXTENDS ClientConnection

CONSTANTS own, other, stranger   \* key pairs; the channel does not allow the last one

SetupWith(server, keyFile, public, private, stateUsable, redis, protected) ==
  [server |-> server, keyFile |-> keyFile, public |-> public, private |-> private,
   stateUsable |-> stateUsable, redis |-> redis, protected |-> protected]

MCSetups ==
  {SetupWith("gosmee", "none", own, own, TRUE, TRUE, FALSE),
   SetupWith("gosmee", "none", own, own, TRUE, FALSE, TRUE),
   SetupWith("gosmee", "pair", own, own, TRUE, FALSE, FALSE),
   SetupWith("gosmee", "pair", own, own, TRUE, TRUE, TRUE),
   SetupWith("gosmee", "pair", own, other, TRUE, TRUE, TRUE),
   SetupWith("gosmee", "pair", stranger, stranger, TRUE, FALSE, TRUE),
   SetupWith("gosmee", "unusable", own, own, TRUE, FALSE, FALSE),
   SetupWith("gosmee", "none", own, own, FALSE, TRUE, FALSE),
   SetupWith("smee.io", "none", own, own, TRUE, FALSE, FALSE),
   SetupWith("smee.io", "pair", own, own, TRUE, FALSE, FALSE)}

Webhook(headers, replay) ==
  [headers |-> "content-type" :> <<"application/json">> @@ headers,
   body |-> <<"body">>, replay |-> replay]

\* A push on GitHub; a pull request on Forgejo, whose other event header names a push; one
\* on Bitbucket; a replay that names no event.
MCWebhooks ==
  {Webhook("x-github-event" :> <<"push">>, FALSE),
   Webhook("x-forgejo-event" :> <<"pr">> @@ "x-github-event" :> <<"push">>, FALSE),
   Webhook("x-event-key" :> <<"pr", "opened">>, FALSE),
   Webhook("authorization" :> <<"Bearer", "token">>, TRUE)}

MCTypes == {<<"push">>, <<"pr">>}

\* --ignore-event push
IgnorePushes == {<<"push">>}
=============================================================================
