------------------------------ MODULE Payloads ------------------------------
(***************************************************************************)
(* What an event carries: the JSON object handleWebhookPost and            *)
(* handleReplayPost make of a request (gosmee/server.go), its encryption   *)
(* for the reader of a protected channel (gosmee/crypto.go), and what      *)
(* processClientEvent and parse make of it (gosmee/client.go).             *)
(*                                                                         *)
(* An object is a function from its keys.  A string is the sequence of its *)
(* words, which a colon or a hyphen separates; letter case is left out,    *)
(* and so is base64.  Encryption is ideal.                                 *)
(***************************************************************************)
EXTENDS StreamEvents, EventLines

CONSTANTS Keys, NoKey   \* the key pairs, each by one name for both halves; none

ASSUME KeysAssumption == NoKey \notin Keys

EventHeaders ==
  {"x-github-event", "x-gitlab-event", "x-gitea-event", "x-forgejo-event", "x-event-key"}

\* The object of a webhook: each header under its name, and over them the time and the body.
HandleWebhookPost(headers, body) ==
  [key \in DOMAIN headers \cup {"timestamp", "bodyB"} |->
     CASE key = "timestamp" -> <<"now">> [] key = "bodyB" -> body [] OTHER -> headers[key]]

\* The object of a replay: the same, without the token and always of JSON's type.
HandleReplayPost(headers, body) ==
  LET sent == [h \in (DOMAIN headers \ {"authorization"}) \cup {"content-type"} |->
                 IF h = "content-type" THEN <<"application/json">> ELSE headers[h]]
  IN  HandleWebhookPost(sent, body)

Encrypt(object, key) == [sealedFor |-> key, object |-> object]

IsEncrypted(text) == text.form = "json" /\ "sealedFor" \in DOMAIN text.json

\* Only the private half of the key opens it.
Decrypts(text, key) == IsEncrypted(text) /\ text.json.sealedFor = key

\* encryptRelayEvent
EncryptRelayEvent(object, key) ==
  Json(IF key = NoKey THEN object ELSE Encrypt(object, key))

-----------------------------------------------------------------------------
\* isClientControlEvent
IsClientControlEvent(event, text) ==
  \/ event \in {"ready", "ping"}
  \/ /\ text.form = "json"
     /\ DOMAIN text.json = {"message"}
     /\ text.json.message \in {<<"connected">>, <<"ready">>}

\* pm.eventType: blanks and slashes become underscores and colons hyphens, and of what
\* comes out pmEventRe finds the first word.
EventType(value) == <<Head(value)>>

\* The types the headers name.  The object's keys are gone through in no order and the
\* last one counts.
EventTypes(object) ==
  LET found == {EventType(object[h]) : h \in EventHeaders \cap DOMAIN object}
  IN  IF found = {} THEN {NoType} ELSE found

\* parse finds a header or a body; any other field, also one of an envelope, passes for
\* a header.
Parses(text) ==
  /\ text.form = "json"
  /\ DOMAIN text.json \ {"timestamp"} # {}

\* What processClientEvent may make of an event before it works on it, with this
\* private key.
Understand(event, text, key) ==
  LET sealed == key # NoKey /\ IsEncrypted(text)
      plain == IF sealed THEN Json(text.json.object) ELSE text
  IN  IF \/ IsClientControlEvent(event, text)
         \/ event # "gosmee-gap" /\ text \in {Empty, Json(<<>>)}
        THEN {<<"control", NoType>>}
      ELSE IF event = "gosmee-gap" THEN {<<"gap", NoType>>}
      ELSE IF (sealed /\ ~Decrypts(text, key)) \/ ~Parses(plain) THEN {<<"garbled", NoType>>}
      ELSE {<<"hook", type>> : type \in EventTypes(plain.json)}

\* shouldIgnoreEvent
ShouldIgnoreEvent(type, ignored) == type # NoType /\ type \in ignored
=============================================================================
