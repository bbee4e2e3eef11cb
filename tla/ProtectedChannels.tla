------------------------- MODULE ProtectedChannels -------------------------
(***************************************************************************)
(* The channels `gosmee server` keeps for readers it knows: serve loads    *)
(* --encrypted-channels-file (gosmee/protected_channels.go), and every GET *)
(* of a channel's page or events is answered by what it holds              *)
(* (gosmee/server.go).                                                     *)
(*                                                                         *)
(* A public key arrives as a text.  Several texts stand for one key, since *)
(* base64 has bits to spare, and KeyOf is what ParsePublicKey makes of     *)
(* one.  A path that is given is not empty.                                *)
(***************************************************************************)
EXTENDS Configuration

CONSTANTS Files,     \* what may be found at the path
          Channels,  \* names that are channel IDs
          KeyOf,     \* text |-> the key it stands for, or "bad"; "none" is no text
          Gets       \* the GETs that arrive

KeyTexts == DOMAIN KeyOf

ASSUME ChannelsAssumption ==
  /\ "bad" \notin Channels
  /\ "none" \in KeyTexts /\ KeyOf["none"] = "bad"
  /\ \A f \in Files :
       /\ f.json \in BOOLEAN
       /\ DOMAIN f.lists \subseteq Channels \cup {"bad"}
       /\ \A c \in DOMAIN f.lists : f.lists[c] \subseteq KeyTexts
  /\ \A g \in Gets :
       /\ g.to \in {"new", "index", "events"}
       /\ g.channel \in Channels \cup {"bad"}
       /\ g.pubkey \in KeyTexts

VARIABLES
  protected,  \* protectedChannels: channel |-> its allowed keys
  listed,     \* what the file says: channel |-> the texts of its keys (history)
  reader,     \* the GET that was answered last
  answer      \* "none", "stream", "page", "url" or "refused"

readerVars == <<protected, listed, reader, answer>>

Nobody == [c \in {} |-> {}]
NoReader == [to |-> "new", channel |-> "bad", pubkey |-> "none"]

ReadersTypeOK ==
  /\ DOMAIN protected \subseteq Channels
  /\ \A c \in DOMAIN protected : protected[c] \subseteq {KeyOf[t] : t \in KeyTexts}
  /\ DOMAIN listed = DOMAIN protected
  /\ reader.to \in {"new", "index", "events"}
  /\ reader.channel \in Channels \cup {"bad"}
  /\ reader.pubkey \in KeyTexts
  /\ answer \in {"none", "stream", "page", "url", "refused"}

ReadersInit ==
  /\ protected = Nobody
  /\ listed = Nobody
  /\ reader = NoReader
  /\ answer = "none"

-----------------------------------------------------------------------------
\* JSON with at least one channel, all of them channel IDs, each with keys that are.
WellFormed(file) ==
  /\ file.json
  /\ DOMAIN file.lists # {}
  /\ DOMAIN file.lists \subseteq Channels
  /\ \A c \in DOMAIN file.lists :
       file.lists[c] # {} /\ \A t \in file.lists[c] : KeyOf[t] # "bad"

\* Fault: the keys are kept as they were written.
LoadAsWritten(lists) == lists

LoadProtectedChannels(lists) == [c \in DOMAIN lists |-> {KeyOf[t] : t \in lists[c]}]

Has(c) == c \in DOMAIN protected

IsAllowed(c, pubKey) == pubKey # "bad" /\ Has(c) /\ pubKey \in protected[c]

\* serve gives up: two footers, a file, an address, a certificate, the port or Redis.
ServeFails ==
  /\ pc = "server"
  /\ pc' = "failed"
  /\ UNCHANGED <<inv, loaded, pending, flag, readerVars>>

Serves ==
  /\ pc = "server"
  /\ ~(Given("footer") /\ Given("footer-file"))
  /\ IF Given("encrypted-channels-file")
       THEN \E file \in Files : WellFormed(file) /\ listed' = file.lists
       ELSE listed' = Nobody
  /\ protected' = LoadProtectedChannels(listed')
  /\ pc' = "serving"
  /\ UNCHANGED <<inv, loaded, pending, flag, reader, answer>>

Answers(g, a) ==
  /\ pc = "serving"
  /\ answer = "none"
  /\ reader' = g
  /\ answer' = a
  /\ UNCHANGED <<configVars, protected, listed>>

\* authorizeEventSubscriber lets the request through.
Subscribes(g) ==
  /\ g.to = "events" /\ g.channel \in Channels
  /\ Has(g.channel) => IsAllowed(g.channel, KeyOf[g.pubkey])
  /\ Answers(g, "stream")

ShowsPage(g) ==
  /\ g.to = "index" /\ g.channel \in Channels
  /\ ~Has(g.channel)
  /\ Answers(g, "page")

\* / and /new hand out the URL of a channel that nextPlaintextChannel found.
HandsOut(g, c) ==
  /\ g.to = "new"
  /\ ~Has(c)
  /\ Answers([to |-> "new", channel |-> c, pubkey |-> g.pubkey], "url")

\* 404: no channel ID, the page of a protected channel, or its events for no key,
\* for one that cannot be parsed or for one that is not allowed.
TurnsAway(g) ==
  /\ \/ g.to # "new" /\ g.channel \notin Channels
     \/ g.to = "index" /\ Has(g.channel)
     \/ g.to = "events" /\ Has(g.channel) /\ ~IsAllowed(g.channel, KeyOf[g.pubkey])
  /\ Answers(g, "refused")

Answered ==
  /\ answer # "none"
  /\ reader' = NoReader
  /\ answer' = "none"
  /\ UNCHANGED <<configVars, protected, listed>>

ReaderStep ==
  \/ ServeFails \/ Serves \/ Answered
  \/ \E g \in Gets : \/ Subscribes(g) \/ ShowsPage(g) \/ TurnsAway(g)
                     \/ \E c \in Channels : HandsOut(g, c)

-----------------------------------------------------------------------------
(* Properties                                                              *)

\* The file lists a text of the key that the request brings.
Opens(g) == \E t \in listed[g.channel] : KeyOf[t] = KeyOf[g.pubkey]

\* Whoever asked for protected channels, and wherever: the server runs only with some;
\* the events of a channel in the file go to a request with a key the file lists for
\* it, however the two are written, and to no other; its page is not shown and its URL
\* not handed out; and no other request is turned away.
ReadersAreNamed ==
  /\ pc = "serving" /\ Asked("encrypted-channels-file") => DOMAIN listed # {}
  /\ answer = "stream" /\ reader.channel \in DOMAIN listed => Opens(reader)
  /\ answer \in {"page", "url"} => reader.channel \notin DOMAIN listed
  /\ answer = "refused" /\ reader.channel \in Channels =>
       /\ reader.channel \in DOMAIN listed
       /\ reader.to = "events" => ~Opens(reader)
=============================================================================
