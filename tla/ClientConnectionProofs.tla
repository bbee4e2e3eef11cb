------------------------ MODULE ClientConnectionProofs ------------------------
(***************************************************************************)
(* What `gosmee client` takes from its connections, for any setups, keys,  *)
(* webhooks and numbers of messages: the messages the server writes, one   *)
(* after the other and as they are meant, wherever the stream ends         *)
(* (MessageStream).                                                        *)
(***************************************************************************)
EXTENDS ClientConnection, SequenceTheorems, TLAPS

-----------------------------------------------------------------------------
(* The text on the wire and what it says                                   *)

Names == {None, "ready", "ping", "gosmee-gap", "part"}

Texts ==
  {Empty, Part, Json(<<>>), Greeting("connected"), Greeting("ready"),
   Json([error |-> <<"missed_history">>])}
    \cup {EncryptRelayEvent(ObjectOf(w), k) : w \in Webhooks, k \in Keys \cup {NoKey}}

Lines ==
  {Line("id", id) : id \in 0..MaxMessages}
    \cup {Line("event", name) : name \in Names}
    \cup {Line("data", text) : text \in Texts}
    \cup {Ignored, Blank}

Readers == [id : 0..MaxMessages, event : Names, data : Seq(Texts)]

Meanings ==
  [id : 0..MaxMessages, kind : {"control", "gap", "garbled", "hook"},
   types : SUBSET (Types \cup {NoType})]

\* What may be dispatched for an event, with a private key.
MayTake(key, r) == {Message(r.id, u[1], u[2]) : u \in Understand(r.event, Data(r), key)}

TakenTorn(key, r, m) == MayTake(key, r) \subseteq Carried!Readings(m) \cup Carried!TornReadings(m)

\* The event is the message m, and nothing worse than garbage under its ID when the line
\* of its data is cut short.
Says(key, r, m) ==
  /\ MayTake(key, r) \subseteq Carried!Readings(m)
  /\ \A text \in {Empty, Part} : TakenTorn(key, [r EXCEPT !.data = <<text>>], m)

-----------------------------------------------------------------------------
(* Reading ahead                                                           *)

\* A line takes the reader from r to s and the count of messages from n to k: a blank line
\* that ends an event is the next message.
Turn(key, line, ms, r, n, s, k) ==
  \/ line.field # "blank" /\ s = Feed(r, line) /\ k = n
  \/ line.field = "blank" /\ r = NoEvent /\ s = NoEvent /\ k = n
  \/ /\ line.field = "blank" /\ r # NoEvent /\ s = NoEvent /\ k = n + 1
     /\ n < Len(ms) /\ Says(key, r, ms[n + 1])

\* What reading the lines from r and n on goes through.
ReadsOn(key, lines, ms, r, n, rd, cnt) ==
  /\ rd \in [1..Len(lines) + 1 -> Readers]
  /\ cnt \in [1..Len(lines) + 1 -> Nat]
  /\ rd[1] = r /\ cnt[1] = n
  /\ \A i \in 1..Len(lines) : Turn(key, lines[i], ms, rd[i], cnt[i], rd[i + 1], cnt[i + 1])

\* All lines that are to come are there: they say the messages that were not taken yet, and
\* data is followed by a blank line.
EndsWhole(lines, ms, rd, cnt) ==
  /\ rd[Len(lines) + 1] = NoEvent /\ cnt[Len(lines) + 1] = Len(ms)
  /\ \A i \in 1..Len(lines) + 1 :
       rd[i].data # <<>> => i <= Len(lines) /\ lines[i].field = "blank"

\* The stream ended: the data that is left is at worst a torn message.
EndsCut(key, lines, ms, rd, cnt) ==
  rd[Len(lines) + 1].data # <<>> =>
    /\ cnt[Len(lines) + 1] < Len(ms)
    /\ TakenTorn(key, rd[Len(lines) + 1], ms[cnt[Len(lines) + 1] + 1])

Whole(key, lines, ms, r, n) ==
  \E rd, cnt : ReadsOn(key, lines, ms, r, n, rd, cnt) /\ EndsWhole(lines, ms, rd, cnt)

Cut(key, lines, ms, r, n) ==
  \E rd, cnt : ReadsOn(key, lines, ms, r, n, rd, cnt) /\ EndsCut(key, lines, ms, rd, cnt)

\* What may be on the wire for a reader at r that took n messages.
Ahead(key, end, lines, ms, r, n) ==
  IF end = "no" THEN Whole(key, lines, ms, r, n) ELSE Cut(key, lines, ms, r, n)

-----------------------------------------------------------------------------
(* The inductive invariant                                                 *)

Reading == phase \in {"read", "process"}

Typed ==
  /\ wire \in Seq(Lines) /\ reader \in Readers
  /\ sent \in Seq(Meanings) /\ taken \in Seq(Event)

\* Nothing is written while nobody reads.
Closed == ~Reading => ended # "no"

\* The event that is dispatched is gone from the reader when the next line is read.
ReadNext == IF phase = "process" THEN NoEvent ELSE reader

\* What was taken is what was sent, and so is what can be read from here on.
InStep ==
  Reading =>
    /\ \A i \in DOMAIN taken : taken[i] \in Carried!Readings(sent[i])
    /\ Ahead(PrivateKey, ended, wire, sent, ReadNext, Len(taken))

ConnectionInv == TypeOK /\ Typed /\ Closed /\ InStep

-----------------------------------------------------------------------------
(* Lemmas on lines                                                         *)

LEMMA NoEventTyped == NoEvent \in Readers
  BY ConnectionAssumption, EmptySeq DEF NoEvent, Readers, Names

LEMMA AppendToEmpty ==
  ASSUME NEW v
  PROVE  Append(<<>>, v) = <<v>> /\ Len(<<v>>) = 1 /\ <<v>>[1] = v /\ <<v>> # <<>>
<1>1. <<>> \in Seq({v}) BY EmptySeq
<1> QED BY <1>1, AppendProperties

\* A line of a field has a value of that field.
LEMMA LineCases ==
  ASSUME NEW line \in Lines
  PROVE  \/ line.field = "id" /\ line.value \in 0..MaxMessages /\ line = Line("id", line.value)
         \/ line.field = "event" /\ line.value \in Names /\ line = Line("event", line.value)
         \/ line.field = "data" /\ line.value \in Texts /\ line = Line("data", line.value)
         \/ line.field = "comment" /\ line = Ignored
         \/ line.field = "blank" /\ line = Blank
  BY DEF Lines, Line, Ignored, Blank

\* Feed keeps the types, and only a line of data changes the data.
LEMMA FeedTyped ==
  ASSUME NEW r \in Readers, NEW line \in Lines
  PROVE  /\ Feed(r, line) \in Readers
         /\ line.field # "data" => Feed(r, line).data = r.data
         /\ line.field = "data" /\ r.data = <<>> =>
              Feed(r, line) = [r EXCEPT !.data = <<line.value>>]
<1>1. CASE line.field = "id"
  BY <1>1, LineCases DEF Feed, Readers
<1>2. CASE line.field = "event"
  BY <1>2, LineCases DEF Feed, Readers
<1>3. CASE line.field = "data"
  <2>1. Feed(r, line) = [r EXCEPT !.data = Append(r.data, line.value)]
    BY <1>3 DEF Feed
  <2>2. Append(r.data, line.value) \in Seq(Texts)
    <3>1. r.data \in Seq(Texts) /\ line.value \in Texts
      BY <1>3, LineCases DEF Readers
    <3> QED BY <3>1, AppendProperties
  <2>3. r.data = <<>> => Append(r.data, line.value) = <<line.value>>
    <3>1. Append(<<>>, line.value) = <<line.value>> BY AppendToEmpty
    <3> QED BY <3>1
  <2> QED BY <1>3, <2>1, <2>2, <2>3 DEF Readers
<1>4. CASE line.field \notin {"id", "event", "data"}
  BY <1>4 DEF Feed
<1> QED BY <1>1, <1>2, <1>3, <1>4

-----------------------------------------------------------------------------
(* Lemmas on reading ahead                                                 *)

\* What is said before stays said when more messages follow.
LEMMA TurnExtends ==
  ASSUME NEW key, NEW line, NEW ms \in Seq(Meanings), NEW more \in Seq(Meanings),
         NEW r, NEW n \in Nat, NEW s, NEW k, Turn(key, line, ms, r, n, s, k)
  PROVE  Turn(key, line, ms \o more, r, n, s, k)
<1>1. Len(ms) \in Nat /\ Len(more) \in Nat /\ Len(ms \o more) = Len(ms) + Len(more)
  BY ConcatProperties, LenProperties
<1>2. n < Len(ms) => n < Len(ms \o more) /\ (ms \o more)[n + 1] = ms[n + 1]
  BY <1>1, ConcatProperties
<1> QED BY <1>2 DEF Turn

\* And so does what is said after other messages.
LEMMA TurnShifts ==
  ASSUME NEW key, NEW line, NEW ms \in Seq(Meanings), NEW more \in Seq(Meanings),
         NEW r, NEW n \in Nat, NEW s, NEW k \in Nat, Turn(key, line, more, r, n, s, k)
  PROVE  Turn(key, line, ms \o more, r, Len(ms) + n, s, Len(ms) + k)
<1>1. Len(ms) \in Nat /\ Len(more) \in Nat /\ Len(ms \o more) = Len(ms) + Len(more)
  BY ConcatProperties, LenProperties
<1>2. n < Len(more) => /\ Len(ms) + n < Len(ms \o more)
                       /\ (ms \o more)[(Len(ms) + n) + 1] = more[n + 1]
  <2> SUFFICES ASSUME n < Len(more)
               PROVE  (ms \o more)[(Len(ms) + n) + 1] = more[n + 1]
    BY <1>1
  <2>1. (Len(ms) + n) + 1 \in 1..Len(ms) + Len(more) /\ (Len(ms) + n) + 1 > Len(ms)
        /\ ((Len(ms) + n) + 1) - Len(ms) = n + 1
    BY <1>1
  <2> QED BY <2>1, ConcatProperties
<1>3. k = n => Len(ms) + k = Len(ms) + n
  OBVIOUS
<1>4. k = n + 1 => Len(ms) + k = (Len(ms) + n) + 1
  BY <1>1
<1> QED BY <1>2, <1>3, <1>4 DEF Turn

\* Lines that say some messages, and then lines that say more.
LEMMA WholeConcat ==
  ASSUME NEW key, NEW a \in Seq(Lines), NEW b \in Seq(Lines),
         NEW ms \in Seq(Meanings), NEW more \in Seq(Meanings), NEW r, NEW n,
         Whole(key, a, ms, r, n), Whole(key, b, more, NoEvent, 0)
  PROVE  Whole(key, a \o b, ms \o more, r, n)
<1>1. PICK rd1, cnt1 : ReadsOn(key, a, ms, r, n, rd1, cnt1) /\ EndsWhole(a, ms, rd1, cnt1)
  BY DEF Whole
<1>2. PICK rd2, cnt2 : /\ ReadsOn(key, b, more, NoEvent, 0, rd2, cnt2)
                       /\ EndsWhole(b, more, rd2, cnt2)
  BY DEF Whole
<1>3. PICK p \in Nat, q \in Nat, l \in Nat : p = Len(a) /\ q = Len(b) /\ l = Len(ms)
  BY LenProperties
<1>4. /\ Len(a \o b) = p + q
      /\ \A i \in 1..p : (a \o b)[i] = a[i]
      /\ \A i \in p + 1..p + q : (a \o b)[i] = b[i - p]
      /\ Len(ms \o more) = l + Len(more)
  BY <1>3, ConcatProperties
<1> DEFINE rd == [i \in 1..(p + q) + 1 |-> IF i <= p THEN rd1[i] ELSE rd2[i - p]]
           cnt == [i \in 1..(p + q) + 1 |-> IF i <= p THEN cnt1[i] ELSE l + cnt2[i - p]]
<1>5. /\ rd1 \in [1..p + 1 -> Readers] /\ cnt1 \in [1..p + 1 -> Nat]
      /\ rd2 \in [1..q + 1 -> Readers] /\ cnt2 \in [1..q + 1 -> Nat]
      /\ rd1[1] = r /\ cnt1[1] = n /\ rd2[1] = NoEvent /\ cnt2[1] = 0
      /\ rd1[p + 1] = NoEvent /\ cnt1[p + 1] = l
      /\ rd2[q + 1] = NoEvent /\ cnt2[q + 1] = Len(more)
  BY <1>1, <1>2, <1>3 DEF ReadsOn, EndsWhole
<1>6. /\ \A i \in 1..p : rd[i] = rd1[i] /\ cnt[i] = cnt1[i]
      /\ \A i \in 1..p + 1 : rd[i] = rd1[i] /\ cnt[i] = cnt1[i]
      /\ \A i \in p + 1..(p + q) + 1 : rd[i] = rd2[i - p] /\ cnt[i] = l + cnt2[i - p]
  <2>1. \A i \in 1..p : rd[i] = rd1[i] /\ cnt[i] = cnt1[i]
    OBVIOUS
  <2>2. \A i \in p + 1..(p + q) + 1 : rd[i] = rd2[i - p] /\ cnt[i] = l + cnt2[i - p]
    OBVIOUS
  <2>3. p + 1 \in p + 1..(p + q) + 1 /\ (p + 1) - p = 1
    OBVIOUS
  <2>4. rd[p + 1] = rd1[p + 1] /\ cnt[p + 1] = cnt1[p + 1]
    BY <1>5, <2>2, <2>3
  <2>5. \A i \in 1..p + 1 : i \in 1..p \/ i = p + 1
    OBVIOUS
  <2> HIDE DEF rd, cnt
  <2> QED BY <2>1, <2>2, <2>4, <2>5
<1>7. rd \in [1..(p + q) + 1 -> Readers] /\ cnt \in [1..(p + q) + 1 -> Nat]
  <2>1. \A i \in 1..(p + q) + 1 : i \in 1..p + 1 \/ i - p \in 1..q + 1
    OBVIOUS
  <2> QED BY <1>5, <2>1
<1> HIDE DEF rd, cnt
<1>8. ASSUME NEW i \in 1..p + q
      PROVE  Turn(key, (a \o b)[i], ms \o more, rd[i], cnt[i], rd[i + 1], cnt[i + 1])
  <2>1. CASE i \in 1..p
    <3>1. Turn(key, a[i], ms, rd1[i], cnt1[i], rd1[i + 1], cnt1[i + 1])
      BY <1>1, <1>3, <2>1 DEF ReadsOn
    <3>2. i + 1 \in 1..p + 1 /\ i \in 1..p + 1 BY <2>1
    <3>3. cnt1[i] \in Nat BY <1>5, <3>2
    <3>4. Turn(key, a[i], ms \o more, rd1[i], cnt1[i], rd1[i + 1], cnt1[i + 1])
      BY <3>1, <3>3, TurnExtends
    <3> QED BY <1>4, <1>6, <2>1, <3>2, <3>4
  <2>2. CASE i \in p + 1..p + q
    <3>1. PICK j \in 1..q : j = i - p BY <2>2
    <3>2. /\ j + 1 = (i + 1) - p /\ j \in 1..q + 1 /\ j + 1 \in 1..q + 1
          /\ i + 1 \in p + 1..(p + q) + 1 /\ i \in p + 1..(p + q) + 1
      BY <2>2, <3>1
    <3>3. Turn(key, b[j], more, rd2[j], cnt2[j], rd2[j + 1], cnt2[j + 1])
      BY <1>2, <1>3 DEF ReadsOn
    <3>4. cnt2[j] \in Nat /\ cnt2[j + 1] \in Nat BY <1>5, <3>2
    <3>5. Turn(key, b[j], ms \o more, rd2[j], l + cnt2[j], rd2[j + 1], l + cnt2[j + 1])
      BY <1>3, <3>3, <3>4, TurnShifts
    <3>6. rd[i] = rd2[j] /\ cnt[i] = l + cnt2[j]
      BY <1>6, <3>1, <3>2
    <3>7. rd[i + 1] = rd2[j + 1] /\ cnt[i + 1] = l + cnt2[j + 1]
      BY <1>6, <3>2
    <3>8. (a \o b)[i] = b[j] BY <1>4, <2>2, <3>1
    <3> QED BY <3>5, <3>6, <3>7, <3>8
  <2>3. i \in 1..p \/ i \in p + 1..p + q
    OBVIOUS
  <2> QED BY <2>1, <2>2, <2>3
<1>9. ASSUME NEW i \in 1..(p + q) + 1, rd[i].data # <<>>
      PROVE  i <= p + q /\ (a \o b)[i].field = "blank"
  <2>1. CASE i \in 1..p + 1
    <3>1. i <= p /\ a[i].field = "blank"
      BY <1>1, <1>3, <1>6, <1>9, <2>1 DEF EndsWhole
    <3>2. i \in 1..p BY <2>1, <3>1
    <3>3. i <= p + q BY <3>2
    <3>4. (a \o b)[i] = a[i] BY <1>4, <3>2
    <3> QED BY <3>1, <3>3, <3>4
  <2>2. CASE i \in p + 1..(p + q) + 1
    <3>1. PICK j \in 1..q + 1 : j = i - p BY <2>2
    <3>2. rd[i] = rd2[j] BY <1>6, <2>2, <3>1
    <3>3. j <= q /\ b[j].field = "blank"
      BY <1>2, <1>3, <1>9, <3>2 DEF EndsWhole
    <3>4. i \in p + 1..p + q /\ i <= p + q BY <2>2, <3>1, <3>3
    <3>5. (a \o b)[i] = b[j] BY <1>4, <3>1, <3>4
    <3> QED BY <3>3, <3>4, <3>5
  <2>3. i \in 1..p + 1 \/ i \in p + 1..(p + q) + 1
    OBVIOUS
  <2> QED BY <2>1, <2>2, <2>3
<1>10. rd[(p + q) + 1] = NoEvent /\ cnt[(p + q) + 1] = Len(ms \o more)
  <2>1. (p + q) + 1 \in p + 1..(p + q) + 1 /\ ((p + q) + 1) - p = q + 1
    OBVIOUS
  <2>2. rd[(p + q) + 1] = rd2[q + 1] /\ cnt[(p + q) + 1] = l + cnt2[q + 1]
    BY <1>6, <2>1
  <2> QED BY <1>4, <1>5, <2>2
<1>11. rd[1] = r /\ cnt[1] = n
  <2>1. 1 \in 1..p + 1 OBVIOUS
  <2> QED BY <1>5, <1>6, <2>1
<1>12. ReadsOn(key, a \o b, ms \o more, r, n, rd, cnt)
  BY <1>4, <1>7, <1>8, <1>11 DEF ReadsOn
<1>13. EndsWhole(a \o b, ms \o more, rd, cnt)
  BY <1>4, <1>9, <1>10 DEF EndsWhole
<1> QED BY <1>12, <1>13 DEF Whole

\* What is gone through from the second line on.
Shifted(f, lines) == [i \in 1..Len(lines) |-> f[i + 1]]

\* The lines after the first one.
LEMMA TailTyped ==
  ASSUME NEW lines \in Seq(Lines), lines # <<>>
  PROVE  /\ Len(lines) \in Nat \ {0} /\ Len(Tail(lines)) + 1 = Len(lines)
         /\ Tail(lines) \in Seq(Lines) /\ Head(lines) = lines[1]
         /\ \A i \in 1..Len(Tail(lines)) : Tail(lines)[i] = lines[i + 1]
<1>1. Len(lines) \in Nat
  BY LenProperties
<1>2. /\ Len(Tail(lines)) = Len(lines) - 1 /\ Tail(lines) \in Seq(Lines)
      /\ Head(lines) = lines[1]
      /\ \A i \in 1..Len(Tail(lines)) : Tail(lines)[i] = lines[i + 1]
  BY <1>1, HeadTailProperties, LenProperties
<1>3. Len(lines) # 0
  BY EmptySeq
<1> QED BY <1>1, <1>2, <1>3

\* To read a line is a turn, and the rest is read on from there.
LEMMA ReadsOnTail ==
  ASSUME NEW key, NEW lines \in Seq(Lines), lines # <<>>, NEW ms, NEW r, NEW n, NEW rd, NEW cnt,
         ReadsOn(key, lines, ms, r, n, rd, cnt)
  PROVE  /\ rd[2] \in Readers /\ cnt[2] \in Nat
         /\ Turn(key, Head(lines), ms, r, n, rd[2], cnt[2])
         /\ ReadsOn(key, Tail(lines), ms, rd[2], cnt[2], Shifted(rd, lines), Shifted(cnt, lines))
<1>1. PICK l \in Nat : l = Len(Tail(lines))
  BY TailTyped, LenProperties
<1>2. /\ Len(lines) = l + 1 /\ Head(lines) = lines[1]
      /\ \A i \in 1..l : Tail(lines)[i] = lines[i + 1]
  BY <1>1, TailTyped
<1>3. rd \in [1..(l + 1) + 1 -> Readers] /\ cnt \in [1..(l + 1) + 1 -> Nat]
  BY <1>2 DEF ReadsOn
<1> DEFINE rd2 == Shifted(rd, lines)
           cnt2 == Shifted(cnt, lines)
<1>4. /\ rd2 \in [1..l + 1 -> Readers] /\ cnt2 \in [1..l + 1 -> Nat]
      /\ \A i \in 1..l + 1 : rd2[i] = rd[i + 1] /\ cnt2[i] = cnt[i + 1]
  <2>1. \A i \in 1..l + 1 : i + 1 \in 1..(l + 1) + 1 OBVIOUS
  <2> QED BY <1>2, <1>3, <2>1 DEF Shifted
<1> HIDE DEF rd2, cnt2
<1>5. 2 \in 1..(l + 1) + 1 /\ 1 \in 1..l + 1 /\ 1 + 1 = 2
  OBVIOUS
<1>6. rd2[1] = rd[2] /\ cnt2[1] = cnt[2]
  BY <1>4, <1>5
<1>7. ASSUME NEW i \in 1..l
      PROVE  Turn(key, Tail(lines)[i], ms, rd2[i], cnt2[i], rd2[i + 1], cnt2[i + 1])
  <2>1. i + 1 \in 1..l + 1 /\ i \in 1..l + 1 OBVIOUS
  <2>2. Turn(key, lines[i + 1], ms, rd[i + 1], cnt[i + 1], rd[(i + 1) + 1], cnt[(i + 1) + 1])
    BY <1>2, <2>1 DEF ReadsOn
  <2> QED BY <1>2, <1>4, <2>1, <2>2
<1>8. ReadsOn(key, Tail(lines), ms, rd[2], cnt[2], rd2, cnt2)
  BY <1>1, <1>4, <1>6, <1>7 DEF ReadsOn
<1>9. Turn(key, Head(lines), ms, r, n, rd[2], cnt[2])
  BY <1>2, <1>5 DEF ReadsOn
<1> QED BY <1>3, <1>5, <1>8, <1>9 DEF rd2, cnt2

\* After a line of what is whole comes what is whole,
LEMMA WholeTail ==
  ASSUME NEW key, NEW lines \in Seq(Lines), lines # <<>>, NEW ms, NEW r, NEW n,
         Whole(key, lines, ms, r, n)
  PROVE  \E s \in Readers, k \in Nat : /\ Turn(key, Head(lines), ms, r, n, s, k)
                                       /\ Whole(key, Tail(lines), ms, s, k)
<1>1. PICK rd, cnt : ReadsOn(key, lines, ms, r, n, rd, cnt) /\ EndsWhole(lines, ms, rd, cnt)
  BY DEF Whole
<1>2. PICK rd2, cnt2 : rd2 = Shifted(rd, lines) /\ cnt2 = Shifted(cnt, lines)
  OBVIOUS
<1>3. /\ rd[2] \in Readers /\ cnt[2] \in Nat
      /\ Turn(key, Head(lines), ms, r, n, rd[2], cnt[2])
      /\ ReadsOn(key, Tail(lines), ms, rd[2], cnt[2], rd2, cnt2)
  BY <1>1, <1>2, ReadsOnTail
<1>4. PICK l \in Nat : l = Len(Tail(lines))
  BY TailTyped, LenProperties
<1>5. /\ Len(lines) = l + 1
      /\ \A i \in 1..l : Tail(lines)[i] = lines[i + 1]
      /\ \A i \in 1..l + 1 : rd2[i] = rd[i + 1] /\ cnt2[i] = cnt[i + 1]
  BY <1>2, <1>4, TailTyped DEF Shifted
<1>6. rd2[l + 1] = NoEvent /\ cnt2[l + 1] = Len(ms)
  <2>1. l + 1 \in 1..l + 1 OBVIOUS
  <2> QED BY <1>1, <1>5, <2>1 DEF EndsWhole
<1>7. ASSUME NEW i \in 1..l + 1, rd2[i].data # <<>>
      PROVE  i <= l /\ Tail(lines)[i].field = "blank"
  <2>1. i + 1 \in 1..(l + 1) + 1 OBVIOUS
  <2>2. i + 1 <= l + 1 /\ lines[i + 1].field = "blank"
    BY <1>1, <1>5, <1>7, <2>1 DEF EndsWhole
  <2>3. i \in 1..l BY <2>2
  <2> QED BY <1>5, <2>2, <2>3
<1>8. EndsWhole(Tail(lines), ms, rd2, cnt2)
  BY <1>4, <1>6, <1>7 DEF EndsWhole
<1> QED BY <1>3, <1>8 DEF Whole

\* and after a line of what is cut comes what is cut.
LEMMA CutTail ==
  ASSUME NEW key, NEW lines \in Seq(Lines), lines # <<>>, NEW ms, NEW r, NEW n,
         Cut(key, lines, ms, r, n)
  PROVE  \E s \in Readers, k \in Nat : /\ Turn(key, Head(lines), ms, r, n, s, k)
                                       /\ Cut(key, Tail(lines), ms, s, k)
<1>1. PICK rd, cnt : ReadsOn(key, lines, ms, r, n, rd, cnt) /\ EndsCut(key, lines, ms, rd, cnt)
  BY DEF Cut
<1>2. PICK rd2, cnt2 : rd2 = Shifted(rd, lines) /\ cnt2 = Shifted(cnt, lines)
  OBVIOUS
<1>3. /\ rd[2] \in Readers /\ cnt[2] \in Nat
      /\ Turn(key, Head(lines), ms, r, n, rd[2], cnt[2])
      /\ ReadsOn(key, Tail(lines), ms, rd[2], cnt[2], rd2, cnt2)
  BY <1>1, <1>2, ReadsOnTail
<1>4. PICK l \in Nat : l = Len(Tail(lines)) /\ Len(lines) = l + 1
  BY TailTyped, LenProperties
<1>5. l + 1 \in 1..l + 1 OBVIOUS
<1>6. rd2[l + 1] = rd[(l + 1) + 1] /\ cnt2[l + 1] = cnt[(l + 1) + 1]
  BY <1>2, <1>4, <1>5 DEF Shifted
<1>7. EndsCut(key, Tail(lines), ms, rd2, cnt2)
  BY <1>1, <1>4, <1>6 DEF EndsCut
<1> QED BY <1>3, <1>7 DEF Cut

\* At the end of the lines, data that is left is a torn message.
LEMMA CutOver ==
  ASSUME NEW key, NEW ms, NEW r, NEW n, Cut(key, <<>>, ms, r, n), r.data # <<>>
  PROVE  n < Len(ms) /\ TakenTorn(key, r, ms[n + 1])
<1>1. Len(<<>>) + 1 = 1 BY EmptySeq
<1> QED BY <1>1 DEF Cut, ReadsOn, EndsCut

\* A response that has just begun.
LEMMA WholeEmpty == \A key : Whole(key, <<>>, <<>>, NoEvent, 0)
<1> SUFFICES ASSUME NEW key PROVE Whole(key, <<>>, <<>>, NoEvent, 0) OBVIOUS
<1>1. Len(<<>>) = 0 /\ Len(<<>>) + 1 = 1 /\ 1..0 = {}
  BY EmptySeq
<1> DEFINE rd == [i \in 1..1 |-> NoEvent]
           cnt == [i \in 1..1 |-> 0]
<1>2. rd \in [1..1 -> Readers] /\ cnt \in [1..1 -> Nat] /\ rd[1] = NoEvent /\ cnt[1] = 0
  BY NoEventTyped
<1>3. NoEvent.data = <<>> BY DEF NoEvent
<1> HIDE DEF rd, cnt
<1>4. ReadsOn(key, <<>>, <<>>, NoEvent, 0, rd, cnt)
  BY <1>1, <1>2 DEF ReadsOn
<1>5. EndsWhole(<<>>, <<>>, rd, cnt)
  BY <1>1, <1>2, <1>3 DEF EndsWhole
<1> QED BY <1>4, <1>5 DEF Whole

\* What a line that is cut short may be, and that a blank line is there or not.
LEMMA CutCases ==
  ASSUME NEW line \in Lines, NEW cut \in Cuts(line)
  PROVE  /\ cut \in Lines /\ cut.field # "blank" /\ line.field # "blank"
         /\ cut.field = "data" =>
              line.field = "data" /\ cut.value \in {Empty, Part, line.value}
<1>1. CASE line.field = "id"
  <2>1. line.value \in 0..MaxMessages BY <1>1, LineCases
  <2>2. cut = Ignored \/ \E n \in 0..line.value : cut = Line("id", n)
    BY <1>1 DEF Cuts
  <2>3. \A n \in 0..line.value : n \in 0..MaxMessages
    BY <2>1, ConnectionAssumption
  <2> QED BY <1>1, <2>2, <2>3 DEF Lines, Line, Ignored
<1>2. CASE line.field = "event"
  <2>1. cut \in {Ignored, Line("event", None), Line("event", "part"), line}
    BY <1>2 DEF Cuts
  <2> QED BY <1>2, <2>1 DEF Lines, Line, Ignored, Names
<1>3. CASE line.field = "data"
  <2>1. cut \in {Ignored, Line("data", Empty), Line("data", Part), line}
    BY <1>3 DEF Cuts
  <2> QED BY <1>3, <2>1 DEF Lines, Line, Ignored, Texts
<1>4. CASE line.field \notin {"id", "event", "data"}
  <2>1. Cuts(line) = {} BY <1>4 DEF Cuts
  <2> QED BY <2>1
<1> QED BY <1>1, <1>2, <1>3, <1>4

\* The event that is read up to the line of its data can end there.
LEMMA TornEvent ==
  ASSUME NEW key, NEW line \in Lines, NEW cut \in Cuts(line), NEW r \in Readers, NEW m,
         r.data = <<>>, cut.field = "data", Says(key, Feed(r, line), m)
  PROVE  TakenTorn(key, Feed(r, cut), m)
<1>1. line.field = "data" /\ cut.value \in {Empty, Part, line.value} /\ cut \in Lines
  BY CutCases
<1>2. /\ Feed(r, line) = [r EXCEPT !.data = <<line.value>>]
      /\ Feed(r, cut) = [r EXCEPT !.data = <<cut.value>>]
  BY <1>1, FeedTyped
<1>3. CASE cut.value = line.value
  BY <1>2, <1>3 DEF Says, TakenTorn
<1>4. CASE cut.value \in {Empty, Part}
  <2>1. [[r EXCEPT !.data = <<line.value>>] EXCEPT !.data = <<cut.value>>]
          = [r EXCEPT !.data = <<cut.value>>]
    BY DEF Readers
  <2> QED BY <1>2, <1>4, <2>1 DEF Says
<1> QED BY <1>1, <1>3, <1>4

\* An event of a whole text whose data is read is the next message.
LEMMA WholeData ==
  ASSUME NEW key, NEW lines \in Seq(Lines), NEW ms, NEW r, NEW n, NEW rd, NEW cnt,
         ReadsOn(key, lines, ms, r, n, rd, cnt), EndsWhole(lines, ms, rd, cnt),
         NEW i \in 1..Len(lines) + 1, rd[i].data # <<>>
  PROVE  /\ i <= Len(lines) /\ lines[i].field = "blank"
         /\ cnt[i] < Len(ms) /\ Says(key, rd[i], ms[cnt[i] + 1])
<1>1. i <= Len(lines) /\ lines[i].field = "blank"
  BY DEF EndsWhole
<1>2. i \in 1..Len(lines)
  BY <1>1, LenProperties
<1>3. Turn(key, lines[i], ms, rd[i], cnt[i], rd[i + 1], cnt[i + 1])
  BY <1>2 DEF ReadsOn
<1>4. rd[i] # NoEvent
  BY DEF NoEvent
<1> QED BY <1>1, <1>3, <1>4 DEF Turn

\* Wherever the stream ends, the lines that are left end with a torn message at worst.
LEMMA WholeCut ==
  ASSUME NEW key, NEW lines \in Seq(Lines), NEW part \in Beginnings(lines), NEW ms, NEW r, NEW n,
         Whole(key, lines, ms, r, n)
  PROVE  part \in Seq(Lines) /\ Cut(key, part, ms, r, n)
<1>0. PICK l \in Nat : l = Len(lines) /\ DOMAIN lines = 1..l /\ \A i \in 1..l : lines[i] \in Lines
  BY LenProperties, ElementOfSeq
<1>1. PICK rd, cnt : ReadsOn(key, lines, ms, r, n, rd, cnt) /\ EndsWhole(lines, ms, rd, cnt)
  BY DEF Whole
<1>2. /\ rd \in [1..l + 1 -> Readers] /\ cnt \in [1..l + 1 -> Nat]
      /\ rd[1] = r /\ cnt[1] = n
      /\ \A i \in 1..l : Turn(key, lines[i], ms, rd[i], cnt[i], rd[i + 1], cnt[i + 1])
  BY <1>0, <1>1 DEF ReadsOn
<1>3. ASSUME NEW i \in 1..l + 1, rd[i].data # <<>>
      PROVE  /\ i <= l /\ lines[i].field = "blank"
             /\ cnt[i] < Len(ms) /\ Says(key, rd[i], ms[cnt[i] + 1])
  BY <1>0, <1>1, <1>3, WholeData
<1>4. ASSUME NEW k \in 0..l
      PROVE  /\ SubSeq(lines, 1, k) \in Seq(Lines) /\ Len(SubSeq(lines, 1, k)) = k
             /\ \A i \in 1..k : SubSeq(lines, 1, k)[i] = lines[i]
  <2>1. \A i \in 1..k : lines[i] \in Lines BY <1>0
  <2> QED BY <1>0, <2>1, SubSeqProperties
<1>5. ASSUME NEW k \in 0..l, part = SubSeq(lines, 1, k)
      PROVE  part \in Seq(Lines) /\ Cut(key, part, ms, r, n)
  <2>1. part \in Seq(Lines) /\ Len(part) = k /\ \A i \in 1..k : part[i] = lines[i]
    BY <1>4, <1>5
  <2> DEFINE rd2 == [i \in 1..k + 1 |-> rd[i]]
             cnt2 == [i \in 1..k + 1 |-> cnt[i]]
  <2>2. \A i \in 1..k + 1 : i \in 1..l + 1 OBVIOUS
  <2>3. rd2 \in [1..k + 1 -> Readers] /\ cnt2 \in [1..k + 1 -> Nat]
    BY <1>2, <2>2
  <2>4. 1 \in 1..k + 1 /\ k + 1 \in 1..k + 1 OBVIOUS
  <2>5. /\ rd2[1] = r /\ cnt2[1] = n
        /\ rd2[k + 1] = rd[k + 1] /\ cnt2[k + 1] = cnt[k + 1]
    BY <1>2, <2>4
  <2>6. ASSUME NEW i \in 1..k
        PROVE  Turn(key, part[i], ms, rd2[i], cnt2[i], rd2[i + 1], cnt2[i + 1])
    <3>1. i \in 1..l /\ i \in 1..k + 1 /\ i + 1 \in 1..k + 1 OBVIOUS
    <3> QED BY <1>2, <2>1, <3>1
  <2> HIDE DEF rd2, cnt2
  <2>7. ReadsOn(key, part, ms, r, n, rd2, cnt2)
    BY <2>1, <2>3, <2>5, <2>6 DEF ReadsOn
  <2>8. EndsCut(key, part, ms, rd2, cnt2)
    <3>1. k + 1 \in 1..l + 1 OBVIOUS
    <3>2. rd[k + 1].data # <<>> =>
            cnt[k + 1] < Len(ms) /\ TakenTorn(key, rd[k + 1], ms[cnt[k + 1] + 1])
      BY <1>3, <3>1 DEF Says, TakenTorn
    <3> QED BY <2>1, <2>5, <3>2 DEF EndsCut
  <2> QED BY <2>1, <2>7, <2>8 DEF Cut
<1>6. ASSUME NEW k \in 1..l, NEW cut \in Cuts(lines[k]), part = Append(SubSeq(lines, 1, k - 1), cut)
      PROVE  part \in Seq(Lines) /\ Cut(key, part, ms, r, n)
  <2>0. lines[k] \in Lines /\ cut \in Lines /\ cut.field # "blank" /\ lines[k].field # "blank"
    BY <1>0, CutCases
  <2>1. /\ part \in Seq(Lines) /\ Len(part) = k /\ \A i \in 1..k - 1 : part[i] = lines[i]
        /\ part[k] = cut
    <3>1. k - 1 \in 0..l /\ (k - 1) + 1 = k OBVIOUS
    <3>2. /\ SubSeq(lines, 1, k - 1) \in Seq(Lines) /\ Len(SubSeq(lines, 1, k - 1)) = k - 1
          /\ \A i \in 1..k - 1 : SubSeq(lines, 1, k - 1)[i] = lines[i]
      BY <1>4, <3>1
    <3> QED BY <1>6, <2>0, <3>1, <3>2, AppendProperties
  <2> DEFINE last == Feed(rd[k], cut)
             rd2 == [i \in 1..k + 1 |-> IF i <= k THEN rd[i] ELSE last]
             cnt2 == [i \in 1..k + 1 |-> IF i <= k THEN cnt[i] ELSE cnt[k]]
  <2>2. k \in 1..l + 1 /\ k + 1 \in 1..l + 1 /\ rd[k] \in Readers /\ cnt[k] \in Nat
    BY <1>2
  <2>3. last \in Readers
    BY <2>0, <2>2, FeedTyped
  <2> HIDE DEF last
  <2>4. \A i \in 1..k : i \in 1..l + 1 /\ i \in 1..k + 1 OBVIOUS
  <2>5. rd2 \in [1..k + 1 -> Readers] /\ cnt2 \in [1..k + 1 -> Nat]
    BY <1>2, <2>2, <2>3, <2>4
  <2>6. /\ \A i \in 1..k : rd2[i] = rd[i] /\ cnt2[i] = cnt[i]
        /\ rd2[k + 1] = last /\ cnt2[k + 1] = cnt[k]
    <3>1. k + 1 \in 1..k + 1 /\ ~(k + 1 <= k) OBVIOUS
    <3>2. \A i \in 1..k : i <= k OBVIOUS
    <3> QED BY <2>4, <3>1, <3>2
  <2> HIDE DEF rd2, cnt2
  <2>7. ASSUME NEW i \in 1..k
        PROVE  Turn(key, part[i], ms, rd2[i], cnt2[i], rd2[i + 1], cnt2[i + 1])
    <3>1. CASE i = k
      <4>1. Turn(key, cut, ms, rd[k], cnt[k], last, cnt[k])
        BY <2>0 DEF Turn, last
      <4> QED BY <2>1, <2>6, <3>1, <4>1
    <3>2. CASE i # k
      <4>1. i \in 1..k - 1 /\ i + 1 \in 1..k /\ i \in 1..l BY <3>2
      <4> QED BY <1>2, <2>1, <2>6, <4>1
    <3> QED BY <3>1, <3>2
  <2>8. ReadsOn(key, part, ms, r, n, rd2, cnt2)
    <3>1. 1 \in 1..k OBVIOUS
    <3> QED BY <1>2, <2>1, <2>5, <2>6, <2>7, <3>1 DEF ReadsOn
  <2>9. ASSUME last.data # <<>>
        PROVE  cnt[k] < Len(ms) /\ TakenTorn(key, last, ms[cnt[k] + 1])
    <3>1. rd[k].data = <<>>
      BY <1>3, <2>0, <2>2
    <3>2. cut.field = "data"
      BY <2>0, <2>2, <2>9, <3>1, FeedTyped DEF last
    <3>3. lines[k].field = "data" BY <2>0, <3>2, CutCases
    <3>4. rd[k + 1] = Feed(rd[k], lines[k]) /\ cnt[k + 1] = cnt[k]
      BY <1>2, <2>0 DEF Turn
    <3>5. rd[k + 1].data # <<>>
      <4>1. Feed(rd[k], lines[k]) = [rd[k] EXCEPT !.data = <<lines[k].value>>]
        BY <2>0, <2>2, <3>1, <3>3, FeedTyped
      <4>2. <<lines[k].value>> # <<>> BY AppendToEmpty
      <4> QED BY <2>2, <3>4, <4>1, <4>2 DEF Readers
    <3>6. cnt[k + 1] < Len(ms) /\ Says(key, rd[k + 1], ms[cnt[k + 1] + 1])
      BY <1>3, <2>2, <3>5
    <3>7. cnt[k] < Len(ms) /\ Says(key, Feed(rd[k], lines[k]), ms[cnt[k] + 1])
      BY <3>4, <3>6
    <3> QED BY <2>0, <2>2, <3>1, <3>2, <3>7, TornEvent DEF last
  <2>10. EndsCut(key, part, ms, rd2, cnt2)
    BY <2>1, <2>6, <2>9 DEF EndsCut
  <2> QED BY <2>1, <2>8, <2>10 DEF Cut
<1>7. \/ \E k \in 0..l : part = SubSeq(lines, 1, k)
      \/ \E k \in 1..l : \E cut \in Cuts(lines[k]) : part = Append(SubSeq(lines, 1, k - 1), cut)
  BY <1>0 DEF Beginnings
<1> QED BY <1>5, <1>6, <1>7

-----------------------------------------------------------------------------
(* Lemmas on the text of one event                                         *)

\* Texts of one line and of two.
LEMMA TwoLines ==
  ASSUME NEW S, NEW a \in S, NEW b \in S
  PROVE  /\ <<a, b>> \in Seq(S) /\ Len(<<a, b>>) = 2 /\ <<a, b>>[1] = a /\ <<a, b>>[2] = b
         /\ <<a>> \in Seq(S) /\ Len(<<a>>) = 1 /\ <<a>>[1] = a
  OBVIOUS

\* Data and a blank line end an event.
LEMMA DataWhole ==
  ASSUME NEW key, NEW text \in Texts, NEW r \in Readers, r.data = <<>>, NEW m,
         Says(key, [r EXCEPT !.data = <<text>>], m)
  PROVE  /\ <<Line("data", text), Blank>> \in Seq(Lines)
         /\ Whole(key, <<Line("data", text), Blank>>, <<m>>, r, 0)
<1> DEFINE data == Line("data", text)
           s == [r EXCEPT !.data = <<text>>]
           rd == [i \in 1..3 |-> IF i = 1 THEN r ELSE IF i = 2 THEN s ELSE NoEvent]
           cnt == [i \in 1..3 |-> IF i = 3 THEN 1 ELSE 0]
<1>1. data \in Lines /\ Blank \in Lines /\ data.field = "data" /\ data.value = text
  BY DEF Lines, Line
<1>2. PICK lines : lines = <<data, Blank>>
  OBVIOUS
<1>3. lines \in Seq(Lines) /\ Len(lines) = 2 /\ lines[1] = data /\ lines[2] = Blank
  <2> HIDE DEF data
  <2> QED BY <1>1, <1>2, TwoLines
<1>4. Feed(r, data) = s /\ s \in Readers /\ s # NoEvent
  <2>1. Feed(r, data) = s /\ Feed(r, data) \in Readers BY <1>1, FeedTyped
  <2>2. s.data = <<text>> BY DEF Readers
  <2>3. s # NoEvent BY <2>2, AppendToEmpty DEF NoEvent
  <2> QED BY <2>1, <2>3
<1>5. Len(<<m>>) = 1 /\ <<m>>[1] = m
  OBVIOUS
<1>6. Blank.field = "blank"
  BY DEF Blank, Line
<1>7. rd[1] = r /\ rd[2] = s /\ rd[3] = NoEvent /\ cnt[1] = 0 /\ cnt[2] = 0 /\ cnt[3] = 1
  OBVIOUS
<1>8. rd \in [1..3 -> Readers] /\ cnt \in [1..3 -> Nat]
  <2>1. NoEvent \in Readers BY NoEventTyped
  <2> HIDE DEF s
  <2> QED BY <1>4, <2>1
<1>9. Turn(key, data, <<m>>, r, 0, s, 0)
  BY <1>1, <1>4 DEF Turn
<1>10. Turn(key, Blank, <<m>>, s, 0, NoEvent, 1)
  <2>1. 0 < Len(<<m>>) /\ <<m>>[0 + 1] = m BY <1>5
  <2>2. Says(key, s, <<m>>[0 + 1]) BY <2>1
  <2> QED BY <1>4, <1>6, <2>1, <2>2 DEF Turn
<1> HIDE DEF rd, cnt, s, data
<1>11. ASSUME NEW i \in 1..2
       PROVE  Turn(key, lines[i], <<m>>, rd[i], cnt[i], rd[i + 1], cnt[i + 1])
  <2>1. CASE i = 1 BY <1>3, <1>7, <1>9, <2>1
  <2>2. CASE i = 2 BY <1>3, <1>7, <1>10, <2>2
  <2> QED BY <2>1, <2>2
<1>12. ReadsOn(key, lines, <<m>>, r, 0, rd, cnt)
  <2>1. 2 + 1 = 3 OBVIOUS
  <2> QED BY <1>3, <1>7, <1>8, <1>11, <2>1 DEF ReadsOn
<1>13. EndsWhole(lines, <<m>>, rd, cnt)
  <2>1. ASSUME NEW i \in 1..3, rd[i].data # <<>> PROVE i <= 2 /\ lines[i].field = "blank"
    <3>1. i = 1 \/ i = 2 \/ i = 3 OBVIOUS
    <3>2. i # 1 BY <1>7, <2>1
    <3>3. i # 3 BY <1>7, <2>1 DEF NoEvent
    <3> QED BY <1>3, <1>6, <3>1, <3>2, <3>3
  <2> QED BY <1>3, <1>5, <1>7, <2>1 DEF EndsWhole
<1> QED BY <1>2, <1>3, <1>12, <1>13 DEF Whole, data

\* A field that comes before it.
LEMMA WholePrepend ==
  ASSUME NEW key, NEW line \in Lines, line.field \in {"id", "event"},
         NEW lines \in Seq(Lines), NEW ms, NEW r \in Readers, r.data = <<>>,
         Whole(key, lines, ms, Feed(r, line), 0)
  PROVE  <<line>> \o lines \in Seq(Lines) /\ Whole(key, <<line>> \o lines, ms, r, 0)
<1>1. PICK l \in Nat : l = Len(lines)
  BY LenProperties
<1>2. PICK text : text = <<line>> \o lines
  OBVIOUS
<1>3. /\ text \in Seq(Lines) /\ Len(text) = 1 + l /\ text[1] = line
      /\ \A i \in 2..1 + l : text[i] = lines[i - 1]
  <2>1. <<line>> \in Seq(Lines) /\ Len(<<line>>) = 1 /\ <<line>>[1] = line
    BY TwoLines
  <2> HIDE DEF Lines
  <2> QED BY <1>1, <1>2, <2>1, ConcatProperties
<1>4. PICK rd1, cnt1 : /\ ReadsOn(key, lines, ms, Feed(r, line), 0, rd1, cnt1)
                       /\ EndsWhole(lines, ms, rd1, cnt1)
  BY DEF Whole
<1>5. /\ rd1 \in [1..l + 1 -> Readers] /\ cnt1 \in [1..l + 1 -> Nat]
      /\ rd1[1] = Feed(r, line) /\ cnt1[1] = 0
      /\ rd1[l + 1] = NoEvent /\ cnt1[l + 1] = Len(ms)
  BY <1>1, <1>4 DEF ReadsOn, EndsWhole
<1> DEFINE rd == [i \in 1..(1 + l) + 1 |-> IF i = 1 THEN r ELSE rd1[i - 1]]
           cnt == [i \in 1..(1 + l) + 1 |-> IF i = 1 THEN 0 ELSE cnt1[i - 1]]
<1>6. /\ rd[1] = r /\ cnt[1] = 0
      /\ \A i \in 2..(1 + l) + 1 : rd[i] = rd1[i - 1] /\ cnt[i] = cnt1[i - 1]
  OBVIOUS
<1>7. rd \in [1..(1 + l) + 1 -> Readers] /\ cnt \in [1..(1 + l) + 1 -> Nat]
  <2>1. \A i \in 1..(1 + l) + 1 : i # 1 => i - 1 \in 1..l + 1 OBVIOUS
  <2> QED BY <1>5, <2>1
<1> HIDE DEF rd, cnt
<1>8. ASSUME NEW i \in 1..1 + l
      PROVE  Turn(key, text[i], ms, rd[i], cnt[i], rd[i + 1], cnt[i + 1])
  <2>1. CASE i = 1
    <3>1. 2 \in 2..(1 + l) + 1 /\ 2 - 1 = 1 /\ 1 + 1 = 2 OBVIOUS
    <3>2. rd[2] = Feed(r, line) /\ cnt[2] = 0 BY <1>5, <1>6, <3>1
    <3>3. Turn(key, line, ms, r, 0, Feed(r, line), 0) BY DEF Turn
    <3> QED BY <1>3, <1>6, <2>1, <3>1, <3>2, <3>3
  <2>2. CASE i # 1
    <3>1. PICK j \in 1..l : j = i - 1 BY <2>2
    <3>2. i \in 2..1 + l /\ i \in 2..(1 + l) + 1 /\ i + 1 \in 2..(1 + l) + 1 /\ (i + 1) - 1 = j + 1
      BY <2>2, <3>1
    <3>3. Turn(key, lines[j], ms, rd1[j], cnt1[j], rd1[j + 1], cnt1[j + 1])
      BY <1>1, <1>4 DEF ReadsOn
    <3>4. text[i] = lines[j] /\ rd[i] = rd1[j] /\ cnt[i] = cnt1[j]
      BY <1>3, <1>6, <3>1, <3>2
    <3>5. rd[i + 1] = rd1[j + 1] /\ cnt[i + 1] = cnt1[j + 1]
      BY <1>6, <3>2
    <3> QED BY <3>3, <3>4, <3>5
  <2> QED BY <2>1, <2>2
<1>9. ASSUME NEW i \in 1..(1 + l) + 1, rd[i].data # <<>>
      PROVE  i <= 1 + l /\ text[i].field = "blank"
  <2>1. i # 1 BY <1>6, <1>9
  <2>2. PICK j \in 1..l + 1 : j = i - 1 BY <2>1
  <2>3. i \in 2..(1 + l) + 1 BY <2>1
  <2>4. rd1[j].data # <<>> BY <1>6, <1>9, <2>2, <2>3
  <2>5. j <= l /\ lines[j].field = "blank"
    BY <1>1, <1>4, <2>4 DEF EndsWhole
  <2>6. i \in 2..1 + l BY <2>2, <2>3, <2>5
  <2>7. text[i] = lines[j] BY <1>3, <2>2, <2>6
  <2> QED BY <2>5, <2>6, <2>7
<1>10. rd[(1 + l) + 1] = NoEvent /\ cnt[(1 + l) + 1] = Len(ms)
  <2>1. (1 + l) + 1 \in 2..(1 + l) + 1 /\ ((1 + l) + 1) - 1 = l + 1 OBVIOUS
  <2> QED BY <1>5, <1>6, <2>1
<1>11. ReadsOn(key, text, ms, r, 0, rd, cnt)
  BY <1>3, <1>6, <1>7, <1>8 DEF ReadsOn
<1>12. EndsWhole(text, ms, rd, cnt)
  BY <1>3, <1>9, <1>10 DEF EndsWhole
<1> QED BY <1>2, <1>3, <1>11, <1>12 DEF Whole

\* What writeSSEEvent writes is read as one event.
LEMMA EventWhole ==
  ASSUME NEW key, NEW id \in 0..MaxMessages, NEW event \in Names, NEW text \in Texts, NEW m,
         Says(key, [id |-> id, event |-> event, data |-> <<text>>], m)
  PROVE  /\ WriteSSEEvent(id, event, text) \in Seq(Lines)
         /\ Whole(key, WriteSSEEvent(id, event, text), <<m>>, NoEvent, 0)
<1> DEFINE r == [id |-> id, event |-> event, data |-> <<>>]
           named == [id |-> 0, event |-> event, data |-> <<>>]
           end == <<Line("data", text), Blank>>
           A == IF id = 0 THEN <<>> ELSE <<Line("id", id)>>
           B == IF event = None THEN <<>> ELSE <<Line("event", event)>>
           numbered == [id |-> id, event |-> None, data |-> <<>>]
<1>0. <<>> \in Seq(Texts) /\ 0 \in 0..MaxMessages /\ None \in Names
  BY EmptySeq, ConnectionAssumption DEF Names
<1>1. r \in Readers /\ r.data = <<>> /\ numbered \in Readers /\ numbered.data = <<>>
  BY <1>0 DEF Readers
<1>2. [r EXCEPT !.data = <<text>>] = [id |-> id, event |-> event, data |-> <<text>>]
  OBVIOUS
<1>3. end \in Seq(Lines) /\ Whole(key, end, <<m>>, r, 0)
  BY <1>1, <1>2, DataWhole
<1> HIDE DEF end
<1>4. B \o end \in Seq(Lines) /\ Whole(key, B \o end, <<m>>, numbered, 0)
  <2>1. CASE event = None
    <3>1. r = numbered BY <2>1
    <3>2. B \o end = end BY <1>3, <2>1, ConcatEmptySeq
    <3> QED BY <1>3, <3>1, <3>2
  <2>2. CASE event # None
    <3>1. Line("event", event) \in Lines /\ Line("event", event).field = "event"
      BY DEF Lines, Line
    <3>2. Feed(numbered, Line("event", event)) = r
      BY DEF Feed, Line
    <3>3. B = <<Line("event", event)>> BY <2>2
    <3> HIDE DEF r, numbered, B
    <3> QED BY <1>1, <1>3, <3>1, <3>2, <3>3, WholePrepend
  <2> QED BY <2>1, <2>2
<1>5. A \o (B \o end) \in Seq(Lines) /\ Whole(key, A \o (B \o end), <<m>>, NoEvent, 0)
  <2>1. CASE id = 0
    <3>1. NoEvent = numbered BY <2>1 DEF NoEvent
    <3>2. A \o (B \o end) = B \o end
      <4> HIDE DEF B
      <4> QED BY <1>4, <2>1, ConcatEmptySeq
    <3> QED BY <1>4, <3>1, <3>2
  <2>2. CASE id # 0
    <3>1. Line("id", id) \in Lines /\ Line("id", id).field = "id"
      BY DEF Lines, Line
    <3>2. Feed(NoEvent, Line("id", id)) = numbered
      BY DEF Feed, Line, NoEvent
    <3>3. A = <<Line("id", id)>> BY <2>2
    <3>4. NoEvent \in Readers /\ NoEvent.data = <<>> BY NoEventTyped DEF NoEvent
    <3> HIDE DEF numbered, A, B
    <3> QED BY <1>4, <3>1, <3>2, <3>3, <3>4, WholePrepend
  <2> QED BY <2>1, <2>2
<1>6. WriteSSEEvent(id, event, text) = A \o (B \o end)
  <2>1. A \in Seq(Lines)
    <3>1. <<>> \in Seq(Lines) BY EmptySeq
    <3>2. Line("id", id) \in Lines BY DEF Lines
    <3>3. <<Line("id", id)>> \in Seq(Lines) BY <3>2, TwoLines
    <3> QED BY <3>1, <3>3
  <2>2. B \in Seq(Lines)
    <3>1. <<>> \in Seq(Lines) BY EmptySeq
    <3>2. Line("event", event) \in Lines BY DEF Lines
    <3>3. <<Line("event", event)>> \in Seq(Lines) BY <3>2, TwoLines
    <3> QED BY <3>1, <3>3
  <2>3. WriteSSEEvent(id, event, text) = (A \o B) \o end
    BY DEF WriteSSEEvent, end
  <2> HIDE DEF A, B
  <2>4. (A \o B) \o end = A \o (B \o end)
    BY <1>3, <2>1, <2>2, ConcatAssociative
  <2> QED BY <2>3, <2>4
<1> HIDE DEF A, B
<1> QED BY <1>5, <1>6

\* A comment and a blank line say nothing.
LEMMA CommentWhole ==
  ASSUME NEW key
  PROVE  WriteSSEComment \in Seq(Lines) /\ Whole(key, WriteSSEComment, <<>>, NoEvent, 0)
<1>1. Ignored \in Lines /\ Blank \in Lines /\ Ignored.field = "comment" /\ Blank.field = "blank"
  BY DEF Lines, Ignored, Blank, Line
<1>2. /\ WriteSSEComment \in Seq(Lines) /\ Len(WriteSSEComment) = 2
      /\ WriteSSEComment[1] = Ignored /\ WriteSSEComment[2] = Blank
  BY <1>1, TwoLines DEF WriteSSEComment
<1> DEFINE rd == [i \in 1..3 |-> NoEvent]
           cnt == [i \in 1..3 |-> 0]
<1>3. /\ rd \in [1..3 -> Readers] /\ cnt \in [1..3 -> Nat]
      /\ \A i \in 1..3 : rd[i] = NoEvent /\ cnt[i] = 0
  BY NoEventTyped
<1>4. Feed(NoEvent, Ignored) = NoEvent
  BY <1>1 DEF Feed
<1> HIDE DEF rd, cnt
<1>5. ASSUME NEW i \in 1..2
      PROVE  Turn(key, WriteSSEComment[i], <<>>, rd[i], cnt[i], rd[i + 1], cnt[i + 1])
  <2>1. i \in 1..3 /\ i + 1 \in 1..3 OBVIOUS
  <2>2. rd[i] = NoEvent /\ cnt[i] = 0 /\ rd[i + 1] = NoEvent /\ cnt[i + 1] = 0
    BY <1>3, <2>1
  <2>3. CASE i = 1 BY <1>1, <1>2, <1>4, <2>2, <2>3 DEF Turn
  <2>4. CASE i = 2 BY <1>1, <1>2, <2>2, <2>4 DEF Turn
  <2> QED BY <2>3, <2>4
<1>6. ReadsOn(key, WriteSSEComment, <<>>, NoEvent, 0, rd, cnt)
  <2>1. 2 + 1 = 3 /\ 1 \in 1..3 OBVIOUS
  <2> QED BY <1>2, <1>3, <1>5, <2>1 DEF ReadsOn
<1>7. EndsWhole(WriteSSEComment, <<>>, rd, cnt)
  <2>1. 2 + 1 = 3 /\ 3 \in 1..3 /\ Len(<<>>) = 0 OBVIOUS
  <2>2. NoEvent.data = <<>> BY DEF NoEvent
  <2> QED BY <1>2, <1>3, <2>1, <2>2 DEF EndsWhole
<1> QED BY <1>2, <1>6, <1>7 DEF Whole

-----------------------------------------------------------------------------
(* Lemmas on what an event says                                            *)

\* An event with data says a message if it is understood as such, whole and cut short.
LEMMA SaysWhen ==
  ASSUME NEW key, NEW id, NEW event, NEW text, NEW m,
         \A u \in Understand(event, text, key) : Message(id, u[1], u[2]) \in Carried!Readings(m),
         \A torn \in {Empty, Part} : \A u \in Understand(event, torn, key) :
           Message(id, u[1], u[2]) \in Carried!Readings(m) \cup Carried!TornReadings(m)
  PROVE  Says(key, [id |-> id, event |-> event, data |-> <<text>>], m)
<1>1. ASSUME NEW t
      PROVE  MayTake(key, [id |-> id, event |-> event, data |-> <<t>>])
               = {Message(id, u[1], u[2]) : u \in Understand(event, t, key)}
  <2>1. Data([id |-> id, event |-> event, data |-> <<t>>]) = t
    BY AppendToEmpty DEF Data
  <2> QED BY <2>1 DEF MayTake
<1>2. MayTake(key, [id |-> id, event |-> event, data |-> <<text>>]) \subseteq Carried!Readings(m)
  BY <1>1
<1>3. ASSUME NEW torn \in {Empty, Part}
      PROVE  TakenTorn(key, [[id |-> id, event |-> event, data |-> <<text>>]
                               EXCEPT !.data = <<torn>>], m)
  <2>1. [[id |-> id, event |-> event, data |-> <<text>>] EXCEPT !.data = <<torn>>]
          = [id |-> id, event |-> event, data |-> <<torn>>]
    OBVIOUS
  <2>2. MayTake(key, [id |-> id, event |-> event, data |-> <<torn>>])
          \subseteq Carried!Readings(m) \cup Carried!TornReadings(m)
    BY <1>1
  <2> QED BY <2>1, <2>2 DEF TakenTorn
<1> QED BY <1>2, <1>3 DEF Says

\* The forms of a text that is not JSON are none of the texts that are.
LEMMA TornTexts ==
  /\ Empty.form # "json" /\ Part.form # "json" /\ Part # Empty
  /\ \A value : Json(value).form = "json" /\ Json(value).json = value
  /\ \A value : Json(value) # Empty /\ Json(value) # Part
  BY DEF Empty, Part, Json

\* An event without a name whose data is torn says nothing or cannot be understood.
LEMMA UnderstandTorn ==
  ASSUME NEW key, NEW torn \in {Empty, Part}
  PROVE  \A u \in Understand(None, torn, key) : u \in {<<"control", NoType>>, <<"garbled", NoType>>}
<1>1. ~IsClientControlEvent(None, torn) /\ ~IsEncrypted(torn) /\ ~Parses(torn)
  BY TornTexts DEF IsClientControlEvent, None, IsEncrypted, Parses
<1>2. None # "gosmee-gap" BY DEF None
<1> QED BY <1>1, <1>2 DEF Understand

\* What the client may make of a message that is torn.
LEMMA TornReadingsOf ==
  ASSUME NEW m, NEW u \in {<<"control", NoType>>, <<"garbled", NoType>>}
  PROVE  Message(m.id, u[1], u[2]) \in Carried!TornReadings(m)
  BY DEF Carried!TornReadings, Carried!Message, Message

\* What Meaning makes of an event without names.
LEMMA PlainReading ==
  ASSUME NEW id, NEW kind
  PROVE  /\ Meaning(id, kind, {}).id = id
         /\ Message(id, kind, NoType) \in Carried!Readings(Meaning(id, kind, {}))
  BY DEF Meaning, Carried!Readings, Carried!Message, Message

\* connected, ready and ping are messages of the server.
LEMMA SaysControl ==
  ASSUME NEW key, NEW event, NEW text,
         \/ event \in {"ready", "ping"}
         \/ event = None /\ text \in {Greeting("connected"), Greeting("ready")}
  PROVE  Says(key, [id |-> 0, event |-> event, data |-> <<text>>], Control)
<1>1. Control.id = 0 /\ Message(0, "control", NoType) \in Carried!Readings(Control)
  BY PlainReading DEF Control
<1>2. IsClientControlEvent(event, text)
  <2>1. CASE event \in {"ready", "ping"}
    BY <2>1 DEF IsClientControlEvent
  <2>2. CASE text \in {Greeting("connected"), Greeting("ready")}
    BY <2>2 DEF IsClientControlEvent, Greeting, Json
  <2> QED BY <2>1, <2>2
<1>3. \A u \in Understand(event, text, key) : u = <<"control", NoType>>
  BY <1>2 DEF Understand
<1>4. \A u \in Understand(event, text, key) :
        Message(0, u[1], u[2]) \in Carried!Readings(Control)
  BY <1>1, <1>3
<1>5. ASSUME NEW torn \in {Empty, Part}, NEW u \in Understand(event, torn, key)
      PROVE  Message(0, u[1], u[2]) \in Carried!Readings(Control) \cup Carried!TornReadings(Control)
  <2>1. CASE event \in {"ready", "ping"}
    <3>1. IsClientControlEvent(event, torn) BY <2>1 DEF IsClientControlEvent
    <3>2. u = <<"control", NoType>> BY <1>5, <3>1 DEF Understand
    <3> QED BY <1>1, <3>2
  <2>2. CASE event = None
    <3>1. u \in {<<"control", NoType>>, <<"garbled", NoType>>} BY <1>5, <2>2, UnderstandTorn
    <3>2. Message(Control.id, u[1], u[2]) \in Carried!TornReadings(Control)
      BY <3>1, TornReadingsOf
    <3> QED BY <1>1, <3>2
  <2> QED BY <2>1, <2>2
<1> QED BY <1>4, <1>5, SaysWhen

\* A gap is one whatever its data.
LEMMA SaysGap ==
  ASSUME NEW key
  PROVE  Says(key, [id |-> 0, event |-> "gosmee-gap",
                    data |-> <<Json([error |-> <<"missed_history">>])>>], Meaning(0, "gap", {}))
<1> DEFINE text == Json([error |-> <<"missed_history">>])
<1>1. Message(0, "gap", NoType) \in Carried!Readings(Meaning(0, "gap", {}))
  BY PlainReading
<1>2. ASSUME NEW t \in {text, Empty, Part}
      PROVE  ~IsClientControlEvent("gosmee-gap", t)
  <2>1. CASE t \in {Empty, Part}
    BY <2>1, TornTexts DEF IsClientControlEvent
  <2>2. CASE t = text
    <3>1. "error" \in DOMAIN t.json BY <2>2 DEF Json
    <3>2. DOMAIN t.json # {"message"} BY <3>1
    <3> QED BY <3>2 DEF IsClientControlEvent
  <2> HIDE DEF text
  <2> QED BY <2>1, <2>2
<1> HIDE DEF text
<1>3. ASSUME NEW t \in {text, Empty, Part}, NEW u \in Understand("gosmee-gap", t, key)
      PROVE  Message(0, u[1], u[2]) \in Carried!Readings(Meaning(0, "gap", {}))
  <2>1. u = <<"gap", NoType>> BY <1>2, <1>3 DEF Understand
  <2> QED BY <1>1, <2>1
<1>4. \A u \in Understand("gosmee-gap", text, key) :
        Message(0, u[1], u[2]) \in Carried!Readings(Meaning(0, "gap", {}))
  BY <1>3
<1>5. Says(key, [id |-> 0, event |-> "gosmee-gap", data |-> <<text>>], Meaning(0, "gap", {}))
  BY <1>3, <1>4, SaysWhen
<1> QED BY <1>5 DEF text

\* A webhook's object has its headers, a body and no mark of an envelope.
LEMMA ObjectOfWebhook ==
  ASSUME NEW w \in Webhooks
  PROVE  /\ "bodyB" \in DOMAIN ObjectOf(w) /\ "timestamp" \in DOMAIN ObjectOf(w)
         /\ "sealedFor" \notin DOMAIN ObjectOf(w)
         /\ EventTypes(ObjectOf(w)) = Meaning(0, "hook", Named(w)).types
<1>1. "sealedFor" \notin DOMAIN w.headers
  BY WebhooksAssumption
<1>2. /\ "bodyB" \in DOMAIN ObjectOf(w) /\ "timestamp" \in DOMAIN ObjectOf(w)
      /\ "sealedFor" \notin DOMAIN ObjectOf(w)
  BY <1>1 DEF ObjectOf, HandleReplayPost, HandleWebhookPost
<1>3. ASSUME NEW h \in EventHeaders
      PROVE  /\ h \in DOMAIN ObjectOf(w) <=> h \in DOMAIN w.headers
             /\ h \in DOMAIN w.headers => ObjectOf(w)[h] = w.headers[h]
  <2>1. h \notin {"timestamp", "bodyB", "authorization", "content-type"}
    BY DEF EventHeaders
  <2> QED BY <2>1 DEF ObjectOf, HandleReplayPost, HandleWebhookPost
<1> DEFINE found == {EventType(ObjectOf(w)[h]) : h \in EventHeaders \cap DOMAIN ObjectOf(w)}
<1>4. found = {EventType(name) : name \in Named(w)}
  BY <1>3 DEF Named
<1>5. found = {} <=> Named(w) = {}
  BY <1>4
<1> QED BY <1>2, <1>4, <1>5 DEF EventTypes, Meaning

\* A webhook that is not encrypted, or that is to the reader's key, is understood; one to
\* another key cannot be.
LEMMA UnderstandWebhook ==
  ASSUME NEW w \in Webhooks, NEW to, NEW key
  PROVE  /\ to \in {NoKey, key} =>
              Understand(None, EncryptRelayEvent(ObjectOf(w), to), key)
                = {<<"hook", type>> : type \in EventTypes(ObjectOf(w))}
         /\ to \notin {NoKey, key} /\ key # NoKey =>
              Understand(None, EncryptRelayEvent(ObjectOf(w), to), key)
                = {<<"garbled", NoType>>}
<1> DEFINE text == EncryptRelayEvent(ObjectOf(w), to)
<1>1. PICK object : object = ObjectOf(w) OBVIOUS
<1>2. "bodyB" \in DOMAIN object /\ "timestamp" \in DOMAIN object /\ "sealedFor" \notin DOMAIN object
  BY <1>1, ObjectOfWebhook
<1>3. /\ text.form = "json"
      /\ to = NoKey => text.json = object
      /\ to # NoKey => text.json = [sealedFor |-> to, object |-> object]
  BY <1>1 DEF EncryptRelayEvent, Encrypt, Json
<1>4. IsEncrypted(text) <=> to # NoKey
  BY <1>2, <1>3 DEF IsEncrypted
<1>5. ~IsClientControlEvent(None, text) /\ None # "gosmee-gap"
  <2>1. DOMAIN text.json # {"message"}
    <3>1. CASE to = NoKey BY <1>2, <1>3, <3>1
    <3>2. CASE to # NoKey
      <4>1. "object" \in DOMAIN text.json BY <1>3, <3>2
      <4> QED BY <4>1
    <3> QED BY <3>1, <3>2
  <2> QED BY <2>1 DEF IsClientControlEvent, None
<1>6. text # Empty /\ text # Json(<<>>)
  <2>1. text # Empty BY <1>3, TornTexts
  <2>2. DOMAIN text.json # {}
    <3>1. CASE to = NoKey BY <1>2, <1>3, <3>1
    <3>2. CASE to # NoKey
      <4>1. "object" \in DOMAIN text.json BY <1>3, <3>2
      <4> QED BY <4>1
    <3> QED BY <3>1, <3>2
  <2>3. DOMAIN Json(<<>>).json = {}
    <3>1. Json(<<>>).json = <<>> BY TornTexts
    <3>2. DOMAIN <<>> = {} BY EmptySeq, LenProperties
    <3> QED BY <3>1, <3>2
  <2> QED BY <2>1, <2>2, <2>3
<1>7. Parses(Json(object))
  <2>1. "bodyB" \in DOMAIN object \ {"timestamp"} BY <1>2
  <2> QED BY <2>1, TornTexts DEF Parses
<1> HIDE DEF text
<1>8. CASE to = NoKey
  <2>1. text = Json(object) /\ ~IsEncrypted(text)
    BY <1>1, <1>4, <1>8 DEF text, EncryptRelayEvent
  <2>2. Understand(None, text, key) = {<<"hook", type>> : type \in EventTypes(text.json)}
    BY <1>5, <1>6, <1>7, <2>1 DEF Understand
  <2> QED BY <1>1, <1>3, <1>8, <2>2 DEF text
<1>9. CASE to # NoKey /\ to = key
  <2>1. IsEncrypted(text) /\ Decrypts(text, key) /\ key # NoKey /\ text.json.object = object
    BY <1>3, <1>4, <1>9 DEF Decrypts
  <2>2. Understand(None, text, key)
          = {<<"hook", type>> : type \in EventTypes(Json(text.json.object).json)}
    BY <1>5, <1>6, <1>7, <2>1 DEF Understand
  <2>3. Json(text.json.object).json = object BY <2>1, TornTexts
  <2> QED BY <1>1, <1>9, <2>2, <2>3 DEF text
<1>10. CASE to # NoKey /\ to # key /\ key # NoKey
  <2>1. IsEncrypted(text) /\ ~Decrypts(text, key)
    BY <1>3, <1>4, <1>10 DEF Decrypts
  <2>2. Understand(None, text, key) = {<<"garbled", NoType>>}
    BY <1>5, <1>6, <1>10, <2>1 DEF Understand
  <2> QED BY <1>10, <2>2 DEF text
<1> QED BY <1>8, <1>9, <1>10

\* A webhook is one when it can be read, and garbage otherwise.
LEMMA SaysWebhook ==
  ASSUME NEW w \in Webhooks, NEW to, NEW key, NEW id,
         to \in {NoKey, key} \/ key # NoKey,
         NEW m, m = IF to \in {NoKey, key} THEN Meaning(id, "hook", Named(w))
                                          ELSE Meaning(id, "garbled", {})
  PROVE  Says(key, [id |-> id, event |-> None,
                    data |-> <<EncryptRelayEvent(ObjectOf(w), to)>>], m)
<1>1. PICK text : text = EncryptRelayEvent(ObjectOf(w), to) OBVIOUS
<1>2. m.id = id
  BY DEF Meaning
<1>3. \A u \in Understand(None, text, key) : Message(id, u[1], u[2]) \in Carried!Readings(m)
  <2>1. CASE to \in {NoKey, key}
    <3>1. Understand(None, text, key) = {<<"hook", type>> : type \in EventTypes(ObjectOf(w))}
      BY <1>1, <2>1, UnderstandWebhook
    <3>2. EventTypes(ObjectOf(w)) = m.types /\ m.kind = "hook"
      BY <2>1, ObjectOfWebhook DEF Meaning
    <3> QED BY <1>2, <3>1, <3>2 DEF Carried!Readings, Carried!Message, Message
  <2>2. CASE to \notin {NoKey, key}
    <3>1. Understand(None, text, key) = {<<"garbled", NoType>>}
      BY <1>1, <2>2, UnderstandWebhook
    <3>2. Message(id, "garbled", NoType) \in Carried!Readings(m)
      BY <2>2, PlainReading
    <3> QED BY <3>1, <3>2
  <2> QED BY <2>1, <2>2
<1>4. ASSUME NEW torn \in {Empty, Part}, NEW u \in Understand(None, torn, key)
      PROVE  Message(id, u[1], u[2]) \in Carried!Readings(m) \cup Carried!TornReadings(m)
  <2>1. u \in {<<"control", NoType>>, <<"garbled", NoType>>} BY UnderstandTorn
  <2> QED BY <1>2, <2>1, TornReadingsOf
<1>5. Says(key, [id |-> id, event |-> None, data |-> <<text>>], m)
  BY <1>3, <1>4, SaysWhen
<1> QED BY <1>1, <1>5

-----------------------------------------------------------------------------
(* Lemmas on the steps                                                     *)

\* The messages the server means are typed,
LEMMA MeaningsTyped ==
  /\ Control \in Meanings /\ Meaning(0, "gap", {}) \in Meanings
  /\ \A id \in 0..MaxMessages :
       /\ Meaning(id, "garbled", {}) \in Meanings
       /\ \A w \in Webhooks : Meaning(id, "hook", Named(w)) \in Meanings
<1>1. 0 \in 0..MaxMessages
  BY ConnectionAssumption
<1>2. ASSUME NEW id \in 0..MaxMessages, NEW kind \in {"control", "gap", "garbled", "hook"}
      PROVE  Meaning(id, kind, {}) \in Meanings
  BY DEF Meaning, Meanings
<1>3. ASSUME NEW id \in 0..MaxMessages, NEW w \in Webhooks
      PROVE  Meaning(id, "hook", Named(w)) \in Meanings
  <2>1. \A name \in Named(w) : EventType(name) \in Types
    BY WebhooksAssumption DEF Named
  <2>2. Named(w) \in SUBSET UNION {Named(v) : v \in Webhooks}
    OBVIOUS
  <2> QED BY <2>1, <2>2 DEF Meaning, Meanings
<1> QED BY <1>1, <1>2, <1>3 DEF Control

\* and so is what the client may take them for.
LEMMA ReadingsTyped ==
  ASSUME NEW m \in Meanings
  PROVE  Carried!Readings(m) \cup Carried!TornReadings(m) \subseteq Event
<1>1. m.id \in Nat /\ m.kind \in {"control", "gap", "garbled", "hook"}
      /\ m.types \subseteq Types \cup {NoType}
  BY ConnectionAssumption DEF Meanings
<1> QED BY <1>1 DEF Carried!Readings, Carried!TornReadings, Carried!Message, Event

\* Who may be encrypted to has a private key, if not the right one.
LEMMA KeysTyped ==
  ASSUME setup \in Setups
  PROVE  /\ SubscriberKey \in Keys \cup {NoKey}
         /\ SubscriberKey # NoKey => PrivateKey # NoKey
<1>1. setup.public \in Keys /\ setup.private \in Keys
  BY ConnectionAssumption
<1>2. setup.private # NoKey
  BY <1>1, KeysAssumption
<1> QED BY <1>1, <1>2 DEF SubscriberKey, PubKey, PrivateKey

\* Lines, a reader and events have what the type invariant asks of them.
LEMMA StreamTyped ==
  ASSUME NEW lines \in Seq(Lines), NEW r \in Readers, NEW events \in Seq(Event)
  PROVE  /\ \A i \in DOMAIN lines :
              lines[i].field \in {"id", "event", "data", "comment", "blank"}
         /\ r.id \in 0..MaxMessages
         /\ \A i \in DOMAIN events : events[i] \in Event
<1>1. \A i \in DOMAIN lines : lines[i] \in Lines
  BY ElementOfSeq, LenProperties
<1>2. \A line \in Lines : line.field \in {"id", "event", "data", "comment", "blank"}
  BY LineCases
<1>3. r.id \in 0..MaxMessages
  BY DEF Readers
<1>4. \A i \in DOMAIN events : events[i] \in Event
  BY ElementOfSeq, LenProperties
<1> QED BY <1>1, <1>2, <1>3, <1>4

\* The type invariant, from what the stream is made of.
LEMMA TypedEnough ==
  ASSUME Typed, setup \in Setups,
         phase \in {"setup", "connect", "read", "process", "flush", "wait", "exited"},
         backoff \in 1..MaxRetryDelay, ended \in {"no", "eof", "broken"},
         Len(sent) <= MaxMessages, Len(taken) <= Len(sent)
  PROVE  TypeOK
  BY StreamTyped DEF Typed, TypeOK

\* The same of the next state.
LEMMA TypedNext ==
  ASSUME Typed', setup' \in Setups,
         phase' \in {"setup", "connect", "read", "process", "flush", "wait", "exited"},
         backoff' \in 1..MaxRetryDelay, ended' \in {"no", "eof", "broken"},
         Len(sent') <= MaxMessages, Len(taken') <= Len(sent')
  PROVE  TypeOK'
  BY StreamTyped DEF Typed, TypeOK

\* The lines a server writes are the messages it means by them.
LEMMA ServerWrites ==
  ASSUME setup \in Setups, Greet \/ Keepalive \/ WriteWebhook, sent \in Seq(Meanings)
  PROVE  \E lines \in Seq(Lines), ms \in Seq(Meanings) :
           Write(lines, ms) /\ Whole(PrivateKey, lines, ms, NoEvent, 0)
<1>0. PICK key : key = PrivateKey
  OBVIOUS
<1>1. ASSUME NEW event \in Names, NEW text \in Texts,
             Says(key, [id |-> 0, event |-> event, data |-> <<text>>], Control)
      PROVE  /\ WriteSSEEvent(0, event, text) \in Seq(Lines)
             /\ <<Control>> \in Seq(Meanings)
             /\ Whole(key, WriteSSEEvent(0, event, text), <<Control>>, NoEvent, 0)
  <2>1. 0 \in 0..MaxMessages BY ConnectionAssumption
  <2>2. <<Control>> \in Seq(Meanings) BY MeaningsTyped, TwoLines
  <2> QED BY <1>1, <2>1, <2>2, EventWhole
<1>2. /\ {"ready", "ping", "gosmee-gap", None} \subseteq Names
      /\ Json(<<>>) \in Texts /\ Greeting("connected") \in Texts /\ Greeting("ready") \in Texts
      /\ Json([error |-> <<"missed_history">>]) \in Texts
  BY DEF Names, Texts
<1>3. CASE Greet
  <2>1. CASE setup.server = "smee.io"
    <3>1. Write(WriteSSEEvent(0, "ready", Json(<<>>)), <<Control>>)
      BY <1>3, <2>1 DEF Greet
    <3>2. Says(key, [id |-> 0, event |-> "ready", data |-> <<Json(<<>>)>>], Control)
      BY SaysControl
    <3> QED BY <1>0, <1>1, <1>2, <3>1, <3>2
  <2>2. CASE setup.server # "smee.io"
    <3> DEFINE A == WriteSSEEvent(0, None, Greeting("connected"))
               B == WriteSSEEvent(0, None, Greeting("ready"))
               C == WriteSSEEvent(0, "gosmee-gap", Json([error |-> <<"missed_history">>]))
               gapped == Meaning(0, "gap", {})
    <3>1. A \in Seq(Lines) /\ Whole(key, A, <<Control>>, NoEvent, 0)
      BY <1>1, <1>2, SaysControl
    <3>2. /\ B \in Seq(Lines) /\ <<Control>> \in Seq(Meanings)
          /\ Whole(key, B, <<Control>>, NoEvent, 0)
      BY <1>1, <1>2, SaysControl
    <3>3. C \in Seq(Lines) /\ Whole(key, C, <<gapped>>, NoEvent, 0) /\ <<gapped>> \in Seq(Meanings)
      <4>1. 0 \in 0..MaxMessages BY ConnectionAssumption
      <4>2. <<gapped>> \in Seq(Meanings) BY MeaningsTyped, TwoLines
      <4> QED BY <1>2, <4>1, <4>2, SaysGap, EventWhole
    <3>4. <<Control, Control>> = <<Control>> \o <<Control>>
      OBVIOUS
    <3> HIDE DEF A, B, C, gapped
    <3>5. A \o B \in Seq(Lines) /\ <<Control, Control>> \in Seq(Meanings)
      BY <3>1, <3>2, ConcatProperties, MeaningsTyped, TwoLines
    <3>6. Whole(key, A \o B, <<Control, Control>>, NoEvent, 0)
      BY <3>1, <3>2, <3>4, WholeConcat
    <3>7. \/ Write(A \o B \o C, <<Control, Control>> \o <<gapped>>)
          \/ Write(A \o B \o <<>>, <<Control, Control>> \o <<>>)
      BY <1>3, <2>2 DEF Greet, A, B, C, gapped
    <3>8. CASE Write(A \o B \o C, <<Control, Control>> \o <<gapped>>)
      <4>1. /\ A \o B \o C \in Seq(Lines)
            /\ <<Control, Control>> \o <<gapped>> \in Seq(Meanings)
        BY <3>3, <3>5, ConcatProperties
      <4>2. Whole(key, A \o B \o C, <<Control, Control>> \o <<gapped>>, NoEvent, 0)
        BY <3>3, <3>5, <3>6, WholeConcat
      <4> QED BY <1>0, <3>8, <4>1, <4>2
    <3>9. CASE Write(A \o B \o <<>>, <<Control, Control>> \o <<>>)
      <4>1. A \o B \o <<>> = A \o B /\ <<Control, Control>> \o <<>> = <<Control, Control>>
        BY <3>5, ConcatEmptySeq
      <4> QED BY <1>0, <3>5, <3>6, <3>9, <4>1
    <3> QED BY <3>7, <3>8, <3>9
  <2> QED BY <2>1, <2>2
<1>4. CASE Keepalive
  <2>1. CASE setup.server = "smee.io"
    <3>1. Write(WriteSSEEvent(0, "ping", Json(<<>>)), <<Control>>)
      BY <1>4, <2>1 DEF Keepalive
    <3>2. Says(key, [id |-> 0, event |-> "ping", data |-> <<Json(<<>>)>>], Control)
      BY SaysControl
    <3> QED BY <1>0, <1>1, <1>2, <3>1, <3>2
  <2>2. CASE setup.server # "smee.io"
    <3>1. Write(WriteSSEComment, <<>>) BY <1>4, <2>2 DEF Keepalive
    <3>2. <<>> \in Seq(Meanings) BY EmptySeq
    <3> QED BY <1>0, <3>1, <3>2, CommentWhole
  <2> QED BY <2>1, <2>2
<1>5. CASE WriteWebhook
  <2>1. PICK w, id, to, m :
          /\ w \in Webhooks
          /\ id = (IF setup.redis THEN Len(sent) + 1 ELSE 0)
          /\ to = SubscriberKey
          /\ m = IF to \in {NoKey, key} THEN Meaning(id, "hook", Named(w))
                                        ELSE Meaning(id, "garbled", {})
          /\ Write(WriteSSEEvent(id, None, EncryptRelayEvent(ObjectOf(w), to)), <<m>>)
    BY <1>0, <1>5 DEF WriteWebhook
  <2>2. Len(<<m>>) = 1
    OBVIOUS
  <2>3. id \in 0..MaxMessages
    <3>1. Len(sent) \in Nat /\ Len(sent) + 1 <= MaxMessages
      BY <2>1, <2>2, LenProperties DEF Write
    <3> QED BY <2>1, <3>1, ConnectionAssumption
  <2>4. to \in Keys \cup {NoKey} /\ (to \in {NoKey, key} \/ key # NoKey)
    BY <1>0, <2>1, KeysTyped
  <2>5. EncryptRelayEvent(ObjectOf(w), to) \in Texts
    BY <2>1, <2>4 DEF Texts
  <2>6. Says(key, [id |-> id, event |-> None,
                   data |-> <<EncryptRelayEvent(ObjectOf(w), to)>>], m)
    BY <2>1, <2>4, SaysWebhook
  <2>7. <<m>> \in Seq(Meanings)
    <3>1. m \in Meanings BY <2>1, <2>3, MeaningsTyped
    <3> QED BY <3>1, TwoLines
  <2>8. /\ WriteSSEEvent(id, None, EncryptRelayEvent(ObjectOf(w), to)) \in Seq(Lines)
        /\ Whole(key, WriteSSEEvent(id, None, EncryptRelayEvent(ObjectOf(w), to)), <<m>>,
                 NoEvent, 0)
    BY <1>2, <2>3, <2>5, <2>6, EventWhole
  <2> QED BY <1>0, <2>1, <2>7, <2>8
<1> QED BY <1>3, <1>4, <1>5

\* Who is written to is read by the client, and what it has not taken yet grows.
LEMMA WriteEffect ==
  ASSUME ConnectionInv, Greet \/ Keepalive \/ WriteWebhook
  PROVE  /\ Reading /\ ended = "no" /\ UNCHANGED <<setup, phase, backoff, ended, reader, taken>>
         /\ \E ms \in Seq(Meanings) : sent' = sent \o ms
         /\ wire' \in Seq(Lines) /\ sent' \in Seq(Meanings) /\ Len(sent') <= MaxMessages
         /\ Ahead(PrivateKey, ended, wire', sent', ReadNext, Len(taken))
<1>0. /\ setup \in Setups /\ wire \in Seq(Lines) /\ sent \in Seq(Meanings) /\ Closed /\ InStep
      /\ MaxMessages \in Nat
  BY ConnectionAssumption DEF ConnectionInv, TypeOK, Typed
<1>1. PICK lines \in Seq(Lines), ms \in Seq(Meanings) :
        Write(lines, ms) /\ Whole(PrivateKey, lines, ms, NoEvent, 0)
  BY <1>0, ServerWrites
<1>2. /\ ended = "no" /\ wire' = wire \o lines /\ sent' = sent \o ms
      /\ UNCHANGED <<setup, phase, backoff, ended, reader, taken>>
      /\ Len(sent) + Len(ms) <= MaxMessages
  BY <1>1 DEF Write
<1>3. Reading /\ Whole(PrivateKey, wire, sent, ReadNext, Len(taken))
  BY <1>0, <1>2 DEF Closed, InStep, Ahead
<1>4. PICK w, s : w = wire \o lines /\ s = sent \o ms
  OBVIOUS
<1>5. Whole(PrivateKey, w, s, ReadNext, Len(taken))
  BY <1>0, <1>1, <1>3, <1>4, WholeConcat
<1>6. w \in Seq(Lines) /\ s \in Seq(Meanings) /\ Len(s) = Len(sent) + Len(ms)
  BY <1>0, <1>4, ConcatProperties
<1>7. wire' = w /\ sent' = s
  BY <1>2, <1>4
<1>8. Ahead(PrivateKey, ended, w, s, ReadNext, Len(taken))
  BY <1>2, <1>5 DEF Ahead
<1> QED BY <1>1, <1>2, <1>3, <1>6, <1>7, <1>8

\* A line is read on, or ends an event: then the next message is taken.
LEMMA ReadLineEffect ==
  ASSUME ConnectionInv, ReadLine
  PROVE  /\ UNCHANGED <<setup, backoff, ended, sent>>
         /\ wire' \in Seq(Lines) /\ reader' \in Readers
         /\ \/ /\ phase' = "read" /\ UNCHANGED taken
               /\ Ahead(PrivateKey, ended, wire', sent, reader', Len(taken))
            \/ /\ phase' = "process" /\ Len(taken) < Len(sent)
               /\ \E e \in Carried!Readings(sent[Len(taken) + 1]) : taken' = Append(taken, e)
               /\ Ahead(PrivateKey, ended, wire', sent, NoEvent, Len(taken) + 1)
<1>0. /\ wire \in Seq(Lines) /\ reader \in Readers /\ wire # <<>> /\ phase = "read"
      /\ wire' = Tail(wire) /\ reader' = Feed(reader, Head(wire))
      /\ UNCHANGED <<setup, backoff, ended, sent>>
  BY DEF ConnectionInv, Typed, ReadLine
<1>1. PICK line \in Lines, rest \in Seq(Lines) : line = Head(wire) /\ rest = Tail(wire)
  BY <1>0, HeadTailProperties
<1>2. PICK s \in Readers, k \in Nat :
        /\ Turn(PrivateKey, line, sent, reader, Len(taken), s, k)
        /\ Ahead(PrivateKey, ended, rest, sent, s, k)
  <2>1. Ahead(PrivateKey, ended, wire, sent, reader, Len(taken))
    BY <1>0 DEF ConnectionInv, InStep, Reading, ReadNext
  <2>2. CASE ended = "no"
    <3>1. Whole(PrivateKey, wire, sent, reader, Len(taken)) BY <2>1, <2>2 DEF Ahead
    <3>2. PICK s \in Readers, k \in Nat :
            /\ Turn(PrivateKey, Head(wire), sent, reader, Len(taken), s, k)
            /\ Whole(PrivateKey, Tail(wire), sent, s, k)
      BY <1>0, <3>1, WholeTail
    <3> QED BY <1>1, <2>2, <3>2 DEF Ahead
  <2>3. CASE ended # "no"
    <3>1. Cut(PrivateKey, wire, sent, reader, Len(taken)) BY <2>1, <2>3 DEF Ahead
    <3>2. PICK s \in Readers, k \in Nat :
            /\ Turn(PrivateKey, Head(wire), sent, reader, Len(taken), s, k)
            /\ Cut(PrivateKey, Tail(wire), sent, s, k)
      BY <1>0, <3>1, CutTail
    <3> QED BY <1>1, <2>3, <3>2 DEF Ahead
  <2> QED BY <2>2, <2>3
<1>3. wire' = rest /\ reader' = Feed(reader, line) /\ reader' \in Readers
  BY <1>0, <1>1, FeedTyped
<1>4. CASE line.field # "blank"
  <2>1. s = Feed(reader, line) /\ k = Len(taken) BY <1>2, <1>4 DEF Turn
  <2>2. phase' = "read" /\ UNCHANGED taken BY <1>0, <1>1, <1>4 DEF ReadLine
  <2> QED BY <1>0, <1>2, <1>3, <2>1, <2>2
<1>5. CASE line.field = "blank" /\ reader = NoEvent
  <2>1. s = NoEvent /\ k = Len(taken) BY <1>2, <1>5 DEF Turn
  <2>2. phase' = "read" /\ UNCHANGED taken BY <1>0, <1>1, <1>5 DEF ReadLine
  <2>3. reader' = NoEvent BY <1>3, <1>5 DEF Feed
  <2> QED BY <1>0, <1>2, <1>3, <2>1, <2>2, <2>3
<1>6. CASE line.field = "blank" /\ reader # NoEvent
  <2>1. /\ s = NoEvent /\ k = Len(taken) + 1
        /\ Len(taken) < Len(sent) /\ Says(PrivateKey, reader, sent[Len(taken) + 1])
    BY <1>2, <1>6 DEF Turn
  <2>2. Dispatch("process") BY <1>1, <1>6 DEF ReadLine
  <2>3. PICK e \in MayTake(PrivateKey, reader) : taken' = Append(taken, e)
    BY <2>2 DEF Dispatch, MayTake
  <2>4. e \in Carried!Readings(sent[Len(taken) + 1])
    BY <2>1, <2>3 DEF Says
  <2>5. phase' = "process" BY <2>2 DEF Dispatch
  <2> QED BY <1>0, <1>2, <1>3, <2>1, <2>3, <2>4, <2>5
<1> QED BY <1>4, <1>5, <1>6

\* What is left at the end of the stream is a torn message.
LEMMA EndOfStreamEffect ==
  ASSUME ConnectionInv, EndOfStream
  PROVE  /\ UNCHANGED <<setup, backoff, wire, ended, reader, sent>>
         /\ phase' = "flush" /\ ended = "eof" /\ Reading /\ Len(taken) < Len(sent)
         /\ \E e \in Carried!Readings(sent[Len(taken) + 1])
                       \cup Carried!TornReadings(sent[Len(taken) + 1]) :
              taken' = Append(taken, e)
<1>1. /\ phase = "read" /\ wire = <<>> /\ ended = "eof" /\ reader.data # <<>> /\ Dispatch("flush")
      /\ UNCHANGED <<setup, backoff, wire, ended, reader, sent>>
  BY DEF EndOfStream
<1>2. Cut(PrivateKey, <<>>, sent, reader, Len(taken))
  BY <1>1 DEF ConnectionInv, InStep, Reading, ReadNext, Ahead
<1>3. Len(taken) < Len(sent) /\ TakenTorn(PrivateKey, reader, sent[Len(taken) + 1])
  BY <1>1, <1>2, CutOver
<1>4. PICK e \in MayTake(PrivateKey, reader) : taken' = Append(taken, e)
  BY <1>1 DEF Dispatch, MayTake
<1> QED BY <1>1, <1>3, <1>4 DEF TakenTorn, Dispatch, Reading

-----------------------------------------------------------------------------
(* The inductive invariant                                                 *)

LEMMA ConnectionInit == Init => ConnectionInv
<1> SUFFICES ASSUME Init PROVE ConnectionInv OBVIOUS
<1>1. Typed
  BY NoEventTyped, EmptySeq DEF Init, Typed
<1>2. Len(sent) = 0 /\ Len(taken) = 0 /\ MaxMessages \in Nat /\ 1 \in 1..MaxRetryDelay
  BY ConnectionAssumption, EmptySeq DEF Init
<1>3. TypeOK
  BY <1>1, <1>2, TypedEnough DEF Init
<1>4. Closed /\ InStep
  BY DEF Init, Closed, InStep, Reading
<1> QED BY <1>1, <1>3, <1>4 DEF ConnectionInv

\* The phases in which nobody reads, whatever the connection was.
LEMMA NotReadingStep ==
  ASSUME ConnectionInv, UNCHANGED <<setup, sent>>, ended' \in {"eof", "broken"},
         phase' \in {"setup", "connect", "flush", "wait", "exited"},
         backoff' \in 1..MaxRetryDelay, wire' \in Seq(Lines), reader' \in Readers,
         taken' \in Seq(Event), Len(taken') <= Len(sent)
  PROVE  ConnectionInv'
<1>1. Typed' /\ Closed' /\ InStep'
  BY DEF ConnectionInv, Typed, Closed, InStep, Reading
<1>2. TypeOK'
  BY <1>1, TypedNext DEF ConnectionInv, TypeOK
<1> QED BY <1>1, <1>2 DEF ConnectionInv

\* Every step keeps the invariant.
LEMMA ConnectionStep == ConnectionInv /\ [Next]_vars => ConnectionInv'
<1> SUFFICES ASSUME ConnectionInv, [Next]_vars PROVE ConnectionInv'
  OBVIOUS
<1>0. /\ TypeOK /\ Typed /\ Closed /\ InStep
      /\ setup \in Setups /\ wire \in Seq(Lines) /\ reader \in Readers
      /\ sent \in Seq(Meanings) /\ taken \in Seq(Event) /\ backoff \in 1..MaxRetryDelay
      /\ Len(sent) \in Nat /\ Len(taken) \in Nat /\ Len(taken) <= Len(sent)
      /\ Len(sent) <= MaxMessages /\ DOMAIN taken = 1..Len(taken) /\ MaxRetryDelay \in Nat \ {0}
  BY ConnectionAssumption, LenProperties DEF ConnectionInv, TypeOK, Typed
<1>1. ASSUME Pause PROVE backoff' \in 1..MaxRetryDelay
  BY <1>0, <1>1 DEF Pause
<1>2. CASE ClientSetup \/ StreamLost \/ WakeUp \/ NotAccepted
  <2>1. UNCHANGED <<setup, streamVars>> /\ phase' \in {"exited", "connect", "wait"}
    BY <1>2 DEF ClientSetup, StreamLost, WakeUp, NotAccepted, Pause
  <2>2. backoff' \in 1..MaxRetryDelay
    BY <1>0, <1>1, <1>2 DEF ClientSetup, StreamLost, WakeUp, NotAccepted
  <2>3. ended \in {"eof", "broken"}
    BY <1>0, <1>2 DEF ClientSetup, StreamLost, WakeUp, NotAccepted, Closed, Reading, TypeOK
  <2> QED BY <1>0, <2>1, <2>2, <2>3, NotReadingStep DEF streamVars
<1>3. CASE Accepted
  <2>1. /\ setup' = setup /\ phase' = "read" /\ backoff' = 1 /\ ended' = "no"
        /\ wire' = <<>> /\ reader' = NoEvent /\ sent' = <<>> /\ taken' = <<>>
    BY <1>3 DEF Accepted
  <2>2. Typed'
    BY <2>1, NoEventTyped, EmptySeq DEF Typed
  <2>3. Len(sent') = 0 /\ Len(taken') = 0 /\ DOMAIN taken' = {}
    BY <2>1, EmptySeq
  <2>4. TypeOK'
    BY <1>0, <2>1, <2>2, <2>3, ConnectionAssumption, TypedNext
  <2>5. Ahead(PrivateKey', "no", <<>>, <<>>, NoEvent, 0)
    BY WholeEmpty DEF Ahead
  <2>6. ReadNext' = NoEvent
    BY <2>1 DEF ReadNext
  <2>7. InStep'
    BY <2>1, <2>3, <2>5, <2>6 DEF InStep
  <2> QED BY <2>1, <2>2, <2>4, <2>7 DEF ConnectionInv, Closed, Reading
<1>4. CASE Greet \/ Keepalive \/ WriteWebhook
  <2>1. /\ Reading /\ ended = "no" /\ UNCHANGED <<setup, phase, backoff, ended, reader, taken>>
        /\ wire' \in Seq(Lines) /\ sent' \in Seq(Meanings) /\ Len(sent') <= MaxMessages
        /\ Ahead(PrivateKey, ended, wire', sent', ReadNext, Len(taken))
    BY <1>4, WriteEffect
  <2>2. PICK ms \in Seq(Meanings) : sent' = sent \o ms
    BY <1>4, WriteEffect
  <2>3. /\ Len(sent) <= Len(sent') /\ Len(sent') \in Nat
        /\ \A i \in 1..Len(sent) : sent'[i] = sent[i]
    BY <1>0, <2>2, ConcatProperties, LenProperties
  <2>4. Typed' BY <1>0, <2>1 DEF Typed
  <2>5. TypeOK'
    <3>1. Len(taken') <= Len(sent') BY <1>0, <2>1, <2>3
    <3> QED BY <2>1, <2>4, <3>1, TypedNext DEF ConnectionInv, TypeOK
  <2>6. PrivateKey' = PrivateKey /\ ReadNext' = ReadNext /\ Reading'
    BY <2>1 DEF PrivateKey, ReadNext, Reading
  <2>7. \A i \in DOMAIN taken' : taken'[i] \in Carried!Readings(sent'[i])
    <3>1. \A i \in DOMAIN taken : taken[i] \in Carried!Readings(sent[i])
      BY <1>0, <2>1 DEF InStep
    <3>2. \A i \in DOMAIN taken : sent'[i] = sent[i]
      BY <1>0, <2>3
    <3> QED BY <2>1, <3>1, <3>2
  <2>8. InStep'
    BY <2>1, <2>6, <2>7 DEF InStep
  <2> QED BY <2>4, <2>5, <2>6, <2>8 DEF ConnectionInv, Closed
<1>5. CASE ReadLine
  <2>1. /\ UNCHANGED <<setup, backoff, ended, sent>> /\ wire' \in Seq(Lines) /\ reader' \in Readers
        /\ phase = "read" /\ PrivateKey' = PrivateKey
    BY <1>5, ReadLineEffect DEF ReadLine, PrivateKey
  <2>2. \A i \in DOMAIN taken : taken[i] \in Carried!Readings(sent[i])
    BY <1>0, <2>1 DEF InStep, Reading
  <2>3. CASE /\ phase' = "read" /\ UNCHANGED taken
             /\ Ahead(PrivateKey, ended, wire', sent, reader', Len(taken))
    <3>1. Typed' BY <1>0, <2>1, <2>3 DEF Typed
    <3>2. TypeOK' BY <1>0, <2>1, <2>3, <3>1, TypedNext DEF TypeOK
    <3>3. ReadNext' = reader' /\ Reading' BY <2>3 DEF ReadNext, Reading
    <3>4. InStep' BY <2>1, <2>2, <2>3, <3>3 DEF InStep
    <3> QED BY <3>1, <3>2, <3>3, <3>4 DEF ConnectionInv, Closed
  <2>4. CASE /\ phase' = "process" /\ Len(taken) < Len(sent)
             /\ \E e \in Carried!Readings(sent[Len(taken) + 1]) : taken' = Append(taken, e)
             /\ Ahead(PrivateKey, ended, wire', sent, NoEvent, Len(taken) + 1)
    <3>1. PICK e \in Carried!Readings(sent[Len(taken) + 1]) : taken' = Append(taken, e)
      BY <2>4
    <3>2. e \in Event
      <4>1. sent[Len(taken) + 1] \in Meanings BY <1>0, <2>4, ElementOfSeq
      <4> QED BY <4>1, ReadingsTyped
    <3>3. /\ taken' \in Seq(Event) /\ Len(taken') = Len(taken) + 1
          /\ \A i \in 1..Len(taken) : taken'[i] = taken[i]
          /\ taken'[Len(taken) + 1] = e
          /\ DOMAIN taken' = 1..Len(taken) + 1
      BY <1>0, <3>1, <3>2, AppendProperties, LenProperties
    <3>4. Typed' BY <1>0, <2>1, <3>3 DEF Typed
    <3>5. TypeOK'
      <4>1. Len(taken') <= Len(sent') BY <1>0, <2>1, <2>4, <3>3
      <4> QED BY <1>0, <2>1, <2>4, <3>4, <4>1, TypedNext DEF TypeOK
    <3>6. ReadNext' = NoEvent /\ Reading' BY <2>4 DEF ReadNext, Reading
    <3>7. \A i \in DOMAIN taken' : taken'[i] \in Carried!Readings(sent'[i])
      <4>1. \A i \in DOMAIN taken' : i \in 1..Len(taken) \/ i = Len(taken) + 1
        BY <1>0, <3>3
      <4> QED BY <1>0, <2>1, <2>2, <3>3, <4>1
    <3>8. Ahead(PrivateKey, ended, wire', sent, NoEvent, Len(taken'))
      BY <2>4, <3>3
    <3>9. InStep' BY <2>1, <3>6, <3>7, <3>8 DEF InStep
    <3> QED BY <3>4, <3>5, <3>6, <3>9 DEF ConnectionInv, Closed
  <2> QED BY <1>5, <2>3, <2>4, ReadLineEffect
<1>6. CASE EndOfStream
  <2>1. /\ UNCHANGED <<setup, backoff, wire, ended, reader, sent>>
        /\ phase' = "flush" /\ ended = "eof" /\ Len(taken) < Len(sent)
    BY <1>6, EndOfStreamEffect
  <2>2. PICK e \in Carried!Readings(sent[Len(taken) + 1])
                     \cup Carried!TornReadings(sent[Len(taken) + 1]) : taken' = Append(taken, e)
    BY <1>6, EndOfStreamEffect
  <2>3. e \in Event
    <3>1. sent[Len(taken) + 1] \in Meanings BY <1>0, <2>1, ElementOfSeq
    <3> QED BY <3>1, ReadingsTyped
  <2>4. taken' \in Seq(Event) /\ Len(taken') = Len(taken) + 1
    BY <1>0, <2>2, <2>3, AppendProperties
  <2>5. Len(taken') <= Len(sent) BY <1>0, <2>1, <2>4
  <2> QED BY <1>0, <2>1, <2>4, <2>5, NotReadingStep
<1>7. CASE Processed
  <2>1. UNCHANGED <<setup, wire, ended, sent, taken>>
    BY <1>7 DEF Processed
  <2>2. CASE phase = "process"
    <3>1. phase' = "read" /\ reader' = NoEvent /\ UNCHANGED backoff
      BY <1>7, <2>2 DEF Processed
    <3>2. Typed' BY <1>0, <2>1, <3>1, NoEventTyped DEF Typed
    <3>3. TypeOK' BY <1>0, <2>1, <3>1, <3>2, TypedNext DEF TypeOK
    <3>4. /\ ReadNext' = NoEvent /\ ReadNext = NoEvent /\ PrivateKey' = PrivateKey
          /\ Reading /\ Reading'
      BY <2>1, <2>2, <3>1 DEF ReadNext, PrivateKey, Reading
    <3>5. InStep' BY <1>0, <2>1, <3>4 DEF InStep
    <3> QED BY <3>2, <3>3, <3>4, <3>5 DEF ConnectionInv, Closed
  <2>3. CASE phase = "flush"
    <3>1. Pause /\ UNCHANGED reader BY <1>7, <2>3 DEF Processed
    <3>2. phase' = "wait" /\ backoff' \in 1..MaxRetryDelay BY <1>1, <3>1 DEF Pause
    <3>3. ended' \in {"eof", "broken"} BY <1>0, <2>1, <2>3 DEF Closed, Reading, TypeOK
    <3> QED BY <1>0, <2>1, <3>1, <3>2, <3>3, NotReadingStep
  <2> QED BY <1>7, <2>2, <2>3 DEF Processed
<1>8. CASE FailsForGood
  <2>1. /\ phase' = "exited" /\ wire' = <<>> /\ ended' = "broken"
        /\ UNCHANGED <<setup, backoff, reader, sent, taken>>
    BY <1>8 DEF FailsForGood
  <2>2. wire' \in Seq(Lines) BY <2>1, EmptySeq
  <2> QED BY <1>0, <2>1, <2>2, NotReadingStep
<1>9. CASE StreamEnds
  <2>1. /\ ended = "no" /\ ended' \in {"eof", "broken"} /\ wire' \in Beginnings(wire)
        /\ UNCHANGED <<setup, phase, backoff, reader, sent, taken>>
    BY <1>9 DEF StreamEnds
  <2>2. Reading /\ Whole(PrivateKey, wire, sent, ReadNext, Len(taken))
    BY <1>0, <2>1 DEF Closed, InStep, Ahead
  <2>3. PICK part \in Beginnings(wire) : part = wire'
    BY <2>1
  <2>4. part \in Seq(Lines) /\ Cut(PrivateKey, part, sent, ReadNext, Len(taken))
    BY <1>0, <2>2, WholeCut
  <2>5. Typed' BY <1>0, <2>1, <2>3, <2>4 DEF Typed
  <2>6. TypeOK' BY <1>0, <2>1, <2>5, TypedNext DEF TypeOK
  <2>7. ReadNext' = ReadNext /\ PrivateKey' = PrivateKey /\ Reading'
    BY <2>1, <2>2 DEF ReadNext, PrivateKey, Reading
  <2>8. \A end \in {"eof", "broken"} : Ahead(PrivateKey, end, part, sent, ReadNext, Len(taken))
    BY <2>4 DEF Ahead
  <2>9. InStep'
    BY <1>0, <2>1, <2>2, <2>3, <2>7, <2>8 DEF InStep
  <2> QED BY <2>1, <2>5, <2>6, <2>7, <2>9 DEF ConnectionInv, Closed
<1>10. CASE UNCHANGED vars
  <2>1. UNCHANGED <<setup, phase, backoff, wire, ended, reader, sent, taken>>
    BY <1>10 DEF vars
  <2>2. PrivateKey' = PrivateKey /\ ReadNext' = ReadNext BY <2>1 DEF PrivateKey, ReadNext
  <2> QED BY <1>0, <2>1, <2>2 DEF ConnectionInv, TypeOK, Typed, Closed, InStep, Reading
<1> QED BY <1>2, <1>3, <1>4, <1>5, <1>6, <1>7, <1>8, <1>9, <1>10
        DEF Next, Client, Connecting, Processing, Server

\* The inductive invariant holds for ever.
LEMMA ConnectionInvariant == Spec => []ConnectionInv
<1>1. Init => ConnectionInv
  BY ConnectionInit
<1>2. ConnectionInv /\ [Next]_vars => ConnectionInv'
  BY ConnectionStep
<1> QED BY <1>1, <1>2, PTL DEF Spec

-----------------------------------------------------------------------------
(* The stream of messages                                                  *)

\* Each step of the connection is one of the stream, or none.
LEMMA CarriedStep == ConnectionInv /\ [Next]_vars => [Carried!Next]_(Carried!vars)
<1> SUFFICES ASSUME ConnectionInv, [Next]_vars PROVE [Carried!Next]_(Carried!vars)
  OBVIOUS
<1> USE DEF Carried!Next, Carried!vars
<1>1. CASE UNCHANGED <<ended, sent, taken>>
  BY <1>1
<1>2. CASE Accepted
  BY <1>2 DEF Accepted, Carried!Open
<1>3. CASE Greet \/ Keepalive \/ WriteWebhook
  <2>1. ended = "no" /\ UNCHANGED <<ended, taken>> BY <1>3, WriteEffect
  <2>2. PICK ms \in Seq(Meanings) : sent' = sent \o ms BY <1>3, WriteEffect
  <2>3. sent \in Seq(Meanings) BY DEF ConnectionInv, Typed
  <2>4. CASE ms = <<>>
    <3>1. sent' = sent BY <2>2, <2>3, <2>4, ConcatEmptySeq
    <3> QED BY <1>1, <2>1, <3>1
  <2>5. CASE ms # <<>>
    <3>1. Len(ms) \in Nat /\ Len(ms) # 0 /\ Len(sent) \in Nat
      BY <2>3, <2>5, EmptySeq, LenProperties
    <3>2. Len(sent') > Len(sent) BY <2>2, <2>3, <3>1, ConcatProperties
    <3>3. SubSeq(sent', 1, Len(sent)) = sent
      BY <2>2, <2>3, SubSeqOfConcat1
    <3> QED BY <2>1, <3>2, <3>3 DEF Carried!Write
  <2> QED BY <2>4, <2>5
<1>4. CASE ReadLine
  <2>1. UNCHANGED <<ended, sent>> BY <1>4, ReadLineEffect
  <2>2. CASE UNCHANGED taken BY <1>1, <2>1, <2>2
  <2>3. CASE /\ Len(taken) < Len(sent)
             /\ \E e \in Carried!Readings(sent[Len(taken) + 1]) : taken' = Append(taken, e)
    <3>1. \A i \in DOMAIN taken : taken[i] \in Carried!Readings(sent[i])
      BY <1>4 DEF ReadLine, ConnectionInv, InStep, Reading
    <3> QED BY <2>1, <2>3, <3>1 DEF Carried!Take
  <2> QED BY <1>4, <2>2, <2>3, ReadLineEffect
<1>5. CASE EndOfStream
  <2>1. /\ UNCHANGED <<ended, sent>> /\ ended = "eof" /\ Reading /\ Len(taken) < Len(sent)
        /\ \E e \in Carried!Readings(sent[Len(taken) + 1])
                      \cup Carried!TornReadings(sent[Len(taken) + 1]) :
             taken' = Append(taken, e)
    BY <1>5, EndOfStreamEffect
  <2>2. \A i \in DOMAIN taken : taken[i] \in Carried!Readings(sent[i])
    BY <2>1 DEF ConnectionInv, InStep
  <2> QED BY <2>1, <2>2 DEF Carried!Take
<1>6. CASE FailsForGood \/ StreamEnds
  <2>1. ended' # "no" /\ UNCHANGED <<sent, taken>>
    BY <1>6 DEF FailsForGood, StreamEnds
  <2> QED BY <2>1 DEF Carried!End
<1>7. CASE ClientSetup \/ StreamLost \/ WakeUp \/ NotAccepted \/ Processed \/ UNCHANGED vars
  <2>1. UNCHANGED <<ended, sent, taken>>
    BY <1>7 DEF ClientSetup, StreamLost, WakeUp, NotAccepted, Processed, streamVars, vars
  <2> QED BY <1>1, <2>1
<1> QED BY <1>2, <1>3, <1>4, <1>5, <1>6, <1>7
        DEF Next, Client, Connecting, Processing, Server

-----------------------------------------------------------------------------
(* The theorems                                                            *)

\* Every variable of the connection keeps its type; in particular no more is taken than was
\* sent, and the backoff stays within its bounds.
THEOREM TypeCorrect == Spec => []TypeOK
<1>1. ConnectionInv => TypeOK BY DEF ConnectionInv
<1> QED BY <1>1, ConnectionInvariant, PTL

\* The lines the server writes and the client reads carry the messages as MessageStream has
\* it: each once, in order and as it is meant, and the last one cut short at worst, under
\* its own ID, wherever the stream ends.
THEOREM MessagesCarried == Spec => CarriesMessages
<1>1. Init => Carried!Init
  BY DEF Init, Carried!Init
<1>2. ConnectionInv /\ [Next]_vars => [Carried!Next]_(Carried!vars)
  BY CarriedStep
<1> QED BY <1>1, <1>2, ConnectionInvariant, PTL DEF Spec, CarriesMessages, Carried!Spec
=============================================================================
