----------------------------- MODULE EventLines -----------------------------
(***************************************************************************)
(* The text of an event stream: the lines writeSSEEvent and                *)
(* writeSSEComment write (gosmee/server.go) and how consumeSSEStream puts  *)
(* an event together from them (gosmee/client.go).                         *)
(*                                                                         *)
(* All data is JSON on one line.  A line is its field and the field's      *)
(* value; what is in a payload is not looked at here.                      *)
(***************************************************************************)
EXTENDS Integers, Sequences

None == "none"   \* the empty string

\* A line of data: a JSON value, a part of one, or nothing.
Json(value) == [form |-> "json", json |-> value]
Part == [form |-> "part", json |-> <<>>]
Empty == [form |-> "empty", json |-> <<>>]

Line(field, value) == [field |-> field, value |-> value]
Blank == Line("blank", None)
Ignored == Line("comment", None)   \* a comment, or a field without meaning

\* writeSSEEvent; an event with neither ID (0) nor name has data alone.
WriteSSEEvent(id, event, data) ==
  (IF id = 0 THEN <<>> ELSE <<Line("id", id)>>)
    \o (IF event = None THEN <<>> ELSE <<Line("event", event)>>)
    \o <<Line("data", data), Blank>>

WriteSSEComment == <<Ignored, Blank>>

-----------------------------------------------------------------------------
\* event and dataLines.
NoEvent == [id |-> 0, event |-> None, data |-> <<>>]

\* What one line that is not blank does to them.
Feed(reader, line) ==
  CASE line.field = "id"    -> [reader EXCEPT !.id = line.value]
    [] line.field = "event" -> [reader EXCEPT !.event = line.value]
    [] line.field = "data"  -> [reader EXCEPT !.data = Append(@, line.value)]
    [] OTHER                -> reader

\* The lines joined; JSON values one below the other are not a JSON value.
Data(reader) ==
  CASE reader.data = <<>>    -> Empty
    [] Len(reader.data) = 1 -> reader.data[1]
    [] OTHER                -> Part

-----------------------------------------------------------------------------
\* What the reader may make of a line that ends before its end: a name cut short means
\* nothing, and the value is missing, cut or whole.  An ID cut short may be a stream ID
\* all the same, of an older entry, or none.
Cuts(line) ==
  CASE line.field = "id"    -> {Ignored} \cup {Line("id", n) : n \in 0..line.value}
    [] line.field = "event" -> {Ignored, Line("event", None), Line("event", "part"), line}
    [] line.field = "data"  -> {Ignored, Line("data", Empty), Line("data", Part), line}
    [] OTHER                -> {}

\* What is left of the lines when the stream ends somewhere.
Beginnings(lines) ==
  {SubSeq(lines, 1, n) : n \in 0..Len(lines)}
    \cup UNION {{Append(SubSeq(lines, 1, n - 1), cut) : cut \in Cuts(lines[n])} : n \in 1..Len(lines)}
=============================================================================
