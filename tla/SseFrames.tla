------------------------------ MODULE SseFrames ------------------------------
(***************************************************************************)
(* How the Effect runtime reads an event stream                            *)
(* (npm/effect-runtime/src/index.ts): bytes to characters, characters to   *)
(* frames, frames to items or errors; and a reference reading of a whole   *)
(* stream, line by line, that knows nothing of chunks.                     *)
(*                                                                         *)
(* A character stands for a piece of a line no property tells apart from   *)
(* its spelling: "data" a data field with a part of a JSON value (of two   *)
(* bytes, "d1" and "d2", as any multi-byte character in it has), "bad" one *)
(* whose value is no JSON, "nil" one with an empty value, "err" the field  *)
(* event: api-error, "note" a comment.  "?" replaces a byte that lost its  *)
(* other half.                                                             *)
(***************************************************************************)
EXTENDS Naturals, SequencesExt

Fields == {"data", "bad", "nil", "err", "note"}
Spelled(line) == IF line = "data" THEN <<"d1", "d2">>
                 ELSE IF line = "blank" THEN <<>> ELSE <<line>>
LineEnds == {<<"LF">>, <<"CR", "LF">>}

-----------------------------------------------------------------------------
(* The concatenation of n pieces, and a sequence without what is not good. *)
Joined(n, pieces) ==
  LET Upto[i \in 0..n] == IF i = 0 THEN <<>> ELSE Upto[i - 1] \o pieces[i]
  IN  Upto[n]

Kept(s, good) ==
  LET Piece(x) == IF x \in good THEN <<x>> ELSE <<>>
  IN  Joined(Len(s), [i \in DOMAIN s |-> Piece(s[i])])

(* Where sep first occurs in s (0: nowhere), and s.split(sep).             *)
First(at) == IF at = {} THEN 0 ELSE Min(at)

Find(s, sep) ==
  First({i \in 1..(Len(s) - Len(sep) + 1) : SubSeq(s, i, i + Len(sep) - 1) = sep})

Tokens == {"d1", "d2", "CR", "LF", "?"} \cup Fields

Split(s, sep) ==
  LET Parts[r \in Seq(Tokens)] ==
        LET CutAt(i) == IF i = 0 THEN <<r>>
                        ELSE <<SubSeq(r, 1, i - 1)>> \o Parts[SubSeq(r, i + Len(sep), Len(r))]
        IN  CutAt(Find(r, sep))
  IN  Parts[s]

(* Whether the i-th of s and its successor are this pair.                  *)
Pair(s, i, one, two) == i \in 1..(Len(s) - 1) /\ s[i] = one /\ s[i + 1] = two

(* TextDecoder.decode(chunk, {stream: true}): a first half at the end of   *)
(* what was read is held back.                                             *)
Held(bytes) == IF bytes # <<>> /\ Last(bytes) = "d1" THEN <<"d1">> ELSE <<>>

Chars(bytes) ==
  LET Char(i) == IF Pair(bytes, i, "d1", "d2") THEN <<>>
                 ELSE IF Pair(bytes, i - 1, "d1", "d2") THEN <<"data">>
                 ELSE IF bytes[i] \in {"d1", "d2"} THEN <<"?">> ELSE <<bytes[i]>>
  IN  Joined(Len(bytes), [i \in DOMAIN bytes |-> Char(i)])

Decoded(held, chunk) ==
  LET Cut(bytes, rest) ==
        [chars |-> Chars(SubSeq(bytes, 1, Len(bytes) - Len(rest))), held |-> rest]
  IN  Cut(held \o chunk, Held(held \o chunk))

(* replace(/\r\n/g, "\n"), split("\n") and split("\n\n")             *)
Normal(chars) ==
  Joined(Len(chars),
         [i \in DOMAIN chars |-> IF Pair(chars, i, "CR", "LF") THEN <<>> ELSE <<chars[i]>>])
Lines(chars) == Split(chars, <<"LF">>)
Blocks(chars) == Split(chars, <<"LF", "LF">>)

-----------------------------------------------------------------------------
Naming(fields) == {line \in Seq(Tokens) : line # <<>> /\ Head(line) \in fields}
DataLines == Naming({"data", "bad", "nil"})
EventLines == Naming({"err"})
Value(line) == IF Head(line) = "nil" THEN Tail(line) ELSE line

Frame == [event : {"none", "message", "api-error", "other"}, data : Seq(Tokens)]
NoFrame == [event |-> "none", data |-> <<>>]

(* The frame of some lines: the last event field counts, the data fields   *)
(* are joined by line feeds, no data field is no frame.                    *)
FrameOf[lines \in Seq(Seq(Tokens))] ==
  LET data == Kept(lines, DataLines)
      events == Kept(lines, EventLines)
      Values == [i \in DOMAIN data |->
                   IF i = 1 THEN Value(data[i]) ELSE <<"LF">> \o Value(data[i])]
  IN  IF data = <<>> THEN NoFrame
      ELSE [event |-> IF events = <<>> THEN "message"
                      ELSE IF Last(events) = <<"err">> THEN "api-error" ELSE "other",
            data |-> Joined(Len(data), Values)]

ParseSseFrame(chars) == FrameOf[Lines(Normal(chars))]

FramesOf(parts) == Kept([i \in DOMAIN parts |-> ParseSseFrame(parts[i])], Frame \ {NoFrame})

(* What a buffer holds in whole frames, and the rest.                      *)
DrainSseFrames(buffer) ==
  LET parts == Blocks(Normal(buffer))
  IN  [frames |-> FramesOf(Front(parts)), remainder |-> Last(parts)]

IsJson(data) ==
  Kept(data, Tokens \ {"CR", "LF"}) # <<>> /\ ToSet(data) \cap {"bad", "?"} = {}

(* What a frame becomes: nothing, an item, or the error that ends the      *)
(* stream.                                                                 *)
FrameResult(frame) ==
  IF frame.data = <<>> THEN "nothing"
  ELSE IF ~IsJson(frame.data) THEN "RemoteProtocolError"
  ELSE IF frame.event = "api-error" THEN "ApiError"
  ELSE "item"

Errors == {"RemoteProtocolError", "ApiError"}

-----------------------------------------------------------------------------
(* The reference: frames are the runs of lines between blank ones.  With   *)
(* "whole" false the last run, which no blank line ends, does not count.   *)
Runs(lines, whole) ==
  LET n == Len(lines)
      blanks == {0} \cup {i \in 1..n : lines[i] = <<>> /\ (i < n \/ whole)}
                \cup (IF whole THEN {n + 1} ELSE {})
      Until(i, after) == IF after = {} THEN <<>> ELSE SubSeq(lines, i + 1, Min(after) - 1)
      Run(i) == IF i \in blanks THEN Until(i, {j \in blanks : j > i}) ELSE <<>>
  IN  [i \in 1..(n + 1) |-> Run(i - 1)]

Counting == {frame \in Frame : FrameResult(frame) # "nothing"}

Results(frames) ==
  LET Upto(failing) ==
        IF failing = 0 THEN [items |-> frames, end |-> "success"]
        ELSE [items |-> SubSeq(frames, 1, failing - 1), end |-> FrameResult(frames[failing])]
  IN  Upto(First({i \in DOMAIN frames : FrameResult(frames[i]) \in Errors}))

Reference(bytes, whole) ==
  LET FramesIn(runs) == Kept([i \in DOMAIN runs |-> FrameOf[runs[i]]], Counting)
  IN  Results(FramesIn(Runs(Lines(Normal(Chars(bytes))), whole)))
=============================================================================
