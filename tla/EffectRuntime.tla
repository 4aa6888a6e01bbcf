---------------------------- MODULE EffectRuntime ----------------------------
(***************************************************************************)
(* One call of a generated client: npm/effect-runtime/src/index.ts.        *)
(*                                                                         *)
(* The request goes out under a signal that the caller's interruption and  *)
(* a timer abort (makeTimeoutSignal); the response becomes one outcome, or *)
(* an event stream whose items the consumer pulls (decodeSseStream).  The  *)
(* environment is the fetch implementation, which may honour the signal or *)
(* not, the server, which cuts the stream into chunks and ends it          *)
(* anywhere, and the consumer, which may stop at any moment.               *)
(***************************************************************************)
EXTENDS SseFrames

CONSTANTS
  MaxLines,   \* the longest stream, in lines
  MaxChunk    \* the longest chunk, in bytes

ASSUME RuntimeAssumption == MaxLines \in Nat /\ MaxChunk \in Nat \ {0}

VARIABLES
  kind,         \* the client: "json" (unary, upload), "binary" (download), "sse"
  request,      \* what encoding and sending it comes to
  timed,        \* whether the configuration has a timeout
  honours,      \* whether fetch rejects when its signal is aborted
  call,         \* how far the call is
  response,     \* the response whose body is being read
  reason,       \* of the controller's abort
  timer,        \* of makeTimeoutSignal
  listening,    \* whether its listener is on the caller's signal
  outcome       \* what the caller gets

VARIABLES
  lineEnd,      \* how the server ends its lines
  text,         \* the bytes the server has sent
  lines,        \* in how many lines
  sent,         \* how many of them were read
  held,         \* the decoder's half character
  buffer,       \* characters not yet in frames
  frames,       \* frames not yet decoded
  gen,          \* the state of the generator
  completed,    \* it saw the end of the body
  failure,      \* what it threw
  returning,    \* the consumer asked it to return
  delivered,    \* the items it yielded
  body          \* the body of the response: "unread", "locked", "released", "cancelled"

requestVars == <<kind, request, timed, honours>>
callVars == <<call, response, reason, timer, listening, outcome>>
serverVars == <<lineEnd, text, lines>>
readVars == <<sent, held, buffer>>
streamVars == <<serverVars, readVars, frames, gen, completed, failure, returning,
                delivered, body>>
vars == <<requestVars, callVars, streamVars>>

Kinds == {"json", "binary", "sse"}
Requests == {"good", "unencodable", "no fetch", "misfit", "unbuildable"}
Responses ==
  [ok : BOOLEAN, known : BOOLEAN, decodes : BOOLEAN, body : {"json", "empty", "text", "broken"}]
NoResponse == [ok |-> FALSE, known |-> FALSE, decodes |-> FALSE, body |-> "empty"]
Failures == {"EncodeError", "NetworkError", "TimeoutError", "RemoteProtocolError",
             "DecodeError", "DomainError", "UnexpectedStatusError", "ApiError"}
Outcomes == {"none", "success", "interrupted"} \cup Failures
LineKinds == Fields \cup {"blank"}

TypeOK ==
  /\ kind \in Kinds /\ request \in Requests /\ timed \in BOOLEAN /\ honours \in BOOLEAN
  /\ call \in {"new", "fetching", "reading", "streaming", "settled"}
  /\ response \in Responses /\ outcome \in Outcomes
  /\ reason \in {"none", "timeout", "caller"} /\ timer \in {"off", "armed", "fired"}
  /\ listening \in BOOLEAN /\ completed \in BOOLEAN /\ returning \in BOOLEAN
  /\ gen \in {"new", "reading", "decoding", "yielded", "closing", "closed"}
  /\ sent \in 0..Len(text) /\ held \in {<<>>, <<"d1">>}
  /\ failure \in {"none"} \cup Failures
  /\ body \in {"unread", "locked", "released", "cancelled"}
  /\ Len(Blocks(Normal(buffer))) = 1

Init ==
  /\ kind \in Kinds /\ request \in Requests /\ timed \in BOOLEAN /\ honours \in BOOLEAN
  /\ call = "new" /\ response = NoResponse /\ reason = "none" /\ timer = "off"
  /\ listening = FALSE /\ outcome = "none"
  /\ lineEnd \in LineEnds /\ text = <<>> /\ lines = 0
  /\ sent = 0 /\ held = <<>> /\ buffer = <<>> /\ frames = <<>>
  /\ gen = "new" /\ completed = FALSE /\ failure = "none" /\ returning = FALSE
  /\ delivered = <<>> /\ body = "unread"

-----------------------------------------------------------------------------
(* A caller that was interrupted has its outcome, whatever comes after.    *)
SettledWith(result) ==
  /\ call' = "settled"
  /\ outcome' = IF outcome = "interrupted" THEN outcome ELSE result

(* clearTimeout.                                                           *)
Cleared(t) == IF t = "armed" THEN "off" ELSE t

(* The finally of fetchResponse: clear removes the listener and the timer. *)
Clear == listening' = FALSE /\ timer' = Cleared(timer)

(* clear throws the timeout, whatever fetch came to.                       *)
NeverTimedOut == FALSE
TimedOut == reason = "timeout"

(* Encoding, and the request up to the call of fetch.  A binary body of    *)
(* the wrong type, and headers or a URL that cannot be built, throw after  *)
(* the timer was set, and clear it before anything else runs.              *)
Armed == IF timed THEN "armed" ELSE "off"
Refused(result) == SettledWith(result) /\ UNCHANGED <<timer, listening>>
RefusedLate(result) == SettledWith(result) /\ timer' = Cleared(Armed) /\ listening' = FALSE

Start ==
  /\ call = "new"
  /\ CASE request = "unencodable" -> Refused("EncodeError")
       [] request = "no fetch" -> Refused("NetworkError")
       [] request = "misfit" -> RefusedLate("EncodeError")
       [] request = "unbuildable" -> RefusedLate("NetworkError")
       [] request = "good" -> /\ call' = "fetching" /\ UNCHANGED outcome
                              /\ listening' = TRUE /\ timer' = Armed
  /\ UNCHANGED <<requestVars, response, reason, streamVars>>

(* What settles the call at once when fetch comes back with response r.    *)
Unreadable(r) == r.body \in {"text", "broken"}

FailedOutcome(r) ==
  IF Unreadable(r) THEN "RemoteProtocolError"
  ELSE IF ~r.known THEN "UnexpectedStatusError"
  ELSE IF r.decodes THEN "DomainError" ELSE "DecodeError"

BodyOutcome(k, r) ==
  IF ~r.ok THEN FailedOutcome(r)
  ELSE IF k = "binary" THEN IF r.body = "broken" THEN "RemoteProtocolError" ELSE "success"
  ELSE IF Unreadable(r) THEN "RemoteProtocolError"
  ELSE IF r.decodes THEN "success" ELSE "DecodeError"

FetchRejects ==
  /\ call = "fetching"
  /\ SettledWith(IF TimedOut THEN "TimeoutError" ELSE "NetworkError")
  /\ Clear
  /\ UNCHANGED <<requestVars, response, reason, streamVars>>

FetchResponds(r) ==
  /\ call = "fetching"
  /\ Clear
  /\ IF TimedOut
     THEN SettledWith("TimeoutError")
     ELSE IF outcome = "interrupted"
     THEN SettledWith("interrupted")
     ELSE IF kind = "sse" /\ r.ok /\ r.body = "empty"
     THEN SettledWith("RemoteProtocolError")
     ELSE IF kind = "sse" /\ r.ok
     THEN call' = "streaming" /\ UNCHANGED outcome
     ELSE call' = "reading" /\ UNCHANGED outcome
  /\ response' = IF call' = "reading" THEN r ELSE response
  /\ UNCHANGED <<requestVars, reason, serverVars, readVars, frames, gen, completed, failure,
                 returning, delivered, body>>

ReadBody ==
  /\ call = "reading"
  /\ SettledWith(BodyOutcome(kind, response))
  /\ UNCHANGED <<requestVars, response, reason, timer, listening, streamVars>>

(* The controller is aborted once; a fetch that honours the signal rejects *)
(* before anything else runs.                                              *)
AbortReason(why) == IF reason = "none" THEN why ELSE reason
AfterAbort(why) ==
  IF outcome = "interrupted" \/ why = "caller" THEN "interrupted"
  ELSE IF honours THEN "TimeoutError" ELSE outcome

(* A plausible slip: fetch is not given the signal.                        *)
AbortedUnheard(why) ==
  /\ reason' = AbortReason(why)
  /\ outcome' = IF why = "caller" THEN "interrupted" ELSE outcome
  /\ UNCHANGED <<call, listening>>

Aborted(why) ==
  /\ reason' = AbortReason(why)
  /\ outcome' = AfterAbort(why)
  /\ IF honours THEN call' = "settled" /\ listening' = FALSE ELSE UNCHANGED <<call, listening>>

TimerFires ==
  /\ timer = "armed" /\ timer' = "fired"
  /\ Aborted("timeout")
  /\ UNCHANGED <<requestVars, response, streamVars>>

(* The caller's fiber is interrupted while fetch or the body is awaited.   *)
InterruptFetch ==
  /\ call = "fetching" /\ outcome = "none"
  /\ Aborted("caller")
  /\ timer' = IF honours THEN Cleared(timer) ELSE timer
  /\ UNCHANGED <<requestVars, response, streamVars>>

InterruptRead ==
  /\ call = "reading"
  /\ call' = "settled" /\ outcome' = "interrupted"
  /\ UNCHANGED <<requestVars, response, reason, timer, listening, streamVars>>

-----------------------------------------------------------------------------
(* The server sends a line, in as many chunks as the network makes of it.  *)
ServerSends(line) ==
  /\ call = "streaming" /\ ~completed /\ lines < MaxLines
  /\ text' = text \o Spelled(line) \o lineEnd
  /\ lines' = lines + 1
  /\ UNCHANGED <<requestVars, callVars, lineEnd, readVars, frames, gen, completed, failure,
                 returning, delivered, body>>

(* The consumer pulls: the generator starts, or goes on after a yield.     *)
Pull ==
  /\ call = "streaming" /\ gen \in {"new", "yielded"} /\ ~returning
  /\ gen' = IF gen = "new" THEN "reading" ELSE "decoding"
  /\ body' = IF gen = "new" THEN "locked" ELSE body
  /\ UNCHANGED <<requestVars, callVars, serverVars, readVars, frames, completed, failure, returning,
                 delivered>>

(* A plausible slip: line ends are normalized in the chunk, not the buffer.*)
ReadChunkNormalized(chunk) ==
  LET decoded == Decoded(held, chunk)
      parts == Blocks(buffer \o Normal(decoded.chars))
  IN  [held |-> decoded.held, frames |-> FramesOf(Front(parts)), buffer |-> Last(parts)]

(* One chunk: what it adds to the buffer, and the frames that completes.   *)
ReadText(chunk) ==
  LET decoded == Decoded(held, chunk)
      drained == DrainSseFrames(buffer \o decoded.chars)
  IN  [held |-> decoded.held, frames |-> drained.frames, buffer |-> drained.remainder]

ReadChunk ==
  /\ gen = "reading"
  /\ \E n \in 1..MaxChunk :
       /\ sent + n <= Len(text)
       /\ LET read == ReadText(SubSeq(text, sent + 1, sent + n))
          IN  held' = read.held /\ buffer' = read.buffer /\ frames' = read.frames
       /\ sent' = sent + n
  /\ gen' = "decoding"
  /\ UNCHANGED <<requestVars, callVars, serverVars, completed, failure, returning, delivered, body>>

(* The body ends, wherever the server leaves it: the decoder is flushed    *)
(* and the rest of the buffer is the last frame.                           *)
Flushed(half) == IF half = <<>> THEN <<>> ELSE <<"?">>

ReadDone ==
  /\ gen = "reading"
  /\ completed' = TRUE /\ held' = <<>> /\ buffer' = <<>>
  /\ frames' = FramesOf(<<buffer \o Flushed(held)>>)
  /\ gen' = "decoding"
  /\ UNCHANGED <<requestVars, callVars, serverVars, sent, failure, returning, delivered, body>>

ReadFails ==
  /\ gen = "reading"
  /\ failure' = "NetworkError" /\ gen' = "closing"
  /\ UNCHANGED <<requestVars, callVars, serverVars, readVars, frames, completed, returning, delivered,
                 body>>

(* A frame is decoded.  A consumer that asked for the return while the     *)
(* generator was running is served at its next yield.                      *)
AfterYield == IF returning THEN "closing" ELSE "yielded"

DecodeFrame ==
  /\ gen = "decoding" /\ frames # <<>>
  /\ LET result == FrameResult(Head(frames))
     IN  /\ gen' = IF result = "nothing" THEN "decoding"
                   ELSE IF result = "item" THEN AfterYield ELSE "closing"
         /\ failure' = IF result \in Errors THEN result ELSE failure
         /\ delivered' = IF result = "item" THEN Append(delivered, Head(frames).data)
                         ELSE delivered
  /\ frames' = Tail(frames)
  /\ UNCHANGED <<requestVars, callVars, serverVars, readVars, completed, returning, body>>

FramesDone ==
  /\ gen = "decoding" /\ frames = <<>>
  /\ gen' = IF completed THEN "closing" ELSE "reading"
  /\ UNCHANGED <<requestVars, callVars, serverVars, readVars, frames, completed, failure, returning,
                 delivered, body>>

(* The finally of decodeSseStream: a body whose end was not seen is        *)
(* cancelled, and the lock released.                                       *)
LetGoReleasing == "released"
LetGo == IF completed THEN "released" ELSE "cancelled"

Finally ==
  /\ gen = "closing" /\ gen' = "closed"
  /\ body' = LetGo
  /\ SettledWith(IF failure # "none" THEN failure ELSE "success")
  /\ UNCHANGED <<requestVars, response, reason, timer, listening, serverVars, readVars, frames,
                 completed, failure, returning, delivered>>

(* The consumer stops.  A generator that never started ends without        *)
(* running its finally; one suspended at a yield runs it; one that is      *)
(* awaiting something is asked to return and goes on until its next yield. *)
Stop ==
  /\ call = "streaming" /\ outcome = "none" /\ gen # "closed"
  /\ outcome' = "interrupted" /\ returning' = TRUE
  /\ gen' = IF gen = "new" THEN "closed" ELSE IF gen = "yielded" THEN "closing" ELSE gen
  /\ call' = IF gen = "new" THEN "settled" ELSE call
  /\ UNCHANGED <<requestVars, response, reason, timer, listening, serverVars, readVars, frames,
                 completed, failure, delivered, body>>

-----------------------------------------------------------------------------
(* Nothing more need happen: the call is over, or its consumer leaves a    *)
(* stream suspended at a yield.                                            *)
Rests == (call = "settled" \/ gen = "yielded") /\ UNCHANGED vars

Fetch == FetchRejects \/ \E r \in Responses : FetchResponds(r)
ReadEnds == ReadChunk \/ ReadDone \/ ReadFails
GeneratorGoesOn == DecodeFrame \/ FramesDone \/ Finally
Generate == ReadEnds \/ GeneratorGoesOn

Next ==
  \/ Start \/ Fetch \/ ReadBody \/ TimerFires \/ InterruptFetch \/ InterruptRead
  \/ Pull \/ Generate \/ Stop \/ Rests
  \/ \E line \in LineKinds : ServerSends(line)

(* The event loop runs what is ready: the timer when it is due, and the    *)
(* generator between its reads.  Whether a read ever ends is up to the     *)
(* server, of which nothing is assumed.                                    *)
FairSpec ==
  Init /\ [][Next]_vars /\ WF_vars(TimerFires) /\ WF_vars(GeneratorGoesOn)

-----------------------------------------------------------------------------
(* Once the timer has fired there is no other outcome than the timeout,    *)
(* though a response that arrives late may be there: clear throws.  And    *)
(* without it there is no timeout.                                         *)
TimeoutIsFinal ==
  call = "settled" /\ outcome # "interrupted" =>
    (outcome = "TimeoutError" <=> timer = "fired")

Data(items) == [i \in DOMAIN items |-> items[i].data]

(* A stream that ended on its own gave the items and the end a reading of  *)
(* all its bytes gives, wherever the chunks were cut, also inside CRLF and *)
(* inside a character.  And while the generator waits for more, the        *)
(* consumer has every item whose frame is complete: none waits for a chunk *)
(* that may never come.                                                    *)
FramesDecoded ==
  LET Read(whole) == Reference(SubSeq(text, 1, sent), whole)
  IN  /\ gen = "closed" /\ outcome \notin {"interrupted", "NetworkError"} =>
           delivered = Data(Read(completed).items) /\ outcome = Read(completed).end
      /\ gen = "reading" => delivered = Data(Read(FALSE).items)

(* Nothing is left behind: however fetchResponse ends, the timer is off and*)
(* the listener removed, and a generator that ran lets go of the body, read*)
(* to its end or cancelled.                                                *)
NothingLeftBehind ==
  /\ call # "fetching" => timer # "armed" /\ ~listening
  /\ gen = "closed" => body # "locked" /\ (body = "released" => completed)

(* What takes a generator that was asked to return to its end: a suspended *)
(* yield, a frame that yields or throws, or the end of the body.           *)
Heard ==
  gen = "closing" \/ completed \/ \E i \in DOMAIN frames : FrameResult(frames[i]) # "nothing"

(* With a timeout, and a fetch that honours the signal, fetching ends,     *)
(* whatever the server does.  A consumer that stops has the body let go    *)
(* once the generator was suspended at a yield or comes upon an item, an   *)
(* error or the end of the body; until then a read is pending.  So a server*)
(* that keeps the stream open, idle or with comments, keeps the body from  *)
(* being cancelled: the code calls return() and nothing interrupts a read. *)
EndsWhenTold ==
  /\ call = "fetching" /\ timed /\ honours ~> call # "fetching"
  /\ returning ~> gen \in {"reading", "closed"}
  /\ returning /\ Heard ~> gen = "closed"
=============================================================================
