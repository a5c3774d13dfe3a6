------------------------------ MODULE RelayStream ------------------------------
(***************************************************************************)
(* One request of the relay from its checks to the end of its answer:      *)
(* RelayService.prepareContext and executeProtocol around the transports   *)
(* of the three protocols, which pass the bytes of the upstream on to the  *)
(* client as they arrive and read the usage, the errors and the end of the *)
(* stream out of them on the side.  Chunks are cut anywhere.               *)
(*                                                                         *)
(* A byte is a letter: "d" begins a data line, "n" ends a line, an empty   *)
(* line ends an event.  "xX" is a delta, "tT" the event that carries the   *)
(* usage (response.completed for Responses), "fF" is [DONE], "eE" an       *)
(* error event; one of the two letters alone is a payload cut in half.     *)
(***************************************************************************)
EXTENDS Integers, Sequences

CONSTANTS
    Wire,       \* answers of an upstream, byte by byte
    MaxChunk,   \* longest chunk
    MaxAttempt  \* of the executor, maxRetries + 1

ASSUME StreamAssumption == MaxChunk \in Nat \ {0} /\ MaxAttempt \in Nat \ {0}

Protocol == {"chat", "responses", "anthropic"}
Code == {"invalid_request_error", "model_not_found", "not_supported", "forbidden", "no_channel",
         "quota_exceeded", "vision_not_supported"}

VARIABLES
    request,   \* [protocol, stream, phase, attempt]
    wire,      \* bytes the upstream has not sent yet
    got,       \* bytes received in this attempt
    parse,     \* [pending, event, first, usage, error]: the reading on the side
    res,       \* the response to the client: [headers, body, ended, closed]
    watchdog,  \* Responses only: "off", "first", "idle"
    ledger     \* [reserved, log]: the reservation and the records of accounting

StreamVars == <<request, wire, got, parse, res, watchdog, ledger>>

NoParse == [pending |-> <<>>, event |-> <<>>, first |-> FALSE, usage |-> FALSE, error |-> FALSE]

StreamTypeOK ==
    /\ request \in [protocol : Protocol, stream : BOOLEAN, attempt : 1..MaxAttempt,
                    phase : {"prepare", "ready", "post", "read", "pipe", "done"}]
    /\ parse.first \in BOOLEAN /\ parse.usage \in BOOLEAN /\ parse.error \in BOOLEAN
    /\ res.headers \in BOOLEAN /\ res.ended \in BOOLEAN /\ res.closed \in BOOLEAN
    /\ watchdog \in {"off", "first", "idle"}
    /\ ledger.reserved \in BOOLEAN

StreamInit ==
    /\ \E p \in Protocol, s \in BOOLEAN :
          request = [protocol |-> p, stream |-> s, attempt |-> 1, phase |-> "prepare"]
    /\ wire = <<>> /\ got = <<>> /\ parse = NoParse
    /\ res = [headers |-> FALSE, body |-> <<>>, ended |-> FALSE, closed |-> FALSE]
    /\ watchdog = "off"
    /\ ledger = [reserved |-> FALSE, log |-> <<>>]

-----------------------------------------------------------------------------
(* prepareContext and the check of images.                                 *)

\* Faulty variant: only what was sent to an upstream gives its reservation up.
SettleForwarded(code) ==
    /\ request' = [request EXCEPT !.phase = "done"]
    /\ ledger' = [reserved |-> ledger.reserved /\ request.phase = "ready",
                  log |-> Append(ledger.log, code)]
    /\ watchdog' = "off"

\* accounting.fail or accounting.succeed, which give the reservation up, and the
\* response, ended unless the client has closed it.
Settle(code) ==
    /\ request' = [request EXCEPT !.phase = "done"]
    /\ ledger' = [reserved |-> FALSE, log |-> Append(ledger.log, code)]
    /\ watchdog' = "off"

RefusedEarly(code) ==
    /\ code \in Code \ {"vision_not_supported"}
    /\ code = "not_supported" => request.protocol # "chat"
    /\ request.phase = "prepare"

\* Images are looked for after the reservation, and not for Responses.
RefusedLate(code) ==
    /\ code = "vision_not_supported"
    /\ request.protocol # "responses" /\ request.phase = "ready" /\ request.attempt = 1

Refuse(code) ==
    /\ RefusedEarly(code) \/ RefusedLate(code)
    /\ Settle(code)
    /\ res' = [res EXCEPT !.headers = TRUE, !.ended = TRUE]
    /\ UNCHANGED <<wire, got, parse>>

Reserve ==
    /\ request.phase = "prepare"
    /\ request' = [request EXCEPT !.phase = "ready"]
    /\ ledger' = [ledger EXCEPT !.reserved = TRUE]
    /\ UNCHANGED <<wire, got, parse, res, watchdog>>

-----------------------------------------------------------------------------
(* The attempts of the executor and the answers of the upstream.           *)

\* A route was picked; its answer will be some wire.
Forward ==
    /\ request.phase = "ready"
    /\ request' = [request EXCEPT !.phase = "post"]
    /\ wire' \in Wire
    /\ got' = <<>> /\ parse' = NoParse
    /\ UNCHANGED <<res, watchdog, ledger>>

NoChannel ==
    /\ request.phase = "ready"
    /\ Settle("no_channel")
    /\ res' = [res EXCEPT !.headers = TRUE, !.ended = TRUE]
    /\ UNCHANGED <<wire, got, parse>>

\* An attempt failed, with an answer of the upstream or without: another one
\* while the response is untouched, else the error and the end of what started.
Failed(code) ==
    \/ /\ ~res.headers /\ request.attempt < MaxAttempt
       /\ request' = [request EXCEPT !.phase = "ready", !.attempt = @ + 1]
       /\ watchdog' = "off"
       /\ UNCHANGED <<res, ledger>>
    \/ /\ Settle(code)
       /\ res' = [res EXCEPT !.headers = TRUE, !.ended = TRUE]

\* Not 2xx, no answer at all, or for a Responses stream no event stream.
AnswerIsError ==
    /\ request.phase = "post"
    /\ Failed("upstream_error")
    /\ UNCHANGED <<wire, got, parse>>

AnswerBegins ==
    /\ request.phase = "post"
    /\ request' = [request EXCEPT !.phase = IF request.stream THEN "pipe" ELSE "read"]
    /\ res' = [res EXCEPT !.headers = request.stream]
    /\ watchdog' = IF request.stream /\ request.protocol = "responses" THEN "first" ELSE "off"
    /\ UNCHANGED <<wire, got, parse, ledger>>

\* The whole answer of a request without streaming: sent on when it parses and,
\* but for Responses, holds no error.
AnswerRead(valid) ==
    /\ request.phase = "read"
    /\ got' = wire /\ wire' = <<>>
    /\ IF valid
       THEN /\ Settle("success")
            /\ res' = [res EXCEPT !.headers = TRUE, !.ended = TRUE, !.body = got']
       ELSE Failed("upstream_error")
    /\ UNCHANGED parse

-----------------------------------------------------------------------------
(* A stream: pipeSse of the three transports.                              *)

\* inspect of the chat and Anthropic transports: one line.
Inspected(p, line) ==
    IF line = <<"d", "t", "T">> THEN [p EXCEPT !.usage = TRUE]
    ELSE IF line = <<"d", "e", "E">> /\ request.protocol = "anthropic" THEN [p EXCEPT !.error = TRUE]
    ELSE p

NextNewline(s) == CHOOSE i \in DOMAIN s : s[i] = "n" /\ \A j \in 1..(i - 1) : s[j] # "n"
HasNewline(s) == \E i \in DOMAIN s : s[i] = "n"

RECURSIVE ReadLines(_)
ReadLines(p) ==
    IF ~HasNewline(p.pending) THEN p
    ELSE LET i == NextNewline(p.pending)
         IN  ReadLines(Inspected([p EXCEPT !.pending = SubSeq(p.pending, i + 1, Len(p.pending))],
                                 SubSeq(p.pending, 1, i - 1)))

\* Faulty variant: any event that begins like the terminal one ends the stream.
TerminalByPrefix(event) == event # <<>> /\ event[1] # <<>> /\ event[1][1] \in {"t", "f"}

\* inspectEvent of the Responses transport: completed, or [DONE].  Lines of one
\* event are joined, so a second line spoils both.
Terminal(event) == event \in {<<<<"t", "T">>>>, <<<<"f", "F">>>>}

Smaller(a, b) == IF a < b THEN a ELSE b
Larger(a, b) == IF a > b THEN a ELSE b

\* The part of the chunk that belongs to the lines read so far.
Writable(chunk, consumed, prior) == Larger(0, Smaller(Len(chunk), consumed - prior))

\* The loop of onData.  s: [parse, consumed, written, out, ended].
RECURSIVE ReadEvents(_, _, _)
ReadEvents(s, chunk, prior) ==
    IF s.ended \/ ~HasNewline(s.parse.pending) THEN s
    ELSE LET i == NextNewline(s.parse.pending)
             line == SubSeq(s.parse.pending, 1, i - 1)
             event == IF line # <<>> /\ line[1] = "d" THEN Append(s.parse.event, Tail(line))
                      ELSE s.parse.event
             upTo == Writable(chunk, s.consumed + i, prior)
             blank == line = <<>>
         IN  ReadEvents(
                [parse |-> [s.parse EXCEPT
                     !.pending = SubSeq(s.parse.pending, i + 1, Len(s.parse.pending)),
                     !.event = IF blank THEN <<>> ELSE event,
                     !.first = @ \/ (blank /\ event # <<>>),
                     !.usage = @ \/ (blank /\ event = <<<<"t", "T">>>>)],
                 consumed |-> s.consumed + i,
                 written |-> Larger(s.written, upTo),
                 out |-> s.out \o SubSeq(chunk, s.written + 1, upTo),
                 ended |-> blank /\ Terminal(event)],
                chunk, prior)

\* Faulty variant: what an earlier chunk left of a line is forgotten.
ChunkAlone(chunk) ==
    /\ request.protocol # "responses"
    /\ res' = [res EXCEPT !.body = @ \o chunk]
    /\ parse' = ReadLines([parse EXCEPT !.pending = chunk])
    /\ UNCHANGED <<request, watchdog, ledger>>

\* A chunk for chat and Anthropic: written, then read.
ChunkPlain(chunk) ==
    /\ request.protocol # "responses"
    /\ res' = [res EXCEPT !.body = @ \o chunk]
    /\ parse' = ReadLines([parse EXCEPT !.pending = @ \o chunk])
    /\ UNCHANGED <<request, watchdog, ledger>>

\* Faulty variant: what has no newline yet waits for it, and is not counted then.
RestOfLine(s, chunk) == <<>>

\* The unfinished line is written as it came.
Rest(s, chunk) == IF s.ended THEN <<>> ELSE SubSeq(chunk, s.written + 1, Len(chunk))

\* A chunk for Responses: written line by line, nothing after the terminal event.
ChunkResponses(chunk) ==
    /\ request.protocol = "responses"
    /\ LET s == ReadEvents(
                   [parse |-> [parse EXCEPT !.pending = @ \o chunk], consumed |-> 0,
                    written |-> 0, out |-> <<>>, ended |-> FALSE],
                   chunk, Len(parse.pending))
       IN  /\ parse' = s.parse
           /\ res' = [res EXCEPT !.body = @ \o s.out \o Rest(s, chunk), !.ended = s.ended]
           /\ IF s.ended THEN Settle("success")
              ELSE /\ watchdog' = IF s.parse.first THEN "idle" ELSE watchdog
                   /\ UNCHANGED <<request, ledger>>

Chunk(n) ==
    /\ request.phase = "pipe"
    /\ n <= Len(wire)
    /\ wire' = SubSeq(wire, n + 1, Len(wire))
    /\ got' = got \o SubSeq(wire, 1, n)
    /\ ChunkPlain(SubSeq(wire, 1, n)) \/ ChunkResponses(SubSeq(wire, 1, n))

\* "end": for Responses an interruption, else the end, with what was left read.
StreamEnds ==
    /\ request.phase = "pipe"
    /\ parse' = IF request.protocol = "responses" THEN parse ELSE Inspected(parse, parse.pending)
    /\ IF request.protocol = "responses" \/ parse'.error
       THEN Failed("upstream_error")
       ELSE /\ Settle("success")
            /\ res' = [res EXCEPT !.ended = TRUE]
    /\ UNCHANGED <<wire, got>>

\* "error", "aborted" or "close", or the watchdog of Responses.
StreamBreaks ==
    /\ request.phase = "pipe"
    /\ Failed("upstream_error")
    /\ UNCHANGED <<wire, got, parse>>

\* Faulty variant: the watchdog waits for a first event only.
WatchdogFiresOnce ==
    /\ request.phase = "pipe" /\ watchdog = "first"
    /\ Failed("upstream_error")
    /\ UNCHANGED <<wire, got, parse>>

WatchdogFires ==
    /\ request.phase = "pipe" /\ watchdog # "off"
    /\ Failed("upstream_error")
    /\ UNCHANGED <<wire, got, parse>>

\* The client goes: the attempt under way ends as an abort, never with another.
ClientCloses ==
    /\ request.phase \in {"post", "read", "pipe"}
    /\ Settle("client_disconnected")
    /\ res' = [res EXCEPT !.closed = TRUE]
    /\ UNCHANGED <<wire, got, parse>>

StreamNext ==
    \/ \E code \in Code : Refuse(code)
    \/ Reserve
    \/ Forward
    \/ NoChannel
    \/ AnswerIsError
    \/ AnswerBegins
    \/ \E valid \in BOOLEAN : AnswerRead(valid)
    \/ \E n \in 1..MaxChunk : Chunk(n)
    \/ StreamEnds
    \/ StreamBreaks
    \/ WatchdogFires
    \/ ClientCloses

StreamSpec == StreamInit /\ [][StreamNext]_StreamVars /\ WF_StreamVars(WatchdogFires)

-----------------------------------------------------------------------------
\* The client sees exactly the bytes of the one upstream whose answer began, all
\* that arrived while the stream runs, whatever the cuts of the chunks; the bytes
\* after a terminal event in the same chunk are the only ones held back.
BytesPassThrough ==
    /\ request.phase = "pipe" => res.body = got
    /\ res.body # <<>> =>
          /\ Len(res.body) <= Len(got) /\ res.body = SubSeq(got, 1, Len(res.body))
          /\ res.body # got => ledger.log = <<"success">>

\* A Responses stream counts as successful only after a complete terminal event,
\* which the client has got up to its last byte: a cut stream, whatever it said
\* before, is an error and its route is charged with it.
SuccessIsComplete ==
    ledger.log = <<"success">> /\ request.stream /\ request.protocol = "responses" =>
        \E k \in {"t", "f"} :
            /\ Len(res.body) >= 5
            /\ SubSeq(res.body, Len(res.body) - 4, Len(res.body))
                   = <<"d", k, IF k = "t" THEN "T" ELSE "F", "n", "n">>

\* The usage in a stream is read however its bytes are cut, also from a last line
\* without a newline: a successful stream that told its usage is charged for it.
UsageIsRead ==
    ledger.log = <<"success">> /\ request.stream =>
        \A i \in 1..(Len(res.body) - 2) :
            SubSeq(res.body, i, i + 2) = <<"d", "t", "T">> => parse.usage

\* A request leaves one record, at its end, and no reservation behind: through
\* refusals after the reservation, retries, aborts and both ends of a stream; the
\* response is ended unless the client went.
SettledOnce ==
    /\ request.phase = "done" =>
          Len(ledger.log) = 1 /\ ~ledger.reserved /\ (res.ended \/ res.closed)
    /\ request.phase # "done" => ledger.log = <<>> /\ ~res.ended

\* Even when the upstream falls silent, a Responses stream ends: before and after
\* its first event a watchdog runs.
StreamsEnd == request.phase = "pipe" /\ request.protocol = "responses" ~> request.phase = "done"

\* Wherever the answer of an upstream is cut, the client gets its bytes, the outcome is
\* that of the whole answer, and it is settled once and in the end.
StreamsHold ==
    /\ []BytesPassThrough /\ []SuccessIsComplete /\ []UsageIsRead /\ []SettledOnce
    /\ StreamsEnd
=============================================================================
