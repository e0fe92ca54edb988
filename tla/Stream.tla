------------------------------- MODULE Stream -------------------------------
(***************************************************************************)
(* One streamed answer, from the provider to the client and the usage      *)
(* table: the stream translators of the Anthropic and Gemini adapters      *)
(* behind an io.Pipe, the StreamMeter of internal/gateway that reads along,*)
(* and the HTTP handler that copies to the client.                         *)
(*                                                                         *)
(*   provider --wire--> translator --out--> StreamMeter --> handler        *)
(*                                               \--> meterStreamingUsage  *)
(*                                                                         *)
(* An OpenAI provider's answer skips the translator.  The bytes of a line  *)
(* are counted in pieces, the last of which ends with the newline and      *)
(* stands for what the line says; a Read returns some pieces, so lines     *)
(* arrive whole, cut and several at a time.  Empty lines are left out.  A  *)
(* length of four stands for one token.                                    *)
(***************************************************************************)
EXTENDS Integers, Sequences, FiniteSetsExt

CONSTANTS Scripts,        \* the answers: [family, events]
          Handlers,       \* "chat" or "responses", the two streaming endpoints
          MaxLine,        \* maxLineBufSize, in pieces
          MaxRead,        \* the handler's buffer, in pieces
          PromptEstimate, \* a quarter of the request's length
          VisionEstimate  \* what its images are estimated to cost

ASSUME SizeAssumption == MaxLine \in Nat \ {0} /\ MaxRead \in Nat \ {0}
ASSUME EstimateAssumption == PromptEstimate \in Nat /\ VisionEstimate \in Nat

Usages  == [prompt : Nat, cached : Nat, completion : Nat, total : Nat]
NoUsage == [prompt |-> 0, cached |-> 0, completion |-> 0, total |-> 0]
NoBill  == [usage |-> NoUsage, estimated |-> FALSE]
NoCall  == -1

\* A piece that ends a line, here a chunk in OpenAI's format as the translators
\* write them, and one that does not.
Chunk(text, usage, call) ==
  [text |-> text, usage |-> usage, call |-> call, done |-> FALSE, last |-> TRUE]
Done == [text |-> 0, usage |-> NoUsage, call |-> NoCall, done |-> TRUE, last |-> TRUE]
Part == [text |-> 0, usage |-> NoUsage, call |-> NoCall, done |-> FALSE, last |-> FALSE]

\* The events of the two families that are translated, and the pieces of an answer
\* that is not.
Events == [type : STRING, index : Nat, tool : BOOLEAN, text : Nat, input : Nat,
           cached : Nat, output : Nat, total : Nat, finish : BOOLEAN]
Pieces == {p \in [text : Nat, usage : Usages, call : {NoCall}, done : BOOLEAN,
                  last : BOOLEAN] : (p.done => p = Done) /\ (~p.last => p = Part)}

ASSUME ScriptAssumption ==
  \A a \in Scripts :
    \/ a.family \in {"anthropic", "gemini"} /\ a.events \in Seq(Events)
    \/ a.family = "openai" /\ a.events \in Seq(Pieces)

VARIABLES
  stream,     \* the answer and the endpoint it is for
  sent,       \* the number of its events the provider has sent
  taken,      \* the number of them the translator or the meter has read
  upstream,   \* "open", "ended", "cut": where the provider's answer stands
  bodyClosed, \* the provider's response body has been closed
  translator, \* "scan", "done", or "none" when there is none
  memory,     \* the translator's local variables
  out,        \* the chunks the translator is writing to the pipe
  meter,      \* the StreamMeter: line buffer, flag and counters
  reading,    \* the pieces that the Read under way has got so far
  bill,       \* what finish handed to onDone; NoBill before
  handler,    \* "read", "close" or "returned"; "killed" with the process
  gone,       \* the client has left
  record,     \* the usage record: "none", then "saved" or "lost"
  seen        \* history: the pieces read before the bill was made

provider == <<sent, taken, upstream>>
vars == <<stream, provider, bodyClosed, translator, memory, out, meter, reading,
          bill, handler, gone, record, seen>>

Family == stream.answer.family
Answer == stream.answer.events
Native == Family = "openai"

Init ==
  /\ stream \in [answer : Scripts, handler : Handlers]
  /\ sent = 0
  /\ taken = 0
  /\ upstream = "open"
  /\ bodyClosed = FALSE
  /\ translator = IF Native THEN "none" ELSE "scan"
  /\ memory = [input |-> 0, cached |-> 0, calls |-> <<>>, next |-> 0,
               role |-> FALSE]
  /\ out = <<>>
  /\ meter = [buffered |-> 0, overflowed |-> FALSE, usage |-> NoUsage, text |-> 0]
  /\ reading = 0
  /\ bill = NoBill
  /\ handler = "read"
  /\ gone = FALSE
  /\ record = "none"
  /\ seen = <<>>

-----------------------------------------------------------------------------
(* The provider and the client *)

\* The provider sends the next event or piece.  It may also stay silent for ever:
\* the streaming clients have no timeout, and that of an OpenAI provider is a Break.
Send ==
  /\ upstream = "open"
  /\ sent < Len(Answer)
  /\ sent' = sent + 1
  /\ UNCHANGED <<stream, taken, upstream, bodyClosed, translator, memory, out,
                 meter, reading, bill, handler, gone, record, seen>>

End ==
  /\ upstream = "open"
  /\ sent = Len(Answer)
  /\ upstream' = "ended"
  /\ UNCHANGED <<stream, sent, taken, bodyClosed, translator, memory, out, meter,
                 reading, bill, handler, gone, record, seen>>

\* The connection breaks, or the client's departure cancels the request.  What
\* was sent may still be read, or not.
Cut ==
  /\ upstream = "open"
  /\ upstream' = "cut"
  /\ sent' \in {sent, taken}
  /\ UNCHANGED <<stream, taken, bodyClosed, translator, memory, out, meter,
                 reading, bill, handler, gone, record, seen>>
Break  == ~gone /\ Cut
Cancel == gone /\ Cut

Leave ==
  /\ ~gone
  /\ handler # "returned"
  /\ gone' = TRUE
  /\ UNCHANGED <<stream, provider, bodyClosed, translator, memory, out, meter,
                 reading, bill, handler, record, seen>>

-----------------------------------------------------------------------------
(* The translators *)

\* Writing to a pipe whose reader is closed fails; the error is ignored.
Write(chunks) == out' = IF handler = "returned" THEN <<>> ELSE chunks

Keep == memory' = memory

MessageStart(e) ==
  /\ memory' = [memory EXCEPT !.input = e.input, !.cached = e.cached]
  /\ Write(<<Chunk(0, NoUsage, NoCall)>>)

\* A tool_use block gets the next index of the tool_calls array.
ContentBlockStart(e) ==
  IF e.tool
  THEN /\ memory' = [memory EXCEPT !.calls = Append(@, e.index), !.next = @ + 1]
       /\ Write(<<Chunk(0, NoUsage, memory.next)>>)
  ELSE Keep /\ Write(<<>>)

\* The index a block was given; a block without one goes by the zero of the map.
CallOf(block) ==
  IF \E i \in DOMAIN memory.calls : memory.calls[i] = block
  THEN (CHOOSE i \in DOMAIN memory.calls :
          /\ memory.calls[i] = block
          /\ \A j \in DOMAIN memory.calls : memory.calls[j] = block => j <= i) - 1
  ELSE 0

ContentBlockDelta(e) ==
  /\ Keep
  /\ Write(<<IF e.tool THEN Chunk(0, NoUsage, CallOf(e.index))
             ELSE Chunk(e.text, NoUsage, NoCall)>>)

Usage(prompt, cached, completion) ==
  [prompt |-> prompt, cached |-> cached, completion |-> completion,
   total |-> prompt + cached + completion]

MessageDelta(e) ==
  /\ Keep
  /\ Write(<<Chunk(0, Usage(memory.input, memory.cached, e.output), NoCall)>>)

\* One event of an Anthropic stream.  Other events and unreadable ones are passed
\* over.
TranslateAnthropic(e) ==
  CASE e.type = "message_start"       -> MessageStart(e)
    [] e.type = "content_block_start" -> ContentBlockStart(e)
    [] e.type = "content_block_delta" -> ContentBlockDelta(e)
    [] e.type = "message_delta"       -> MessageDelta(e)
    [] e.type = "message_stop"        -> Keep /\ Write(<<Done>>)
    [] OTHER                          -> Keep /\ Write(<<>>)

\* The usage metadata of a Gemini event; without a total it is not written.
GeminiUsage(e) ==
  IF e.total = 0 THEN NoUsage
  ELSE [prompt |-> e.input, cached |-> 0, completion |-> e.output,
        total |-> e.total]

\* One event of a Gemini stream: the role once, the part (an event with several
\* is taken for several), and the end with the usage.  An event without a
\* candidate is passed over, its usage with it.
TranslateGemini(e) ==
  IF e.type # "candidate" THEN Keep /\ Write(<<>>)
  ELSE LET role  == IF memory.role THEN <<>> ELSE <<Chunk(0, NoUsage, NoCall)>>
           part  == IF e.tool THEN <<Chunk(0, NoUsage, memory.next)>>
                    ELSE IF e.text > 0 THEN <<Chunk(e.text, NoUsage, NoCall)>>
                    ELSE <<>>
           final == IF e.finish THEN <<Chunk(0, GeminiUsage(e), NoCall)>> ELSE <<>>
       IN /\ memory' = [memory EXCEPT !.role = TRUE,
                                      !.next = IF e.tool THEN @ + 1 ELSE @]
          /\ Write(role \o part \o final)

\* The goroutine of doStreamingChatCompletions scans the next line when the pipe
\* has taken the last one.
Translate ==
  /\ translator = "scan"
  /\ out = <<>>
  /\ taken < sent
  /\ LET event == Answer[taken + 1]
     IN /\ event.type # "oversized"
        /\ IF Family = "anthropic" THEN TranslateAnthropic(event)
           ELSE TranslateGemini(event)
  /\ taken' = taken + 1
  /\ UNCHANGED <<stream, sent, upstream, bodyClosed, translator, meter, reading,
                 bill, handler, gone, record, seen>>

\* The scan ends with the answer, at an error, and at a line beyond the scanner's
\* limit.  Gemini's translator writes [DONE] whichever it was.  Then the pipe and
\* the provider's answer are closed.
TranslatorEnds ==
  /\ translator = "scan"
  /\ out = <<>>
  /\ IF taken = sent THEN upstream # "open"
     ELSE Answer[taken + 1].type = "oversized"
  /\ Keep
  /\ Write(IF Family = "gemini" THEN <<Done>> ELSE <<>>)
  /\ translator' = "done"
  /\ bodyClosed' = TRUE
  /\ UNCHANGED <<stream, provider, meter, reading, bill, handler, gone, record,
                 seen>>

-----------------------------------------------------------------------------
(* StreamMeter *)

\* What finish reports: the stream's usage, or else an estimate.
Account(m) ==
  LET completion == m.text \div 4
      prompt     == PromptEstimate + VisionEstimate
  IN IF m.usage.total = 0
     THEN [usage |-> Usage(prompt, 0, completion), estimated |-> TRUE]
     ELSE IF m.usage.prompt = 0 /\ VisionEstimate > 0
     THEN [usage |-> [m.usage EXCEPT !.prompt = VisionEstimate,
                                     !.total = VisionEstimate + m.usage.completion],
           estimated |-> FALSE]
     ELSE [usage |-> m.usage, estimated |-> FALSE]

\* finish, the first time it is called.
Finish == bill' = IF bill = NoBill THEN Account(meter) ELSE bill

\* processLine: [DONE] makes the bill, and any other line is added to it.
ProcessLine(line) ==
  IF line.done
  THEN Finish /\ meter' = [meter EXCEPT !.buffered = 0]
  ELSE /\ meter' = [meter EXCEPT
            !.buffered = 0,
            !.usage    = IF line.usage.total > 0 THEN line.usage ELSE @,
            !.text     = @ + line.text]
       /\ UNCHANGED bill

\* Mutation: the flag is left set at the end of the oversized line.
EndLineStuck(line) ==
  IF meter.overflowed
  THEN meter' = [meter EXCEPT !.buffered = 0] /\ UNCHANGED bill
  ELSE ProcessLine(line)

\* A newline: what was buffered is a line, or the end of one given up on.
EndLine(line) ==
  IF meter.overflowed
  THEN /\ meter' = [meter EXCEPT !.buffered = 0, !.overflowed = FALSE]
       /\ UNCHANGED bill
  ELSE ProcessLine(line)

\* inspect, on one piece of what the source returned.
Inspect(piece) ==
  /\ reading < MaxRead
  /\ reading' = reading + 1
  /\ IF piece.last THEN EndLine(piece)
     ELSE meter' = [meter EXCEPT !.buffered = @ + 1] /\ UNCHANGED bill
  /\ seen' = IF bill = NoBill THEN Append(seen, piece) ELSE seen

\* Read, piece by piece: from the provider's answer, or from the pipe.  That it
\* may pause in between only adds behaviours.
Read ==
  /\ handler = "read"
  /\ IF Native
     THEN /\ taken < sent
          /\ Inspect(Answer[taken + 1])
          /\ taken' = taken + 1
          /\ UNCHANGED out
     ELSE /\ out # <<>>
          /\ Inspect(Head(out))
          /\ out' = Tail(out)
          /\ UNCHANGED taken
  /\ UNCHANGED <<stream, sent, upstream, bodyClosed, translator, memory, handler,
                 gone, record>>

\* Mutation: the rest is buffered without a limit.
Uncapped == meter' = meter

\* The end of inspect: when no complete line is left, the rest is capped.
Cap == meter' = IF meter.buffered > MaxLine
                THEN [meter EXCEPT !.buffered = 0, !.overflowed = TRUE]
                ELSE meter

\* Read returns, and the handler writes the pieces to the client; a write that
\* fails ends the copy of "responses" only.  The server sets no write timeout, so
\* the write to a client that stays and does not read may never return.
ReadReturns ==
  /\ handler = "read"
  /\ reading > 0
  /\ reading' = 0
  /\ Cap
  /\ handler' \in IF gone /\ stream.handler = "responses" THEN {"read", "close"}
                  ELSE {"read"}
  /\ UNCHANGED <<stream, provider, bodyClosed, translator, memory, out, bill, gone,
                 record, seen>>

\* Read returns EOF or an error, and the handler's loop ends.
ReadEnds ==
  /\ handler = "read"
  /\ reading = 0
  /\ IF Native THEN taken = sent /\ upstream # "open"
     ELSE out = <<>> /\ translator = "done"
  /\ Finish
  /\ handler' = "close"
  /\ UNCHANGED <<stream, provider, bodyClosed, translator, memory, out, meter,
                 reading, gone, record, seen>>

\* Mutation: Close leaves the source open.
CloseMeterOnly ==
  /\ handler = "close"
  /\ Finish
  /\ handler' = "returned"
  /\ UNCHANGED <<stream, provider, bodyClosed, translator, memory, out, meter,
                 reading, gone, record, seen>>

\* The handler's deferred Close: the meter's, and through it the provider's answer
\* or the reader's end of the pipe, which frees a translator that is writing.
Close ==
  /\ handler = "close"
  /\ Finish
  /\ handler' = "returned"
  /\ out' = <<>>
  /\ bodyClosed' = (bodyClosed \/ Native)
  /\ UNCHANGED <<stream, provider, translator, memory, meter, reading, gone,
                 record, seen>>

\* The goroutine onDone started saves the record, under a context that a client
\* who leaves does not cancel, ...
Save ==
  /\ bill # NoBill
  /\ record = "none"
  /\ record' = "saved"
  /\ UNCHANGED <<stream, provider, bodyClosed, translator, memory, out, meter,
                 reading, bill, handler, gone, seen>>

\* ... or the insert fails, which is logged: the record is lost.
SaveFails ==
  /\ bill # NoBill
  /\ record = "none"
  /\ record' = "lost"
  /\ UNCHANGED <<stream, provider, bodyClosed, translator, memory, out, meter,
                 reading, bill, handler, gone, seen>>

\* The process ends: Shutdown waits ten seconds for the handlers and not at all
\* for the goroutine that saves.  The connections are closed, and a record that is
\* not yet in the table never will be.
Exit ==
  /\ handler # "killed"
  /\ handler' = "killed"
  /\ gone' = TRUE
  /\ upstream' = "cut"
  /\ translator' = IF Native THEN "none" ELSE "done"
  /\ out' = <<>>
  /\ bodyClosed' = TRUE
  /\ record' = IF record = "none" THEN "lost" ELSE record
  /\ UNCHANGED <<stream, sent, taken, memory, meter, reading, bill, seen>>

\* Both are over, and nobody still works on the record.
Over == handler \in {"returned", "killed"} /\ bodyClosed /\ record # "none"

Idle == Over /\ UNCHANGED vars

Next ==
  \/ Send \/ End \/ Break \/ Cancel \/ Leave
  \/ Translate \/ TranslatorEnds
  \/ Read \/ ReadReturns \/ ReadEnds \/ Close
  \/ Save \/ SaveFails
  \/ Exit
  \/ Idle

(***************************************************************************)
(* Fairness.  The goroutines run on, and the database answers an insert,   *)
(* one way or the other.  The provider owes nothing, and a client need not *)
(* leave; but one that leaves has its request cancelled, and only then is  *)
(* it certain that the handler's write to it returns.                      *)
(***************************************************************************)
Fairness ==
  /\ WF_vars(Cancel)
  /\ WF_vars(Translate)
  /\ WF_vars(TranslatorEnds)
  /\ WF_vars(Read)
  /\ WF_vars(ReadReturns /\ gone)
  /\ WF_vars(ReadEnds)
  /\ WF_vars(Close)
  /\ WF_vars(Save \/ SaveFails)

Spec == Init /\ [][Next]_vars /\ Fairness

-----------------------------------------------------------------------------
(* Properties *)

\* Type invariant.  A line buffer beyond the cap is one that Read is still filling.
TypeOK ==
  /\ sent \in 0..Len(Answer) /\ taken \in 0..sent
  /\ upstream \in {"open", "ended", "cut"}
  /\ upstream = "ended" => sent = Len(Answer)
  /\ translator \in {"none", "scan", "done"}
  /\ handler \in {"read", "close", "returned", "killed"}
  /\ record \in {"none", "saved", "lost"}
  /\ reading \in 0..MaxRead
  /\ meter.buffered \in 0..(MaxLine + reading) /\ meter.overflowed \in BOOLEAN
  /\ meter.usage \in Usages /\ meter.text \in Nat
  /\ bill \in [usage : Usages, estimated : BOOLEAN]
  /\ bodyClosed \in BOOLEAN /\ gone \in BOOLEAN

\* The pieces that end a line, and whether that line is no longer than the buffer.
Lines(pieces) == {i \in DOMAIN pieces : pieces[i].last}
Short(pieces, i) ==
  \E j \in 0..(i - 1) : i - j <= MaxLine /\ (j = 0 \/ pieces[j].last)

\* The last usage that these lines report.
UsageIn(pieces, lines) ==
  LET reports == {i \in lines : pieces[i].usage.total > 0}
  IN IF reports = {} THEN NoUsage ELSE pieces[Max(reports)].usage

Sum(numbers) ==
  LET upTo[n \in 0..Len(numbers)] ==
        IF n = 0 THEN 0 ELSE upTo[n - 1] + numbers[n]
  IN upTo[Len(numbers)]

\* The length of their text.
TextIn(pieces, lines) ==
  Sum([i \in DOMAIN pieces |-> IF i \in lines THEN pieces[i].text ELSE 0])

\* The bill is that of the lines that reached the client before it was made,
\* however they were cut into reads: the last usage they report, or else an
\* estimate on the length of their text.  Only a line longer than the buffer may
\* be missing from it, and nothing after the first [DONE] is in it.
BilledAsDelivered ==
  bill # NoBill =>
    \E missed \in SUBSET {i \in Lines(seen) : ~Short(seen, i)} :
      LET lines == Lines(seen) \ missed
          usage == UsageIn(seen, lines)
      IN /\ \A i \in lines : seen[i].done => i = Len(seen)
         /\ IF usage # NoUsage
            THEN /\ ~bill.estimated
                 /\ bill.usage.completion = usage.completion
                 /\ bill.usage.prompt = usage.prompt \/ usage.prompt = 0
            ELSE /\ bill.estimated
                 /\ bill.usage.prompt = PromptEstimate + VisionEstimate
                 /\ bill.usage.completion = TextIn(seen, lines) \div 4

\* What the message_start before an event said, if there was one.
Started(n) ==
  LET starts == {i \in 1..n : Answer[i].type = "message_start"}
  IN IF starts = {} THEN [input |-> 0, cached |-> 0]
     ELSE [input |-> Answer[Max(starts)].input, cached |-> Answer[Max(starts)].cached]

\* The usage that an event reports, by the rules of the answer's family, and
\* whether nothing after it counts.
Report(n) ==
  LET event == Answer[n]
  IN CASE Family = "anthropic" ->
            IF event.type = "message_delta"
            THEN Usage(Started(n).input, Started(n).cached, event.output)
            ELSE NoUsage
       [] Family = "gemini" ->
            IF event.type = "candidate" /\ event.finish
            THEN GeminiUsage(event)
            ELSE NoUsage
       [] OTHER -> event.usage

EndsBill(n) ==
  \/ Family = "anthropic" /\ Answer[n].type = "message_stop"
  \/ Native /\ Answer[n].done

\* The usage that the first n events of an answer report.
Reports(n) == {i \in 1..n : /\ Report(i).total > 0
                            /\ \A j \in 1..(i - 1) : ~EndsBill(j)}
ReportedUpTo(n) == IF Reports(n) = {} THEN NoUsage ELSE Report(Max(Reports(n)))
Reported == ReportedUpTo(Len(Answer))

\* The scanner and the meter take every line of the answer that matters.
Readable ==
  \A i \in DOMAIN Answer :
    IF Native THEN Report(i).total > 0 \/ EndsBill(i) => Short(Answer, i)
    ELSE Answer[i].type # "oversized"

\* An answer that is not cut off, to a client that stays, is billed with the usage
\* the provider reported in it, in the provider's own format.
BilledAsReported ==
  /\ bill # NoBill /\ upstream # "cut" /\ ~gone
  /\ Readable /\ Reported # NoUsage
  => /\ bill.usage.completion = Reported.completion
     /\ Reported.prompt > 0 => bill.usage = Reported

\* What a client was streamed is what is billed, and what a provider reported is
\* what is billed (internal/gateway/stream_meter.go).
BillSound == BilledAsDelivered /\ BilledAsReported

\* The stream is over: the provider's answer is closed, and the process is gone or
\* the bill has been made and its insert has been tried.
Settled ==
  /\ bodyClosed
  /\ handler = "killed" \/ (bill # NoBill /\ record # "none")

\* The client does not stop reading for good.
ClientReads == []<>(reading = 0)

\* No stream stays without a bill, and no goroutine waits at the pipe for ever: not
\* when the client leaves, whatever it left unread, nor when the provider ends the
\* answer for a client that goes on reading.  (Whether the insert succeeds is up
\* to the database.)
EveryStreamSettled ==
  /\ gone ~> Settled
  /\ ClientReads => (upstream # "open" ~> Settled)
=============================================================================
