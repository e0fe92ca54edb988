------------------------------ MODULE MCStream ------------------------------
(* Model checking of Stream. *)
EXTENDS Stream, SequencesExt

Event(type) ==
  [type |-> type, index |-> 0, tool |-> FALSE, text |-> 0, input |-> 0,
   cached |-> 0, output |-> 0, total |-> 0, finish |-> FALSE]

AnthropicStart == [Event("message_start") EXCEPT !.input = 3, !.cached = 2]
TextDelta(n)   == [Event("content_block_delta") EXCEPT !.text = n]
ToolStart(i)   == [Event("content_block_start") EXCEPT !.tool = TRUE, !.index = i]
ToolDelta(i)   == [Event("content_block_delta") EXCEPT !.tool = TRUE, !.index = i]
AnthropicDelta == [Event("message_delta") EXCEPT !.output = 5]

AnthropicAnswers ==
  { <<AnthropicStart, TextDelta(3), Event("ping"), TextDelta(6), AnthropicDelta,
      Event("message_stop")>>,
    <<AnthropicStart, ToolStart(1), ToolDelta(1), AnthropicDelta,
      Event("message_stop"), [AnthropicDelta EXCEPT !.output = 9]>>,
    <<Event("garbled"), TextDelta(4), AnthropicDelta>>,
    <<AnthropicStart, TextDelta(4), Event("oversized"), AnthropicDelta>> }

Candidate(n)   == [Event("candidate") EXCEPT !.text = n]
Finishing      == [Event("candidate") EXCEPT !.text = 2, !.finish = TRUE,
                                             !.input = 3, !.output = 4, !.total = 9]
PromptOnly     == [Event("no_candidate") EXCEPT !.input = 3, !.total = 3]
FunctionCall   == [Event("candidate") EXCEPT !.tool = TRUE]

GeminiAnswers ==
  { <<PromptOnly, Candidate(3), Finishing>>,
    <<FunctionCall, Finishing>>,
    <<Candidate(5), [Finishing EXCEPT !.total = 0]>>,
    <<Candidate(6), Event("oversized"), Finishing>>,
    <<Candidate(8)>> }

Line(text, usage, size) ==
  [i \in 1..size |-> IF i < size THEN Part ELSE Chunk(text, usage, NoCall)]
DoneLine(size) == [i \in 1..size |-> IF i < size THEN Part ELSE Done]
Reporting == Usage(3, 0, 2)

OpenAIAnswers ==
  { FlattenSeq(lines) : lines \in
    { <<Line(3, NoUsage, 2), Line(0, Reporting, 2), DoneLine(1)>>,
      <<Line(4, NoUsage, 4), Line(2, NoUsage, 1), Line(0, Reporting, 1)>>,
      <<Line(0, Usage(1, 0, 1), 1), Line(4, NoUsage, 1), Line(0, Usage(0, 0, 4), 1)>>,
      <<Line(9, NoUsage, 1), Line(5, NoUsage, 5), DoneLine(1), Line(0, Reporting, 1)>>,
      <<Line(4, Reporting, 4), DoneLine(4), Line(8, NoUsage, 1)>> } }

MCScripts ==
  [family : {"anthropic"}, events : AnthropicAnswers]
    \cup [family : {"gemini"}, events : GeminiAnswers]
    \cup [family : {"openai"}, events : OpenAIAnswers]
=============================================================================
