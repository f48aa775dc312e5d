---------------------------- MODULE MCLlmFactory ----------------------------
(* A small instance of LlmFactory for TLC. *)
EXTENDS LlmFactory

Pick(p, f, m) == [primary |-> p, fallback |-> f, models |-> m]

\* Claude with Codex behind it; the same turned round with Ollama for the news,
\* one call at a time, and a fallback with a model of its own.
ClaudeFirst ==
  [tier1 |-> Pick("CLAUDE_CODE", "CODEX", {}), tier2 |-> Pick("CODEX", none, {}),
   news |-> Pick("AUTOMATIC", none, {}), manual |-> Pick("CODEX", "CODEX", {}),
   limit |-> [tier1 |-> 2, tier2 |-> 1]]
CodexFirst ==
  [tier1 |-> Pick("CODEX", "CLAUDE_CODE", {"fallback"}), tier2 |-> Pick("CODEX", "OLLAMA", {}),
   news |-> Pick("OLLAMA", "CODEX", {"fallback"}), manual |-> Pick("CLAUDE_CODE", none, {}),
   limit |-> [tier1 |-> 0, tier2 |-> 1]]

TwoSettings == {ClaudeFirst, CodexFirst}
TwoCalls    == {"a", "b"}
OneTier     == [c \in TwoCalls |-> IF c = "a" THEN "tier1" ELSE "news"]
=============================================================================
