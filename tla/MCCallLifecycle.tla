--------------------------- MODULE MCCallLifecycle --------------------------
(* Instances of CallLifecycle for TLC. *)
EXTENDS CallLifecycle

CONSTANTS d1, d2, p1

\* The default providers with everything they need.
Working ==
  [llm |-> "anthropic", stt |-> "faster_whisper", tts |-> "piper",
   given |-> {"anthropic_api_key"}, credentials |-> "readable",
   timezone |-> "known", extras |-> {"voice", "calendar"}]

\* Everything works; no calendar; credentials that cannot be read; a malformed
\* timezone; a key is missing; two providers that pass validation and cannot be built.
CoreDeployments ==
  {Working,
   [Working EXCEPT !.credentials = "none"],
   [Working EXCEPT !.credentials = "unreadable"],
   [Working EXCEPT !.timezone = "malformed"],
   [Working EXCEPT !.llm = "openai"],
   [Working EXCEPT !.stt = "deepgram"],
   [Working EXCEPT !.llm = "openai_compatible", !.tts = "coqui",
                   !.given = {"openai_compatible_base_url", "openai_compatible_model"}]}

OneDeployment == {Working}
=============================================================================
