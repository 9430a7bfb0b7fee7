----------------------------- MODULE Deployment -----------------------------
(***************************************************************************)
(* What a deployment's settings make of a call: what is validated when the *)
(* settings are first read, as the worker starts, and what the provider    *)
(* factories and the prompt then build, refuse, or raise on.               *)
(***************************************************************************)

\* The settings as far as providers depend on them.  `given` are the fields that
\* have a value, `extras` the optional dependencies that are installed,
\* `credentials` the service account file of the calendar: no path set, a path
\* that cannot be read, or one that can, `timezone` the key of BOOKING_TIMEZONE: of
\* a zone, of none, or one that is no key at all (an absolute path, say).
Settings ==
  [llm : {"anthropic", "openai", "openai_compatible"},
   stt : {"faster_whisper", "deepgram"},
   tts : {"piper", "elevenlabs", "coqui"},
   given : SUBSET {"anthropic_api_key", "openai_api_key", "openai_compatible_base_url",
                   "openai_compatible_model", "elevenlabs_api_key"},
   credentials : {"none", "unreadable", "readable"},
   timezone : {"known", "unknown", "malformed"},
   extras : SUBSET {"voice", "calendar"}]

\* What the selected LLM provider cannot be built without.
LLMNeeds(s) ==
  CASE s.llm = "anthropic" -> {"anthropic_api_key"}
    [] s.llm = "openai" -> {"openai_api_key"}
    [] s.llm = "openai_compatible" -> {"openai_compatible_base_url", "openai_compatible_model"}

TTSNeeds(s) == IF s.tts = "elevenlabs" THEN {"elevenlabs_api_key"} ELSE {}

\* The two model validators.  Speech recognition, calendar, timezone and
\* notifications are not validated, nor whether a provider is implemented and
\* installed.
Validated(s) == LLMNeeds(s) \union TTSNeeds(s) \subseteq s.given

\* get_llm_provider, get_stt_provider and get_tts_provider return.
BuildsLLM(s) == LLMNeeds(s) \subseteq s.given

BuildsSTT(s) == s.stt = "faster_whisper" /\ "voice" \in s.extras

BuildsTTS(s) ==
  \/ s.tts = "piper" /\ "voice" \in s.extras
  \/ s.tts = "elevenlabs" /\ TTSNeeds(s) \subseteq s.given

\* get_calendar_provider: a client, a CalendarError, or whatever reading the file
\* raises.
Calendar(s) ==
  IF s.credentials = "none" \/ "calendar" \notin s.extras THEN "refused"
  ELSE IF s.credentials = "unreadable" THEN "raises" ELSE "built"

\* build_temporal_context: a name no zone has falls back to UTC, a key that cannot be
\* a name raises a ValueError.
BuildsPrompt(s) == s.timezone # "malformed"

=============================================================================
