------------------------- MODULE CapabilityStrategies -------------------------
(***************************************************************************)
(* The strategies of src/router/strategies.py that prefer the models with  *)
(* a capability when the metadata of the request asks for it.  They have   *)
(* one shape; what differs is the keys that ask, the allowlist and the     *)
(* capability.                                                             *)
(*                                                                         *)
(* q.asked is the set of metadata keys with a true value, q.allowlists     *)
(* maps the allowlists the request has to the models they name, and        *)
(* q.capabilities maps models to the capabilities the request says they    *)
(* have.  A candidate has its known capabilities, if it is a known model,  *)
(* and the capabilities its name hints at.                                 *)
(***************************************************************************)
EXTENDS MeasuredStrategies

\* The allowlist decides, or else explicit capabilities, or else the name.
Supports(q, c, allowlist, capabilities) ==
    IF allowlist \in DOMAIN q.allowlists THEN c \in q.allowlists[allowlist]
    ELSE capabilities \cap (IF c \in DOMAIN q.capabilities THEN q.capabilities[c]
                            ELSE IF Catalog[c].known THEN Catalog[c].capabilities
                            ELSE Catalog[c].hints) # {}

\* What can do it is first, but nothing that is up is left out.
PreferIf(q, wanted, capable) ==
    IF wanted
    THEN RankedBy(Active(q), [c \in Models |-> <<Late(c \notin capable), -Quality(c), Cost(q, c)>>])
    ELSE QualityFirst(q)

Prefer(q, keys, allowlist, capabilities) ==
    PreferIf(q, q.asked \cap keys # {}, {c \in Models : Supports(q, c, allowlist, capabilities)})
-----------------------------------------------------------------------------
(* Known models are not asked for their names here. *)
ThinkingModelPrefer(q) ==
    PreferIf(q, q.complexity >= Settings.thinking_complexity,
             IF "thinking_models" \in DOMAIN q.allowlists THEN q.allowlists["thinking_models"]
             ELSE {c \in Models : "thinking" \in Catalog[c].hints})

\* Windows of the request, or else those of the catalog, capped by the input limit.
LongContextPrefer(q) ==
    LET window(c) == IF c \in DOMAIN q.windows THEN q.windows[c] ELSE InputLimit(c)
    IN  IF q.min_context = 0 THEN QualityFirst(q)
        ELSE RankedBy(Active(q), [c \in Models |->
                 <<Late(window(c) < q.min_context), -window(c), -Quality(c), Cost(q, c)>>])

\* An unknown model has no capabilities; all the required ones are needed.
ModelCapabilityGate(q) ==
    LET has(c) == IF c \in DOMAIN q.capabilities THEN q.capabilities[c]
                  ELSE IF Catalog[c].known THEN Catalog[c].capabilities ELSE {}
        capable == {c \in Active(q) : q.required \subseteq has(c)}
    IN  RankedBy(OrElse(capable, Active(q)), [c \in Models |-> <<-Quality(c), Cost(q, c)>>])

StructuredOutputPrefer(q) ==
    Prefer(q, {"requires_json", "structured_output"}, "structured_models",
           {"json", "structured", "json_mode"})
ToolCallingPrefer(q) == Prefer(q, {"requires_tools", "tools"}, "tool_capable_models", {"tools"})
MultimodalInputPrefer(q) ==
    Prefer(q, {"has_images", "has_audio"}, "multimodal_models", {"vision", "audio", "multimodal"})
StreamingPrefer(q) == Prefer(q, {"stream", "requires_streaming"}, "streaming_models", {"streaming"})
AudioInputPrefer(q) ==
    Prefer(q, {"requires_audio", "audio_input", "audio"}, "audio_models", {"audio"})
WebSearchPrefer(q) ==
    Prefer(q, {"requires_web_search", "web_search", "online"}, "web_search_models", {"web_search"})
ComputerUsePrefer(q) ==
    Prefer(q, {"requires_computer_use", "computer_use", "cua"},
           "computer_use_models", {"computer_use"})
ImageGenPrefer(q) ==
    Prefer(q, {"requires_image_gen", "image_gen", "image_generation"},
           "image_gen_models", {"image_gen"})
CodeExecutionPrefer(q) ==
    Prefer(q, {"requires_code_execution", "code_execution", "code_interpreter"},
           "code_execution_models", {"code_execution"})
VideoInputPrefer(q) ==
    Prefer(q, {"requires_video", "video_input", "has_video"}, "video_models", {"video"})
PdfInputPrefer(q) == Prefer(q, {"requires_pdf", "pdf_input", "has_pdf"}, "pdf_models", {"pdf"})
BatchApiPrefer(q) ==
    Prefer(q, {"requires_batch", "batch_api", "use_batch"}, "batch_models", {"batch"})
ReasoningEffortPrefer(q) ==
    Prefer(q, {"requires_reasoning_effort", "reasoning_effort", "effort_control"},
           "reasoning_effort_models", {"reasoning_effort"})
TranscriptionPrefer(q) ==
    Prefer(q, {"requires_transcription", "transcription", "speech_to_text", "stt"},
           "transcription_models", {"transcription"})
ModerationPrefer(q) ==
    Prefer(q, {"requires_moderation", "moderation", "content_moderation"},
           "moderation_models", {"moderation"})
PredictedOutputsPrefer(q) ==
    Prefer(q, {"requires_predicted_outputs", "predicted_outputs", "prediction"},
           "predicted_outputs_models", {"predicted_outputs"})
PromptCachingPrefer(q) ==
    Prefer(q, {"requires_prompt_caching", "prompt_caching", "cache_prompt"},
           "prompt_caching_models", {"prompt_caching"})
FineTunePrefer(q) ==
    Prefer(q, {"requires_fine_tune", "fine_tune", "ft_model"}, "fine_tune_models", {"fine_tune"})
EmbeddingsPrefer(q) ==
    Prefer(q, {"requires_embeddings", "embeddings", "embedding"},
           "embeddings_models", {"embeddings"})
ResponsesApiPrefer(q) ==
    Prefer(q, {"requires_responses_api", "responses_api", "responses"},
           "responses_api_models", {"responses_api"})
FileSearchPrefer(q) ==
    Prefer(q, {"requires_file_search", "file_search", "file-search"},
           "file_search_models", {"file_search"})
VectorStorePrefer(q) ==
    Prefer(q, {"requires_vector_store", "vector_store", "vector-store"},
           "vector_store_models", {"vector_store"})
RealtimeApiPrefer(q) ==
    Prefer(q, {"requires_realtime", "realtime_api", "websocket_streaming"},
           "realtime_api_models", {"realtime_api"})
McpPrefer(q) ==
    Prefer(q, {"requires_mcp", "mcp_servers", "model_context_protocol"}, "mcp_models", {"mcp"})
LogprobsPrefer(q) ==
    Prefer(q, {"requires_logprobs", "logprobs", "top_logprobs"}, "logprobs_models", {"logprobs"})
BackgroundModePrefer(q) ==
    Prefer(q, {"requires_background_mode", "background_mode", "background_agent"},
           "background_mode_models", {"background_mode"})
ParallelToolPrefer(q) ==
    Prefer(q, {"requires_parallel_tool_calls", "parallel_tool_calls", "parallel_tools"},
           "parallel_tool_models", {"parallel_tool_calls"})
DeepResearchPrefer(q) ==
    Prefer(q, {"requires_deep_research", "deep_research", "o_deep_research"},
           "deep_research_models", {"deep_research"})
AgentsApiPrefer(q) ==
    Prefer(q, {"requires_agents_api", "agents_api", "openai_agents"},
           "agents_api_models", {"agents_api"})
WebhookPrefer(q) ==
    Prefer(q, {"requires_webhook", "webhook_callbacks", "async_webhook"},
           "webhook_models", {"webhook"})
MemoryToolPrefer(q) ==
    Prefer(q, {"requires_memory_tool", "memory_tool", "agent_memory"},
           "memory_tool_models", {"memory_tool"})
===============================================================================
