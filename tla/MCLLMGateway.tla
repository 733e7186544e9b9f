---------------------------- MODULE MCLLMGateway ----------------------------
(* A flaky provider that speaks the OpenAI protocol, and Ollama as the fall-back. *)
EXTENDS LLMGateway, TLC

CONSTANTS p1, p2, n1, n2

MCKind  == (p1 :> "openai") @@ (p2 :> "ollama")
MCLists == {<<p1, p2>>, <<p2>>}
MCMode  == (n1 :> "stream") @@ (n2 :> "agent")
=============================================================================
