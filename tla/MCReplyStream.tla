----------------------------- MODULE MCReplyStream -----------------------------
(* Every vendor protocol with every endpoint. *)
EXTENDS ReplyStream, TLC

MCProtos == {"openai", "anthropic", "gemini", "responses"}
MCApis == {"claude", "responses", "chat"}
=============================================================================
