---------------------------- MODULE MCConversation ----------------------------
(* Every endpoint, with any vendor for each of the turns. *)
EXTENDS Conversation, TLC

MCProtos == {"openai", "anthropic", "gemini", "responses"}
MCApis == {"claude", "responses", "chat"}
MCFunctions == {"f", "shell"}
MCToolKind == "f" :> "function" @@ "shell" :> "shell"
MCArgForms == {{"known", "other"}, {"other"}, {"raw"}, {"none"}}
=============================================================================
