------------------------------ MODULE MCRouter ------------------------------
(* Four recordings with the key of one service; three prompts with the keys of
   two, and a recording with none.  The calls of a kind are alike. *)
EXTENDS Router

Work(n, prompts, speech) ==
  [kind |-> [c \in Call |-> IF c <= n THEN "prompt" ELSE "audio"],
   chain |-> [prompt |-> prompts, audio |-> speech]]

McProvider == {"groq", "gemini", "assemblyai"}
McLoad == {Work(0, << >>, <<"assemblyai">>), Work(3, <<"groq", "gemini">>, << >>)}
=============================================================================
