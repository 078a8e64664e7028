---------------------------- MODULE MCLLMService ----------------------------
(***************************************************************************)
(* TLC instance of LLMService: a registry of two or three models.          *)
(***************************************************************************)
EXTENDS LLMService, TLC

\* The two entries of LLMRegistry.LLMS.
MCTwo == (0 :> "pro") @@ (1 :> "flash")
MCTwoNames == {"pro", "flash", "retired"}

MCThree == (0 :> "pro") @@ (1 :> "flash") @@ (2 :> "spare")
\* A caller may name a model that is no longer an entry.
MCThreeNames == {"pro", "flash", "spare", "retired"}

=============================================================================
