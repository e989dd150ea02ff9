----------------------------- MODULE MCLanguage -----------------------------
(* An instance of LanguageFrontEnd for TLC: a file with a language server and one without. *)
EXTENDS LanguageFrontEnd

CONSTANTS served, plain

MCPaths == {served, plain}
MCHandled == {served}
=============================================================================
