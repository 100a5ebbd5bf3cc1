---------------------------- MODULE MCConversation ----------------------------
(* Small instances of Conversation for TLC. *)
EXTENDS Conversation, TLC

CONSTANTS a, b
MCReplies == {<<a, b>>, <<b>>}
MCSymmetry == Permutations(Handlers)
===============================================================================
