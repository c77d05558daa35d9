------------------------------ MODULE MCWebhooks ------------------------------
(***************************************************************************)
(* Values for the constants of WebhookDispatcher.                          *)
(***************************************************************************)
EXTENDS WebhookDispatcher, TLC

\* Neither consumers nor resenders are told apart anywhere.
Symmetry == Permutations(User) \cup Permutations(Resender)

AllTypes == {{}}
Edits    == {[enabled |-> FALSE], [enabled |-> TRUE, types |-> {"SUCCEEDED"}]}
=============================================================================
