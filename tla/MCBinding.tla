------------------------------ MODULE MCBinding ------------------------------
(* Small instances of Binding: users, chats and tokens are model values.   *)
EXTENDS Binding
=============================================================================
