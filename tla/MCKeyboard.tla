----------------------------- MODULE MCKeyboard -----------------------------
(* Instances of Keyboard. *)
EXTENDS Keyboard

AllKeys == DOMAIN KeyCodes
=============================================================================
