----------------------------- MODULE MCNotifier -----------------------------
(* Model-checking instances of Notifier: what the webhook rows may say. *)
EXTENDS Notifier

All     == [on |-> TRUE,  events |-> {}]
Most    == [on |-> TRUE,  events |-> {"started", "outcome"}]
Off     == [on |-> FALSE, events |-> {}]

AllRow  == {All}
SomeRow == {All, Most, Off}
=============================================================================
