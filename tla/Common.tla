---- MODULE Common ----
(* What the modules of the agency services share. *)

CONSTANT
    None    \* null: a row that is not there, an empty column, a task not running
====
