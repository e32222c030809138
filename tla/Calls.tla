---- MODULE Calls ----
(* Pure functions are checked on the call under way: its name and arguments. *)
EXTENDS Common

VARIABLE
    call            \* None, or a record with the function in the field "of"

Calling(f) == call # None /\ call.of = f
CallOf(calls) == call = None /\ call' \in calls
Return == call # None /\ call' = None
====
