------------------------------- MODULE EnvMap -------------------------------
(***************************************************************************)
(* What the callers of c_setenv and c_unsetenv (src/tlpi/c6/6.3.c) rely    *)
(* on: the environment is a map from names to values, and when unsetting a *)
(* name ends the name is not in it any more.                               *)
(***************************************************************************)
CONSTANTS
    Names,   \* names that may be set or unset
    Values,
    Legal,   \* those of both that are not refused
    None

VARIABLES
    started,
    env,    \* name -> value
    doing,  \* the name being unset, or None
    called  \* the arguments of the last call

Init == ~started /\ env = <<>> /\ doing = None /\ called = <<>>

(* The environment the program is given.                                   *)
Start == ~started /\ started' /\ UNCHANGED <<doing, called>>

Stored(n, v, overwrite) ==
    n \in Legal /\ v \in Legal /\ (overwrite \/ n \notin DOMAIN env)

Set(n, v, overwrite) ==
    /\ started /\ doing = None /\ called' = <<n, v, overwrite>>
    /\ env' = IF Stored(n, v, overwrite)
              THEN [m \in DOMAIN env \cup {n} |-> IF m = n THEN v ELSE env[m]]
              ELSE env
    /\ UNCHANGED <<started, doing>>

BeginUnset(n) ==
    /\ started /\ doing = None /\ called' = <<n>>
    /\ doing' = n \/ (n \notin Legal /\ doing' = None)
    /\ UNCHANGED <<started, env>>

Unset == /\ doing # None
         /\ env' = [n \in DOMAIN env \ {doing} |-> env[n]]
         /\ UNCHANGED <<started, doing, called>>

EndUnset == doing \notin DOMAIN env /\ doing' = None /\ UNCHANGED <<started, env, called>>

Next ==
    \/ Start \/ Unset \/ EndUnset
    \/ \E n \in Names : BeginUnset(n)
    \/ \E n \in Names, v \in Values, overwrite \in BOOLEAN : Set(n, v, overwrite)

Spec == Init /\ [][Next]_<<started, env, doing, called>>
=============================================================================
