-------------------------------- MODULE Names --------------------------------
(***************************************************************************)
(* Strings and global variables as a Lox program sees them: a string is    *)
(* its text and a global variable is found by the text of its name.  There *)
(* are no string objects, no intern table, no table layers, no tombstones  *)
(* and no collector here.  Tables implements this specification.           *)
(***************************************************************************)
CONSTANTS
  Text

VARIABLES
  strings,    \* the strings the program holds in the stack and in functions
  globals,    \* the value of every global variable, by its name
  stopped     \* did the last operation end in a runtime error?

vars == <<strings, globals, stopped>>

Init ==
  /\ strings = {}
  /\ globals = [t \in {} |-> t]
  /\ stopped = FALSE

\* A literal or a concatenation.
Make(t) ==
  /\ strings' = strings \cup {t}
  /\ stopped' = FALSE
  /\ UNCHANGED globals

Drop(t) ==
  /\ strings' = strings \ {t}
  /\ stopped' = FALSE
  /\ UNCHANGED globals

Define(t, v) ==
  /\ {t, v} \subseteq strings
  /\ globals' = [x \in DOMAIN globals \cup {t} |-> IF x = t THEN v ELSE globals[x]]
  /\ stopped' = FALSE
  /\ UNCHANGED strings

Get(t) ==
  /\ t \in strings
  /\ t \in DOMAIN globals
  /\ strings' = strings \cup {globals[t]}
  /\ stopped' = FALSE
  /\ UNCHANGED globals

Set(t, v) ==
  /\ {t, v} \subseteq strings
  /\ t \in DOMAIN globals
  /\ globals' = [globals EXCEPT ![t] = v]
  /\ stopped' = FALSE
  /\ UNCHANGED strings

\* Reading or assigning a variable that is not defined: the program is over, its
\* globals stay.
Undefined(t) ==
  /\ t \in strings
  /\ t \notin DOMAIN globals
  /\ strings' = {}
  /\ stopped' = TRUE
  /\ UNCHANGED globals

Next ==
  \E t \in Text :
    \/ Make(t)
    \/ Drop(t)
    \/ Get(t)
    \/ Undefined(t)
    \/ \E v \in Text : Define(t, v) \/ Set(t, v)

Spec == Init /\ [][Next]_vars
=============================================================================
