--------------------------- MODULE MCSendMessage ----------------------------
(* Instances of SendMessage. *)
EXTENDS SendMessage

CONSTANTS editor, desktop, server

\* The editor sends twice, the others send or post once.
Budget == [t \in Threads |-> IF t = editor THEN 2 ELSE 1]

\* The desktop sends nothing: it is a dialog that looks with PM_NOREMOVE, or
\* its window goes away.
Twice == [t \in Threads |-> IF t = desktop THEN 0 ELSE 2]
Once == [t \in Threads |-> IF t = desktop THEN 0 ELSE 1]
=============================================================================
