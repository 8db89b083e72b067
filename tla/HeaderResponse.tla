--------------------------- MODULE HeaderResponse ---------------------------
(***************************************************************************)
(* What the response-header callback of src/src/ds3.c promises the rest    *)
(* of the client, stated without lines, tokens or hash tables: the         *)
(* response data first learns the final status code, then the header      *)
(* fields one at a time (a later value for a name replaces the earlier     *)
(* one), and is finally complete, unless the transfer fails first.        *)
(* HeaderParser is shown to implement it.                                  *)
(***************************************************************************)
CONSTANTS
  FinalCodes,  \* the status codes that may be recorded
  Names,       \* header field names
  Values,      \* header field values
  NoValue      \* a name with no value

VARIABLES
  rstate,      \* "await_status", "fields", "complete" or "failed"
  code,        \* the recorded status code, 0 before there is one
  table        \* the value recorded for each name

vars == <<rstate, code, table>>

Init ==
  /\ rstate = "await_status"
  /\ code = 0
  /\ table = [n \in Names |-> NoValue]

\* the final response's status line is recorded
RecordStatus(c) ==
  /\ rstate = "await_status"
  /\ rstate' = "fields" /\ code' = c
  /\ UNCHANGED table

\* one header field of that response is recorded, replacing any earlier
\* value of its name
RecordField(n, v) ==
  /\ rstate = "fields"
  /\ table' = [table EXCEPT ![n] = v]
  /\ UNCHANGED <<rstate, code>>

\* the header block is complete
Complete ==
  /\ rstate = "fields"
  /\ rstate' = "complete"
  /\ UNCHANGED <<code, table>>

\* the transfer is given up before it is complete
Fail ==
  /\ rstate \in {"await_status", "fields"}
  /\ rstate' = "failed"
  /\ UNCHANGED <<code, table>>

Next ==
  \/ \E c \in FinalCodes : RecordStatus(c)
  \/ \E n \in Names, v \in Values : RecordField(n, v)
  \/ Complete
  \/ Fail

Spec == Init /\ [][Next]_vars

=============================================================================
