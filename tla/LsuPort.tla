------------------------------- MODULE LsuPort -------------------------------
(***************************************************************************)
(* What the pipeline sees of the load/store unit: an access is requested,  *)
(* is done when its last part is granted, and is answered once, at the     *)
(* earliest one cycle later.  LoadStoreUnit is shown to keep to it; the    *)
(* pipeline is checked with nothing but this port in place of the unit.    *)
(***************************************************************************)

VARIABLES
  lsu_busy,   \* an access has been requested and is not done (LSU not IDLE)
  lsu_owed    \* type of the access that is done and not answered

portVars == <<lsu_busy, lsu_owed>>

AccessType == {"load", "store"}

\* "both" marks a second access done while an answer is owed: no unit that
\* remembers one access at a time could answer it.
Owed == {"none", "both"} \cup AccessType

Response == {"none", "ok", "error"}

\* The answers that may come in this cycle.
Responses == IF lsu_owed \in AccessType /\ ~lsu_busy THEN Response ELSE {"none"}

PortInit == lsu_busy = FALSE /\ lsu_owed = "none"

\* One clock edge: req asks for an access of this type, done says that its last
\* part is granted, resp is the answer to the access before it.
PortCycle(req, type, done, resp) ==
  LET active  == req \/ lsu_busy
      stillOwed == lsu_owed # "none" /\ resp = "none"
  IN  /\ lsu_busy' = (active /\ ~done)
      /\ lsu_owed' = IF ~(active /\ done)
                       THEN IF stillOwed THEN lsu_owed ELSE "none"
                     ELSE IF stillOwed THEN "both"
                     ELSE type
=============================================================================
