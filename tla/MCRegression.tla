----------------------------- MODULE MCRegression -----------------------------
(***************************************************************************)
(* Two tests, one of the generator and one directed, and one simulation of *)
(* each kind.                                                              *)
(***************************************************************************)
EXTENDS Regression

CONSTANTS random, directed

MCTests    == {random, directed}
MCDirected == {directed}

Sim(started, killed, log, trace) ==
  [started |-> started, killed |-> killed, exists |-> started, log |-> log, trace |-> trace]

good     == Sim(TRUE, FALSE, <<"plain", "passed">>, <<"instr", "ecall">>)
bad      == Sim(TRUE, FALSE, <<"error", "failed">>, <<"instr">>)
warnings == Sim(TRUE, FALSE, <<"plain", "failed">>, <<"instr">>)
aborted  == Sim(TRUE, FALSE, <<"plain">>, <<"instr">>)
killed   == Sim(TRUE, TRUE, <<"plain", "passed">>, <<"instr", "ecall">>)
absent   == Sim(FALSE, FALSE, <<>>, <<>>)

MCOutcomes == [t \in MCTests |-> IF t = random THEN {good, warnings, killed, absent}
                                 ELSE {good, bad, aborted}]
=============================================================================
