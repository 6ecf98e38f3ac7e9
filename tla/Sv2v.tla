--------------------------------- MODULE Sv2v ---------------------------------
(***************************************************************************)
(* sv2v_in_place.py converts a list of SystemVerilog sources to Verilog,   *)
(* where they are.  Every file is converted into a temporary directory     *)
(* first; they are copied back when all of them are there, and at last the *)
(* headers are emptied.  The script can end anywhere, and fail anywhere.    *)
(***************************************************************************)
EXTENDS Naturals

\* A file of the list has a name and a kind, "sv", "pkg" (of names that end in
\* pkg.sv), "svh" or "other", and includes the headers that it names.  These are
\* the places of each kind in the list.
sv_paths(list)  == {i \in DOMAIN list : list[i].kind \in {"sv", "pkg"}}
svh_paths(list) == {i \in DOMAIN list : list[i].kind = "svh"}
pkg_paths(list) == {i \in DOMAIN list : list[i].kind = "pkg"}

names(list, at) == {list[i].name : i \in at}

\* What sv2v is given for one file: the packages, and the file if it is not one.
transform_one(list, i) == pkg_paths(list) \cup {i}

\* A conversion needs all that it reads as it was.
reads(list, i) ==
  names(list, transform_one(list, i)) \cup UNION {list[j].includes : j \in transform_one(list, i)}

-----------------------------------------------------------------------------
Step(op, at) == [op |-> op, at |-> at]

transform(sv) == {Step(op, i) : op \in {"convert", "copy"}, i \in sv}

\* The steps of the script.
steps(list) == transform(sv_paths(list)) \cup {Step("empty", i) : i \in svh_paths(list)}

\* Mutant: each file is copied back when it has been converted.
earlier_Each(a, b) ==
  \/ a.op # "empty" /\ b.op = "empty"
  \/ (a.op = "empty" <=> b.op = "empty") /\ a.at < b.at
  \/ a.op = "convert" /\ b.op = "copy" /\ a.at = b.at

\* Their order: first one loop, then the other, then the headers.
earlier(a, b) ==
  \/ a.op = "convert" /\ b.op # "convert"
  \/ a.op = "copy" /\ b.op = "empty"
  \/ a.op = b.op /\ a.at < b.at

next_step(list, done) ==
  {step \in steps(list) \ done : \A other \in (steps(list) \ done) \ {step} : earlier(step, other)}

\* "done" are the steps that have written something, "changed" the files that are no
\* longer what they were, "tmp" the places of those that have been converted.
Started == [done |-> {}, changed |-> {}, tmp |-> {}, status |-> "runs"]

\* What the disk makes of a step: a file may not be written, and one that is copied
\* back may be cut off.
outcomes(step) == {"good", "none"} \cup (IF step.op = "copy" THEN {"part"} ELSE {})

\* A conversion fails on the files in "broken", and when it reads what is no longer
\* what it was.  Whatever fails ends the script, and what was done by then stays.
run_step(list, broken, s, step, disk) ==
  LET name  == list[step.at].name
      bad   == name \in broken \/ reads(list, step.at) \cap s.changed # {}
      fails == disk = "none" \/ (step.op = "convert" /\ bad)
  IN  CASE fails -> [s EXCEPT !.status = "failed"]
        [] ~fails /\ step.op = "convert" ->
             [s EXCEPT !.done = @ \cup {step}, !.tmp = @ \cup {step.at}]
        [] OTHER -> [s EXCEPT !.done = @ \cup {step}, !.changed = @ \cup {name},
                              !.status = IF disk = "part" THEN "failed" ELSE @]
=============================================================================
