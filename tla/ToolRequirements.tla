--------------------------- MODULE ToolRequirements ---------------------------
(***************************************************************************)
(* check_tool_requirements.py: the versions of the tools are made          *)
(* comparable, each in the way of its tool, and compared with the ones that *)
(* tool_requirements.py asks for.  A version is a sequence of numbers; that *)
(* of VCS is a record of its parts.                                        *)
(***************************************************************************)
EXTENDS Integers, Sequences

None == -1   \* a part that a version does not have

Good(semver) == [ok |-> TRUE, v |-> semver]
Bad          == [ok |-> FALSE, v |-> <<>>]

\* A number of two digits in front of another, as their texts are put together.
digits(n) == IF n < 10 THEN 10 ELSE IF n < 100 THEN 100 ELSE IF n < 1000 THEN 1000 ELSE 10000

vcs_semver(version) ==
  LET sp    == IF version.sp = None THEN 0 ELSE version.sp
      patch == IF version.patch = None THEN 0 ELSE version.patch
      comb  == sp * 100 + patch
  IN  <<version.major, version.minor * digits(comb) + comb>>

\* Only VCS is stricter with the version that is asked for: nothing may follow it.
to_semver(tool, version, from_req) ==
  CASE tool = "vcs" ->
         IF version.suffix /\ from_req THEN Bad ELSE Good(vcs_semver(version))
    [] tool = "verible" -> IF Len(version) = 3 THEN Good(version) ELSE Bad
    [] tool = "vivado" ->
         CASE Len(version) = 3 -> Good(version)
           [] Len(version) = 2 -> Good(Append(version, 0))
           [] OTHER -> Bad
    [] tool = "ninja" -> IF Len(version) >= 3 THEN Good(SubSeq(version, 1, 3)) ELSE Bad
    [] OTHER -> Good(version)

\* packaging's order: parts that are missing are zeros.
older(v, w) ==
  LET at(s, i) == IF i \in DOMAIN s THEN s[i] ELSE 0
  IN  \E i \in 1 .. 4 : at(v, i) < at(w, i) /\ \A j \in 1 .. i - 1 : at(v, j) = at(w, j)

\* The first line that matches, or the last word of the first line; a tool that
\* does not run, or does not say, has no version.
get_version(tool, installed) ==
  IF ~installed.runs \/ installed.output = <<>> THEN Bad
  ELSE LET said == {i \in DOMAIN installed.output : installed.output[i].matches}
       IN  IF tool \in {"vcs", "vivado"}
           THEN IF said = {} THEN Bad
                ELSE Good(installed.output[CHOOSE i \in said : \A j \in said : i <= j].version)
           ELSE Good(installed.output[1].version)

check(tool, min_version, installed) ==
  LET min    == to_semver(tool, min_version, TRUE)
      found  == get_version(tool, installed)
      actual == to_semver(tool, found.v, FALSE)
  IN  min.ok /\ found.ok /\ actual.ok /\ ~older(actual.v, min.v)

-----------------------------------------------------------------------------
\* The requirement of a tool: a version, or a dict with it, which may say that the
\* tool is checked only when it is named.  "absent": the dict has no such key;
\* "wrong": its value has another type.
dict_to_tool_req_ok(raw) ==
  /\ raw.min_version = "good" /\ raw.as_needed # "wrong" /\ ~raw.others

\* Every entry has to be good before any tool is checked.
read_tool_requirements_ok(raw) ==
  \A t \in DOMAIN raw :
    \/ raw[t].kind = "string"
    \/ raw[t].kind = "dict" /\ dict_to_tool_req_ok(raw[t])

as_needed(raw, t) == raw[t].kind = "dict" /\ raw[t].as_needed = "true"

\* Mutant: what is needed only sometimes is never checked.
checked_Never(named, raw) == {t \in DOMAIN raw : ~as_needed(raw, t)}

checked(named, raw) == {t \in DOMAIN raw : ~as_needed(raw, t) \/ t \in named}

\* The exit status: tools that are too old, or named and not known, are errors.
main(named, raw, installed) ==
  IF /\ read_tool_requirements_ok(raw)
     /\ \A t \in checked(named, raw) : check(t, raw[t].version, installed[t])
     /\ named \subseteq DOMAIN raw
  THEN 0 ELSE 1
=============================================================================
