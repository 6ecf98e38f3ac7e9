----------------------------- MODULE MetadataLock -----------------------------
(***************************************************************************)
(* The scripts of a regression that change metadata.pickle, inside of      *)
(* "with LockedMetadata(...)", and those that read it, without the lock.   *)
(* make runs them at the same time, as far as the files they make do not   *)
(* depend on one another.                                                  *)
(***************************************************************************)
EXTENDS Naturals, FiniteSets

CONSTANTS Scripts,
          Does,       \* what each does with the metadata: reads, locks, sets, runs
          Before,     \* the scripts that make waits for before it starts one
          MaxKills    \* bound: scripts that are killed

Lockers == {s \in Scripts : Does[s].locks}
Fields  == [s \in Lockers |-> Does[s].sets]

ASSUME MetadataLockAssumption ==
  /\ \A s \in Scripts : {Does[s].reads, Does[s].locks, Does[s].runs} \subseteq BOOLEAN
  /\ Before \in [Scripts -> SUBSET Scripts] /\ MaxKills \in Nat
  /\ \A s \in Lockers : "torn" \notin Fields[s] /\ s # "no one"

VARIABLES
  file,    \* the fields in the pickle, or Torn
  lock,    \* who has the lock, or NoOne
  pc,      \* where each script is
  md,      \* the object each script has loaded
  raised,  \* the scripts whose body has raised
  kills

vars == <<file, lock, pc, md, raised, kills>>

NoOne == "no one"
Torn  == {"torn"}
None  == {}

AllFields == UNION {Fields[s] : s \in Lockers}

Init == /\ file = None /\ lock = NoOne /\ pc = [s \in Scripts |-> "start"]
        /\ md = [s \in Scripts |-> None] /\ raised = {} /\ kills = 0

\* A script that ends leaves the lock to the others.
Leave(s, state) == /\ pc' = [pc EXCEPT ![s] = state]
                   /\ lock' = IF lock = s THEN NoOne ELSE lock

Starts(s) == pc[s] = "start" /\ \A b \in Before[s] : pc[b] = "done"

\* construct_from_metadata_dir: no lock, and a truncated file is an EOFError.
Read(s) ==
  /\ Starts(s) /\ Does[s].reads
  /\ IF file = Torn THEN pc' = [pc EXCEPT ![s] = "failed"] /\ UNCHANGED md
     ELSE /\ md' = [md EXCEPT ![s] = file]
          /\ pc' = [pc EXCEPT ![s] = IF Does[s].locks THEN "opened" ELSE "commands"]
  /\ UNCHANGED <<file, lock, raised, kills>>

\* The alarm of five seconds runs from here to the end of the load.
Open(s) ==
  /\ Starts(s) /\ ~Does[s].reads /\ s \in Lockers
  /\ pc' = [pc EXCEPT ![s] = "opened"] /\ UNCHANGED <<file, lock, md, raised, kills>>

\* Mutant: the lock is a shared one.
Lock_Shared(s) ==
  /\ pc[s] = "opened" /\ lock' = s
  /\ pc' = [pc EXCEPT ![s] = "locked"] /\ UNCHANGED <<file, md, raised, kills>>

Lock(s) ==
  /\ pc[s] = "opened" /\ lock = NoOne /\ lock' = s
  /\ pc' = [pc EXCEPT ![s] = "locked"] /\ UNCHANGED <<file, md, raised, kills>>

\* Mutant: who has waited for too long tries again.
Alarm_Retry(s) ==
  /\ pc[s] \in {"opened", "locked"} /\ Leave(s, "opened")
  /\ UNCHANGED <<file, md, raised, kills>>

Alarm(s) ==
  /\ pc[s] \in {"opened", "locked"} /\ Leave(s, "failed")
  /\ UNCHANGED <<file, md, raised, kills>>

\* Mutant: what is torn is loaded as it is.
Load_Raw(s) ==
  /\ pc[s] = "locked" /\ md' = [md EXCEPT ![s] = file] /\ pc' = [pc EXCEPT ![s] = "body"]
  /\ UNCHANGED <<file, lock, raised, kills>>

Load(s) ==
  /\ pc[s] = "locked"
  /\ IF file = Torn THEN Leave(s, "failed") /\ UNCHANGED md
     ELSE md' = [md EXCEPT ![s] = file] /\ pc' = [pc EXCEPT ![s] = "body"] /\ UNCHANGED lock
  /\ UNCHANGED <<file, raised, kills>>

\* The body sets the fields of its script, or raises when it has set some of them.
Body(s) ==
  /\ pc[s] = "body" /\ pc' = [pc EXCEPT ![s] = "exit"]
  /\ \/ md' = [md EXCEPT ![s] = @ \cup Fields[s]] /\ UNCHANGED raised
     \/ \E f \in SUBSET Fields[s] : md' = [md EXCEPT ![s] = @ \cup f] /\ raised' = raised \cup {s}
  /\ UNCHANGED <<file, lock, kills>>

\* Mutant: the lock is left before the export.
Truncate_Unlocked(s) ==
  /\ pc[s] = "exit" /\ Leave(s, "export") /\ file' = Torn /\ UNCHANGED <<md, raised, kills>>

\* __exit__ exports, whether the body raised or not, and unlocks; the pickle is
\* truncated before it is written.
Truncate(s) ==
  /\ pc[s] = "exit" /\ pc' = [pc EXCEPT ![s] = "export"]
  /\ file' = Torn /\ UNCHANGED <<lock, md, raised, kills>>

Dump(s) ==
  /\ pc[s] = "export" /\ pc' = [pc EXCEPT ![s] = "unlock"]
  /\ file' = md[s] /\ UNCHANGED <<lock, md, raised, kills>>

Unlock(s) ==
  /\ pc[s] = "unlock" /\ Leave(s, IF s \in raised THEN "failed" ELSE "commands")
  /\ UNCHANGED <<file, md, raised, kills>>

\* The commands are those of the object in memory.
Run(s) ==
  /\ pc[s] = "commands"
  /\ \E end \in {"done"} \cup (IF Does[s].runs THEN {"failed"} ELSE {}) :
       pc' = [pc EXCEPT ![s] = end]
  /\ UNCHANGED <<file, lock, md, raised, kills>>

\* A script is killed; the system unlocks what it had locked.
Kill(s) ==
  /\ pc[s] \notin {"start", "done", "failed"} /\ kills < MaxKills /\ kills' = kills + 1
  /\ Leave(s, "failed") /\ UNCHANGED <<file, md, raised>>

Step(s) == \/ Open(s) \/ Lock(s) \/ Alarm(s) \/ Load(s) \/ Body(s) \/ Truncate(s) \/ Dump(s)
           \/ Unlock(s) \/ Run(s) \/ Read(s)

Next == \E s \in Scripts : Step(s) \/ Kill(s)

\* Every script goes on; the lock goes to each that waits, or its alarm rings.
Spec == Init /\ [][Next]_vars /\ \A s \in Scripts : WF_vars(Step(s))

-----------------------------------------------------------------------------
TypeOK ==
  /\ file \in (SUBSET AllFields) \cup {Torn} /\ lock \in Lockers \cup {NoOne}
  /\ pc \in [Scripts -> {"start", "opened", "locked", "body", "exit", "export", "unlock",
                         "commands", "done", "failed"}]
  /\ md \in [Scripts -> SUBSET AllFields] /\ raised \subseteq Lockers /\ kills \in 0 .. MaxKills

\* No update is lost: the fields of every script that has committed them are in the
\* file, whoever wrote it since, and also when the body of that one raised.
\* (metadata.py:501)
Committed(s) == s \in Lockers \ raised /\ pc[s] \in {"unlock", "commands", "done"}

NoLostUpdate == \A s \in Scripts : Committed(s) /\ file # Torn => Fields[s] \subseteq file

\* The file is torn only while the owner of the lock exports, or since one was
\* killed at that: who loads it under the lock finds it whole.
TornOnlyInExport ==
  file = Torn => kills > 0 \/ (lock # NoOne /\ pc[lock] = "export")

Exporting == {s \in Lockers : pc[s] = "export"}
Contents  == IF file # Torn THEN file ELSE UNION {md[s] : s \in Exporting}
Destroyed == file = Torn /\ Exporting = {}

\* For a locker and all that read it later the metadata is a store with atomic
\* updates: an update takes place when the file is truncated.
Store == INSTANCE MetadataStore
  WITH Scripts <- Lockers, db <- Contents, lost <- Destroyed

ImplementsMetadataStore == Store!Spec

\* No script waits for ever for the lock, whoever has it and however often: one
\* that opens the file for it comes to its end. (metadata.py:522)
EveryoneEnds == \A s \in Scripts : pc[s] = "opened" ~> pc[s] \in {"done", "failed"}
=============================================================================
