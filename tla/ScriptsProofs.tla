----------------------------- MODULE ScriptsProofs -----------------------------
(* What holds of the scripts beside the regression itself: that the lock keeps *)
(* the metadata for any scripts, any order and any kills, and what the         *)
(* algorithms make of any input.                                               *)
EXTENDS MetadataLock, ScriptTasks, FiniteSetTheorems, SequenceTheorems, WellFoundedInduction, TLAPS

-----------------------------------------------------------------------------
Holding == {"locked", "body", "exit", "export", "unlock"}
Loaded  == {"body", "exit", "export"}

\* One script at a time is between the lock and the unlock.
OneHolder ==
  /\ \A s \in Scripts : pc[s] \in Holding => lock = s
  /\ lock # NoOne => pc[lock] \in Holding
  /\ \A s \in Scripts : pc[s] \in Holding \cup {"opened"} => s \in Lockers

\* What it has loaded has all that was committed, and its own fields from the end
\* of the body on.
LoadedAll ==
  \A t \in Scripts : pc[t] \in Loaded =>
    \A s \in Scripts : Committed(s) => Fields[s] \subseteq md[t]

OwnFieldsSet ==
  \A t \in Lockers \ raised : pc[t] \in {"exit", "export"} => Fields[t] \subseteq md[t]

LockInv == /\ TypeOK /\ OneHolder /\ LoadedAll /\ OwnFieldsSet
           /\ NoLostUpdate /\ TornOnlyInExport

-----------------------------------------------------------------------------
LEMMA LockersTypes ==
  /\ Lockers \subseteq Scripts
  /\ NoOne \notin Lockers
  /\ "torn" \notin AllFields
  /\ \A s \in Lockers : Fields[s] \subseteq AllFields
  /\ MaxKills \in Nat
<1>1. \A s \in Lockers : "torn" \notin Fields[s] /\ s # "no one"
  BY MetadataLockAssumption
<1>2. QED
  BY <1>1, MetadataLockAssumption DEF Lockers, NoOne, AllFields

\* A whole pickle is not a torn one.
LEMMA WholeIsNotTorn == \A f \in SUBSET AllFields : f # Torn
  BY LockersTypes DEF Torn

LEMMA NotTornIsWhole == ASSUME TypeOK, file # Torn PROVE file \in SUBSET AllFields
<1>1. file \in SUBSET AllFields \/ file \in {Torn}
  BY DEF TypeOK
<1>2. QED
  BY <1>1

States == {"start", "opened", "locked", "body", "exit", "export", "unlock",
           "commands", "done", "failed"}

\* A step moves one script.
LEMMA OneMoves ==
  ASSUME TypeOK, NEW s \in Scripts, NEW state \in States, pc' = [pc EXCEPT ![s] = state]
  PROVE  pc' \in [Scripts -> States] /\ pc'[s] = state
         /\ \A t \in Scripts \ {s} : pc'[t] = pc[t]
  BY DEF TypeOK, States

\* Who ends has the lock no longer, and nobody else loses it.
LEMMA LeaveEnds ==
  ASSUME TypeOK, OneHolder, NEW s \in Scripts, NEW state \in {"failed", "commands"},
         Leave(s, state)
  PROVE  /\ OneHolder' /\ lock' \in Lockers \cup {NoOne}
         /\ pc' \in [Scripts -> States] /\ pc'[s] = state
         /\ \A t \in Scripts \ {s} : pc'[t] = pc[t]
<1>1. lock' = IF lock = s THEN NoOne ELSE lock
  BY DEF Leave
<1>2. pc' \in [Scripts -> States] /\ pc'[s] = state /\ \A t \in Scripts \ {s} : pc'[t] = pc[t]
  <2>1. state \in States /\ pc' = [pc EXCEPT ![s] = state]
    BY DEF States, Leave
  <2>2. QED
    BY <2>1, OneMoves
<1>3. lock \in Lockers \cup {NoOne}
  BY DEF TypeOK
<1>4. \A t \in Scripts : pc'[t] \in Holding => lock' = t
  BY <1>1, <1>2 DEF OneHolder, Holding
<1>5. lock' # NoOne => pc'[lock'] \in Holding
  BY <1>1, <1>2, <1>3, LockersTypes DEF OneHolder
<1>6. \A t \in Scripts : pc'[t] \in Holding \cup {"opened"} => t \in Lockers
  BY <1>2 DEF OneHolder, Holding
<1>7. QED
  BY <1>1, <1>2, <1>3, <1>4, <1>5, <1>6 DEF OneHolder

\* A script that moves, commits nothing and loads nothing.
LEMMA NothingNew ==
  ASSUME LockInv, NEW s \in Scripts, UNCHANGED <<file, md, raised>>,
         \A t \in Scripts \ {s} : pc'[t] = pc[t],
         Committed(s)' => Committed(s),
         pc'[s] \in {"start", "opened", "locked", "unlock", "commands", "done", "failed"}
  PROVE  LoadedAll' /\ OwnFieldsSet' /\ NoLostUpdate'
<1>1. \A t \in Scripts : Committed(t)' => Committed(t)
  BY DEF Committed
<1>2. LoadedAll'
  BY <1>1 DEF LockInv, LoadedAll, Loaded
<1>3. OwnFieldsSet'
  BY LockersTypes DEF LockInv, OwnFieldsSet
<1>4. NoLostUpdate'
  BY <1>1 DEF LockInv, NoLostUpdate
<1>5. QED
  BY <1>2, <1>3, <1>4

LEMMA InvInit == Init => LockInv
<1> SUFFICES ASSUME Init PROVE LockInv
  OBVIOUS
<1>1. TypeOK
  BY LockersTypes DEF Init, TypeOK, None
<1>2. \A s \in Scripts : pc[s] = "start"
  BY DEF Init
<1>3. OneHolder
  BY <1>2 DEF Init, OneHolder, Holding
<1>4. LoadedAll /\ OwnFieldsSet
  BY <1>2, LockersTypes DEF LoadedAll, OwnFieldsSet, Loaded
<1>5. NoLostUpdate
  BY <1>2 DEF NoLostUpdate, Committed
<1>6. TornOnlyInExport
  BY WholeIsNotTorn DEF Init, TornOnlyInExport, None
<1>7. QED
  BY <1>1, <1>3, <1>4, <1>5, <1>6 DEF LockInv
-----------------------------------------------------------------------------
(* Each step of a script keeps the invariant. *)

LEMMA StartKeeps ==
  ASSUME LockInv, NEW s \in Scripts, Read(s) \/ Open(s) PROVE LockInv'
<1>1. PICK state \in {"opened", "commands", "failed"} :
        pc' = [pc EXCEPT ![s] = state] /\ (state = "opened" => s \in Lockers)
                                       /\ (state = "commands" => s \notin Lockers)
  BY DEF Read, Open, Lockers
<1>2. pc[s] = "start" /\ UNCHANGED <<file, lock, raised, kills>>
  BY DEF Read, Open, Starts
<1>3. pc' \in [Scripts -> States] /\ pc'[s] = state /\ \A t \in Scripts \ {s} : pc'[t] = pc[t]
  <2>1. TypeOK /\ state \in States
    BY DEF LockInv, States
  <2>2. QED
    BY <1>1, <2>1, OneMoves
<1>4. md' \in [Scripts -> SUBSET AllFields] /\ \A t \in Scripts \ {s} : md'[t] = md[t]
  <2>1. md \in [Scripts -> SUBSET AllFields] /\ file \in (SUBSET AllFields) \cup {Torn}
    BY DEF LockInv, TypeOK
  <2>2. CASE UNCHANGED md
    BY <2>1, <2>2
  <2>3. CASE file # Torn /\ md' = [md EXCEPT ![s] = file]
    <3>1. file \in SUBSET AllFields
      BY <2>3, NotTornIsWhole DEF LockInv
    <3>2. QED
      BY <2>1, <2>3, <3>1
  <2>4. QED
    BY <2>2, <2>3 DEF Read, Open
<1>5. TypeOK'
  BY <1>2, <1>3, <1>4 DEF LockInv, TypeOK, States
<1>6. OneHolder'
  <2>1. lock # NoOne => lock # s
    BY <1>2 DEF LockInv, OneHolder, Holding
  <2>2. lock' # NoOne => lock' \in Scripts \ {s}
    BY <1>2, <2>1, LockersTypes DEF LockInv, TypeOK
  <2>3. pc'[s] \notin Holding
    BY <1>3 DEF Holding
  <2>4. QED
    BY <1>1, <1>2, <1>3, <2>2, <2>3 DEF LockInv, OneHolder
<1>7. \A t \in Scripts : Committed(t)' => Committed(t)
  BY <1>1, <1>2, <1>3 DEF Committed
<1>8. LoadedAll' /\ OwnFieldsSet'
  BY <1>2, <1>3, <1>4, <1>7, LockersTypes DEF LockInv, LoadedAll, OwnFieldsSet, Loaded
<1>9. NoLostUpdate'
  BY <1>2, <1>7 DEF LockInv, NoLostUpdate
<1>10. TornOnlyInExport'
  BY <1>2, <1>3, LockersTypes DEF LockInv, TornOnlyInExport, TypeOK
<1>11. QED
  BY <1>5, <1>6, <1>8, <1>9, <1>10 DEF LockInv

LEMMA LockKeeps ==
  ASSUME LockInv, NEW s \in Scripts, Lock(s) PROVE LockInv'
<1>1. pc[s] = "opened" /\ lock = NoOne /\ lock' = s /\ UNCHANGED <<file, md, raised, kills>>
  BY DEF Lock
<1>2. pc' \in [Scripts -> States] /\ pc'[s] = "locked" /\ \A t \in Scripts \ {s} : pc'[t] = pc[t]
  <2>1. TypeOK /\ "locked" \in States
    BY DEF LockInv, States
  <2>2. QED
    BY <2>1, OneMoves DEF Lock
<1>3. s \in Lockers
  BY <1>1 DEF LockInv, OneHolder
<1>4. TypeOK'
  BY <1>1, <1>2, <1>3 DEF LockInv, TypeOK, States
<1>5. OneHolder'
  <2>1. \A t \in Scripts : pc[t] \notin Holding
    BY <1>1, LockersTypes DEF LockInv, OneHolder
  <2>2. \A t \in Scripts \ {s} : pc'[t] \notin Holding
    BY <1>2, <2>1
  <2>3. pc'[s] \in Holding
    BY <1>2 DEF Holding
  <2>4. QED
    BY <1>1, <1>2, <1>3, <2>2, <2>3 DEF LockInv, OneHolder
<1>6. LoadedAll' /\ OwnFieldsSet' /\ NoLostUpdate'
  <2>1. Committed(s)' => Committed(s)
    BY <1>2 DEF Committed
  <2>2. QED
    BY <1>1, <1>2, <2>1, NothingNew
<1>7. TornOnlyInExport'
  BY <1>1 DEF LockInv, TornOnlyInExport
<1>8. QED
  BY <1>4, <1>5, <1>6, <1>7 DEF LockInv

\* Who ends anywhere: by its alarm, because it cannot load, after its export, or killed.
LEMMA EndKeeps ==
  ASSUME LockInv, NEW s \in Scripts, NEW state \in {"failed", "commands"}, Leave(s, state),
         UNCHANGED <<file, md, raised>>, kills' \in 0 .. MaxKills, kills' >= kills,
         pc[s] = "export" => kills' > 0,
         state = "commands" => s \notin raised /\ pc[s] = "unlock"
  PROVE  LockInv'
<1>1. /\ OneHolder' /\ lock' \in Lockers \cup {NoOne}
      /\ pc' \in [Scripts -> States] /\ pc'[s] = state
      /\ \A t \in Scripts \ {s} : pc'[t] = pc[t]
  BY LeaveEnds DEF LockInv
<1>2. TypeOK'
  BY <1>1 DEF LockInv, TypeOK, States
<1>3. LoadedAll' /\ OwnFieldsSet' /\ NoLostUpdate'
  <2>1. Committed(s)' => Committed(s)
    BY <1>1 DEF Committed
  <2>2. QED
    BY <1>1, <2>1, NothingNew
<1>4. TornOnlyInExport'
  <2>1. SUFFICES ASSUME file' = Torn, ~(kills' > 0)
                 PROVE  lock' # NoOne /\ pc'[lock'] = "export"
    BY DEF TornOnlyInExport
  <2>2. kills \in 0 .. MaxKills /\ ~(kills > 0)
    BY <2>1, LockersTypes DEF LockInv, TypeOK
  <2>3. lock # NoOne /\ pc[lock] = "export"
    BY <2>1, <2>2 DEF LockInv, TornOnlyInExport
  <2>4. lock # s
    BY <2>1, <2>3
  <2>5. lock' = lock /\ lock \in Scripts \ {s}
    BY <2>3, <2>4, LockersTypes DEF Leave, LockInv, TypeOK
  <2>6. QED
    BY <1>1, <2>3, <2>5
<1>5. QED
  BY <1>1, <1>2, <1>3, <1>4 DEF LockInv
LEMMA LoadKeeps ==
  ASSUME LockInv, NEW s \in Scripts, Load(s), file # Torn PROVE LockInv'
<1>1. /\ pc[s] = "locked" /\ md' = [md EXCEPT ![s] = file]
      /\ UNCHANGED <<file, lock, raised, kills>>
  BY DEF Load
<1>2. pc' \in [Scripts -> States] /\ pc'[s] = "body" /\ \A t \in Scripts \ {s} : pc'[t] = pc[t]
  <2>1. TypeOK /\ "body" \in States
    BY DEF LockInv, States
  <2>2. QED
    BY <2>1, OneMoves DEF Load
<1>3. /\ md' \in [Scripts -> SUBSET AllFields] /\ md'[s] = file
      /\ \A t \in Scripts \ {s} : md'[t] = md[t]
  <2>1. md \in [Scripts -> SUBSET AllFields] /\ file \in SUBSET AllFields
    BY NotTornIsWhole DEF LockInv, TypeOK
  <2>2. QED
    BY <1>1, <2>1
<1>4. TypeOK'
  BY <1>1, <1>2, <1>3 DEF LockInv, TypeOK, States
<1>5. OneHolder'
  BY <1>1, <1>2 DEF LockInv, OneHolder, Holding
<1>6. \A t \in Scripts : Committed(t)' => Committed(t)
  BY <1>1, <1>2 DEF Committed
<1>7. LoadedAll'
  <2>1. SUFFICES ASSUME NEW t \in Scripts, pc'[t] \in Loaded, NEW u \in Scripts, Committed(u)'
                 PROVE  Fields[u] \subseteq md'[t]
    BY DEF LoadedAll
  <2>2. CASE t = s
    BY <1>3, <1>6, <2>1, <2>2 DEF LockInv, NoLostUpdate
  <2>3. CASE t # s
    BY <1>2, <1>3, <1>6, <2>1, <2>3 DEF LockInv, LoadedAll
  <2>4. QED
    BY <2>2, <2>3
<1>8. OwnFieldsSet'
  BY <1>1, <1>2, <1>3, LockersTypes DEF LockInv, OwnFieldsSet
<1>9. NoLostUpdate'
  BY <1>1, <1>6 DEF LockInv, NoLostUpdate
<1>10. TornOnlyInExport'
  BY <1>1 DEF TornOnlyInExport
<1>11. QED
  BY <1>4, <1>5, <1>7, <1>8, <1>9, <1>10 DEF LockInv

LEMMA BodyKeeps ==
  ASSUME LockInv, NEW s \in Scripts, Body(s) PROVE LockInv'
<1>1. pc[s] = "body" /\ s \in Lockers /\ UNCHANGED <<file, lock, kills>>
  BY DEF Body, LockInv, OneHolder, Holding
<1>2. pc' \in [Scripts -> States] /\ pc'[s] = "exit" /\ \A t \in Scripts \ {s} : pc'[t] = pc[t]
  <2>1. TypeOK /\ "exit" \in States
    BY DEF LockInv, States
  <2>2. QED
    BY <2>1, OneMoves DEF Body
<1>3. PICK f \in SUBSET Fields[s] :
        /\ md' = [md EXCEPT ![s] = @ \cup f]
        /\ \/ f = Fields[s] /\ raised' = raised
           \/ raised' = raised \cup {s}
  BY DEF Body
<1>4. /\ md' \in [Scripts -> SUBSET AllFields] /\ md'[s] = md[s] \cup f
      /\ \A t \in Scripts \ {s} : md'[t] = md[t]
  <2>1. md \in [Scripts -> SUBSET AllFields] /\ f \subseteq AllFields
    BY <1>1, LockersTypes DEF LockInv, TypeOK
  <2>2. QED
    BY <1>3, <2>1
<1>5. TypeOK'
  BY <1>1, <1>2, <1>3, <1>4 DEF LockInv, TypeOK, States
<1>6. OneHolder'
  BY <1>1, <1>2 DEF LockInv, OneHolder, Holding
<1>7. \A t \in Scripts : Committed(t)' => Committed(t)
  BY <1>1, <1>2, <1>3 DEF Committed
<1>8. LoadedAll'
  <2>1. \A t \in Scripts : md[t] \subseteq md'[t]
    BY <1>4
  <2>2. \A t \in Scripts : pc'[t] \in Loaded => pc[t] \in Loaded
    BY <1>1, <1>2 DEF Loaded
  <2>3. QED
    BY <1>7, <2>1, <2>2 DEF LockInv, LoadedAll
<1>9. OwnFieldsSet'
  <2>1. SUFFICES ASSUME NEW t \in Lockers \ raised', pc'[t] \in {"exit", "export"}
                 PROVE  Fields[t] \subseteq md'[t]
    BY DEF OwnFieldsSet
  <2>2. CASE t = s
    BY <1>3, <1>4, <2>1, <2>2
  <2>3. CASE t # s
    BY <1>2, <1>3, <1>4, <2>1, <2>3, LockersTypes DEF LockInv, OwnFieldsSet
  <2>4. QED
    BY <2>2, <2>3
<1>10. NoLostUpdate'
  BY <1>1, <1>7 DEF LockInv, NoLostUpdate
<1>11. TornOnlyInExport'
  BY <1>1, <1>2, LockersTypes DEF LockInv, TornOnlyInExport, TypeOK, OneHolder, Holding
<1>12. QED
  BY <1>5, <1>6, <1>8, <1>9, <1>10, <1>11 DEF LockInv

LEMMA TruncateKeeps ==
  ASSUME LockInv, NEW s \in Scripts, Truncate(s) PROVE LockInv'
<1>1. pc[s] = "exit" /\ file' = Torn /\ UNCHANGED <<lock, md, raised, kills>>
  BY DEF Truncate
<1>2. pc' \in [Scripts -> States] /\ pc'[s] = "export" /\ \A t \in Scripts \ {s} : pc'[t] = pc[t]
  <2>1. TypeOK /\ "export" \in States
    BY DEF LockInv, States
  <2>2. QED
    BY <2>1, OneMoves DEF Truncate
<1>3. lock = s /\ s \in Lockers
  BY <1>1 DEF LockInv, OneHolder, Holding
<1>4. TypeOK'
  <2>1. file' \in {Torn}
    BY <1>1
  <2>2. file' \in (SUBSET AllFields) \cup {Torn}
    BY <2>1
  <2>3. QED
    BY <1>1, <1>2, <2>2 DEF LockInv, TypeOK, States
<1>5. OneHolder'
  BY <1>1, <1>2 DEF LockInv, OneHolder, Holding
<1>6. \A t \in Scripts : Committed(t)' => Committed(t)
  BY <1>1, <1>2 DEF Committed
<1>7. LoadedAll' /\ OwnFieldsSet'
  BY <1>1, <1>2, <1>6, LockersTypes DEF LockInv, LoadedAll, OwnFieldsSet, Loaded
<1>8. NoLostUpdate' /\ TornOnlyInExport'
  BY <1>1, <1>2, <1>3, LockersTypes DEF NoLostUpdate, TornOnlyInExport
<1>9. QED
  BY <1>4, <1>5, <1>7, <1>8 DEF LockInv

LEMMA DumpKeeps ==
  ASSUME LockInv, NEW s \in Scripts, Dump(s) PROVE LockInv'
<1>1. pc[s] = "export" /\ file' = md[s] /\ UNCHANGED <<lock, md, raised, kills>>
  BY DEF Dump
<1>2. pc' \in [Scripts -> States] /\ pc'[s] = "unlock" /\ \A t \in Scripts \ {s} : pc'[t] = pc[t]
  <2>1. TypeOK /\ "unlock" \in States
    BY DEF LockInv, States
  <2>2. QED
    BY <2>1, OneMoves DEF Dump
<1>3. lock = s /\ \A t \in Scripts \ {s} : pc[t] \notin Holding
  BY <1>1 DEF LockInv, OneHolder, Holding
<1>4. file' \in SUBSET AllFields
  BY <1>1 DEF LockInv, TypeOK
<1>5. TypeOK'
  BY <1>1, <1>2, <1>4 DEF LockInv, TypeOK, States
<1>6. OneHolder'
  BY <1>1, <1>2 DEF LockInv, OneHolder, Holding
<1>7. LoadedAll' /\ OwnFieldsSet'
  BY <1>1, <1>2, <1>3, LockersTypes
  DEF LockInv, LoadedAll, OwnFieldsSet, Loaded, Holding
<1>8. NoLostUpdate'
  <2>1. SUFFICES ASSUME NEW t \in Scripts, Committed(t)' PROVE Fields[t] \subseteq md[s]
    BY <1>1 DEF NoLostUpdate
  <2>2. CASE t = s
    BY <1>1, <2>1, <2>2 DEF Committed, LockInv, OwnFieldsSet
  <2>3. CASE t # s
    BY <1>1, <1>2, <2>1, <2>3 DEF Committed, LockInv, LoadedAll, Loaded
  <2>4. QED
    BY <2>2, <2>3
<1>9. TornOnlyInExport'
  BY <1>4, WholeIsNotTorn DEF TornOnlyInExport
<1>10. QED
  BY <1>5, <1>6, <1>7, <1>8, <1>9 DEF LockInv

\* Commands change nothing of this.
LEMMA RunKeeps ==
  ASSUME LockInv, NEW s \in Scripts, Run(s) PROVE LockInv'
<1>1. PICK end \in {"done", "failed"} : pc' = [pc EXCEPT ![s] = end]
  BY DEF Run
<1>2. pc[s] = "commands" /\ UNCHANGED <<file, lock, md, raised, kills>>
  BY DEF Run
<1>3. pc' \in [Scripts -> States] /\ pc'[s] = end /\ \A t \in Scripts \ {s} : pc'[t] = pc[t]
  <2>1. TypeOK /\ end \in States
    BY DEF LockInv, States
  <2>2. QED
    BY <1>1, <2>1, OneMoves
<1>4. TypeOK'
  BY <1>2, <1>3 DEF LockInv, TypeOK, States
<1>5. OneHolder'
  <2>1. lock # NoOne => lock \in Scripts \ {s}
    BY <1>2, LockersTypes DEF LockInv, TypeOK, OneHolder, Holding
  <2>2. QED
    BY <1>2, <1>3, <2>1 DEF LockInv, OneHolder, Holding
<1>6. LoadedAll' /\ OwnFieldsSet' /\ NoLostUpdate'
  <2>1. Committed(s)' => Committed(s)
    BY <1>2 DEF Committed
  <2>2. QED
    BY <1>2, <1>3, <2>1, NothingNew
<1>7. TornOnlyInExport'
  BY <1>2, <1>3, LockersTypes DEF LockInv, TornOnlyInExport, TypeOK
<1>8. QED
  BY <1>4, <1>5, <1>6, <1>7 DEF LockInv

LEMMA InvStep == LockInv /\ [Next]_vars => LockInv'
<1> SUFFICES ASSUME LockInv, [Next]_vars PROVE LockInv'
  OBVIOUS
<1>1. kills \in 0 .. MaxKills /\ kills \in Nat /\ MaxKills \in Nat
  BY LockersTypes DEF LockInv, TypeOK
<1>2. ASSUME NEW s \in Scripts, Read(s) \/ Open(s) PROVE LockInv'
  BY <1>2, StartKeeps
<1>3. ASSUME NEW s \in Scripts, Lock(s) PROVE LockInv'
  BY <1>3, LockKeeps
<1>4. ASSUME NEW s \in Scripts, Alarm(s) PROVE LockInv'
  BY <1>1, <1>4, EndKeeps DEF Alarm
<1>5. ASSUME NEW s \in Scripts, Load(s) PROVE LockInv'
  <2>1. CASE file = Torn
    <3>1. Leave(s, "failed") /\ pc[s] = "locked" /\ UNCHANGED <<file, md, raised, kills>>
      BY <1>5, <2>1 DEF Load
    <3>2. QED
      BY <1>1, <3>1, EndKeeps
  <2>2. CASE file # Torn
    BY <1>5, <2>2, LoadKeeps
  <2>3. QED
    BY <2>1, <2>2
<1>6. ASSUME NEW s \in Scripts, Body(s) PROVE LockInv'
  BY <1>6, BodyKeeps
<1>7. ASSUME NEW s \in Scripts, Truncate(s) PROVE LockInv'
  BY <1>7, TruncateKeeps
<1>8. ASSUME NEW s \in Scripts, Dump(s) PROVE LockInv'
  BY <1>8, DumpKeeps
<1>9. ASSUME NEW s \in Scripts, Unlock(s) PROVE LockInv'
  BY <1>1, <1>9, EndKeeps DEF Unlock
<1>10. ASSUME NEW s \in Scripts, Run(s) PROVE LockInv'
  BY <1>10, RunKeeps
<1>11. ASSUME NEW s \in Scripts, Kill(s) PROVE LockInv'
  BY <1>1, <1>11, EndKeeps DEF Kill
<1>12. CASE UNCHANGED vars
  BY <1>12 DEF vars, LockInv, TypeOK, OneHolder, LoadedAll, OwnFieldsSet, NoLostUpdate,
               TornOnlyInExport, Committed
<1>13. QED
  BY <1>2, <1>3, <1>4, <1>5, <1>6, <1>7, <1>8, <1>9, <1>10, <1>11, <1>12 DEF Next, Step

THEOREM LockInvHolds == Spec => []LockInv
  BY InvInit, InvStep, PTL DEF Spec

\* Whatever the scripts are, whatever each does, in whatever order they run and
\* however many are killed: what a script has committed stays in the metadata.
THEOREM UpdatesKept == Spec => []NoLostUpdate
<1>1. LockInv => NoLostUpdate
  BY DEF LockInv
<1>2. QED
  BY <1>1, LockInvHolds, PTL

\* Nor does a script ever find the file torn under the lock, unless one was killed.
THEOREM TornForOwnerOnly == Spec => []TornOnlyInExport
<1>1. LockInv => TornOnlyInExport
  BY DEF LockInv
<1>2. QED
  BY <1>1, LockInvHolds, PTL
-----------------------------------------------------------------------------
(* The refinement. *)

\* The owner of the lock works on what the file had when it was loaded, and tears
\* it only to export.
OwnerSees ==
  \A s \in Scripts :
    /\ pc[s] = "body" => file # Torn /\ md[s] = file
    /\ pc[s] = "exit" => file # Torn /\ \E f \in SUBSET Fields[s] : md[s] = file \cup f
    /\ pc[s] = "export" => file = Torn

\* A script that gets to no place in the body or the export.
LEMMA OthersSee ==
  ASSUME OwnerSees, NEW s \in Scripts, file' = file,
         \A t \in Scripts \ {s} : pc'[t] = pc[t] /\ md'[t] = md[t],
         pc'[s] \notin Loaded
  PROVE  OwnerSees'
  BY DEF OwnerSees, Loaded

\* Only the script that moves is at work on the metadata, if it holds the lock.
LEMMA Alone ==
  ASSUME LockInv, NEW s \in Scripts, pc[s] \in Holding
  PROVE  s \in Lockers /\ \A t \in Scripts \ {s} : pc[t] \notin Holding
  BY DEF LockInv, OneHolder

\* Where a script gets, and what it does to the others: nothing.
LEMMA MoveEffect ==
  ASSUME LockInv, NEW s \in Scripts, Step(s) \/ Kill(s)
  PROVE  /\ \A t \in Scripts \ {s} : pc'[t] = pc[t] /\ md'[t] = md[t]
         /\ Body(s) \/ Load(s) \/ Truncate(s) \/ Dump(s) \/
              (file' = file /\ pc'[s] \notin Loaded /\ (pc[s] = "export" => Kill(s)))
<1>1. PICK state \in States : pc' = [pc EXCEPT ![s] = state]
  BY DEF Step, Kill, Open, Lock, Alarm, Load, Body, Truncate, Dump, Unlock, Run, Read, Leave,
         States
<1>2. \A t \in Scripts \ {s} : pc'[t] = pc[t]
  BY <1>1 DEF LockInv, TypeOK
<1>3. \A t \in Scripts \ {s} : md'[t] = md[t]
  <2>1. md \in [Scripts -> SUBSET AllFields]
    BY DEF LockInv, TypeOK
  <2>2. UNCHANGED md \/ \E x : md' = [md EXCEPT ![s] = x]
    BY DEF Step, Kill, Open, Lock, Alarm, Load, Body, Truncate, Dump, Unlock, Run, Read
  <2>3. QED
    BY <2>1, <2>2
<1>4. pc'[s] = state
  BY <1>1 DEF LockInv, TypeOK
<1>5. CASE Read(s) \/ Open(s) \/ Lock(s) \/ Alarm(s)
  BY <1>1, <1>4, <1>5 DEF Read, Open, Lock, Alarm, Leave, Starts, Loaded, LockInv, TypeOK
<1>6. CASE Unlock(s) \/ Run(s) \/ Kill(s)
  BY <1>1, <1>4, <1>6 DEF Unlock, Run, Kill, Leave, Loaded, LockInv, TypeOK
<1>7. QED
  BY <1>2, <1>3, <1>5, <1>6 DEF Step
LEMMA OwnerSeesStep ==
  ASSUME LockInv, LockInv', OwnerSees, NEW s \in Scripts, Step(s) \/ Kill(s)
  PROVE  OwnerSees'
<1>1. /\ \A t \in Scripts \ {s} : pc'[t] = pc[t] /\ md'[t] = md[t]
      /\ Body(s) \/ Load(s) \/ Truncate(s) \/ Dump(s) \/ (file' = file /\ pc'[s] \notin Loaded)
  BY MoveEffect
<1>2. CASE file' = file /\ pc'[s] \notin Loaded
  BY <1>1, <1>2, OthersSee
<1>3. CASE Load(s)
  <2>1. CASE file = Torn
    <3>1. pc'[s] = "failed" /\ file' = file
      BY <1>3, <2>1, LeaveEnds DEF Load, LockInv
    <3>2. QED
      BY <1>1, <3>1, OthersSee DEF Loaded
  <2>2. CASE file # Torn
    <3>1. pc'[s] = "body" /\ md'[s] = file /\ file' = file
      BY <1>3, <2>2 DEF Load, LockInv, TypeOK
    <3>2. QED
      BY <1>1, <2>2, <3>1 DEF OwnerSees
  <2>3. QED
    BY <2>1, <2>2
<1>4. CASE Body(s)
  <2>1. pc[s] = "body" /\ pc'[s] = "exit" /\ file' = file
    BY <1>4 DEF Body, LockInv, TypeOK
  <2>2. PICK f \in SUBSET Fields[s] : md' = [md EXCEPT ![s] = @ \cup f]
    BY <1>4 DEF Body
  <2>3. md'[s] = file' \cup f /\ file' # Torn
    BY <2>1, <2>2 DEF LockInv, TypeOK, OwnerSees
  <2>4. QED
    BY <1>1, <2>1, <2>3 DEF OwnerSees
<1>5. CASE Truncate(s)
  <2>1. pc'[s] = "export" /\ file' = Torn /\ pc[s] \in Holding
    BY <1>5 DEF Truncate, LockInv, TypeOK, Holding
  <2>2. \A t \in Scripts \ {s} : pc'[t] \notin Holding
    BY <1>1, <2>1, Alone
  <2>3. QED
    BY <2>1, <2>2 DEF OwnerSees, Holding
<1>6. CASE Dump(s)
  <2>1. pc'[s] = "unlock" /\ pc[s] \in Holding
    BY <1>6 DEF Dump, LockInv, TypeOK, Holding
  <2>2. \A t \in Scripts \ {s} : pc'[t] \notin Holding
    BY <1>1, <2>1, Alone
  <2>3. QED
    BY <2>1, <2>2 DEF OwnerSees, Holding
<1>7. QED
  BY <1>1, <1>2, <1>3, <1>4, <1>5, <1>6

\* Nothing changes for the store while the file is as it was and the same scripts
\* export what they did.
LEMMA StoreQuiet ==
  ASSUME file' = file, Exporting' = Exporting, \A s \in Exporting : md'[s] = md[s]
  PROVE  Contents' = Contents /\ Destroyed' = Destroyed
<1>1. {md'[s] : s \in Exporting} = {md[s] : s \in Exporting}
  OBVIOUS
<1>2. UNION {md'[s] : s \in Exporting'} = UNION {md[s] : s \in Exporting}
  BY <1>1
<1>3. QED
  BY <1>2 DEF Contents, Destroyed

LEMMA ExportsAlone ==
  ASSUME LockInv, NEW s \in Scripts, pc[s] = "export" PROVE Exporting = {s}
<1>1. s \in Lockers /\ \A t \in Scripts \ {s} : pc[t] \notin Holding
  BY Alone DEF Holding
<1>2. \A t \in Lockers \ {s} : pc[t] # "export"
  BY <1>1, LockersTypes DEF Holding
<1>3. QED
  BY <1>1, <1>2 DEF Exporting

LEMMA StepImplements ==
  ASSUME LockInv, LockInv', OwnerSees, NEW s \in Scripts, Step(s) \/ Kill(s)
  PROVE  [Store!Next]_<<Contents, Destroyed>>
<1>1. /\ \A t \in Scripts \ {s} : pc'[t] = pc[t] /\ md'[t] = md[t]
      /\ Body(s) \/ Load(s) \/ Truncate(s) \/ Dump(s) \/
           (file' = file /\ pc'[s] \notin Loaded /\ (pc[s] = "export" => Kill(s)))
  BY MoveEffect
<1>2. ASSUME file' = file, pc[s] # "export", pc'[s] # "export"
      PROVE  Contents' = Contents /\ Destroyed' = Destroyed
  <2>1. Exporting' = Exporting
    BY <1>1, <1>2, LockersTypes DEF Exporting
  <2>2. \A t \in Exporting : md'[t] = md[t]
    BY <1>1, <1>2, LockersTypes DEF Exporting
  <2>3. QED
    BY <1>2, <2>1, <2>2, StoreQuiet
<1>3. CASE Body(s)
  BY <1>2, <1>3 DEF Body, LockInv, TypeOK
<1>4. CASE Load(s)
  <2>1. pc[s] # "export" /\ file' = file
    BY <1>4 DEF Load
  <2>2. pc'[s] # "export"
    <3>1. CASE file = Torn
      BY <1>4, <3>1, LeaveEnds DEF Load, LockInv
    <3>2. CASE file # Torn
      BY <1>4, <3>2 DEF Load, LockInv, TypeOK
    <3>3. QED
      BY <3>1, <3>2
  <2>3. QED
    BY <1>2, <2>1, <2>2
<1>5. CASE Truncate(s)
  <2>1. pc[s] = "exit" /\ pc'[s] = "export" /\ file' = Torn /\ md' = md /\ s \in Lockers
    <3>1. s \in Lockers
      BY <1>5, Alone DEF Truncate, Holding
    <3>2. QED
      BY <1>5, <3>1 DEF Truncate, LockInv, TypeOK
  <2>2. Exporting' = {s}
    <3>1. \A t \in Scripts \ {s} : pc'[t] # "export"
      BY <1>1, <2>1, Alone DEF Holding
    <3>2. QED
      BY <2>1, <3>1, LockersTypes DEF Exporting
  <2>3. file # Torn /\ \E f \in SUBSET Fields[s] : md[s] = file \cup f
    BY <2>1 DEF OwnerSees
  <2>4. Contents = file /\ Destroyed = FALSE /\ Destroyed' = FALSE
    BY <2>2, <2>3 DEF Contents, Destroyed
  <2>5. Contents' = md[s]
    <3>1. {md'[t] : t \in Exporting'} = {md[s]}
      BY <2>1, <2>2
    <3>2. Contents' = UNION {md[s]}
      BY <2>1, <3>1 DEF Contents
    <3>3. QED
      BY <3>2
  <2>6. Store!Update(s)
    BY <2>3, <2>4, <2>5 DEF Store!Update
  <2>7. QED
    BY <2>1, <2>6 DEF Store!Next
<1>6. CASE Dump(s)
  <2>1. pc[s] = "export" /\ file' = md[s] /\ file = Torn
    BY <1>6 DEF Dump, OwnerSees
  <2>2. Exporting = {s}
    BY <2>1, ExportsAlone
  <2>3. file' # Torn
    BY <2>1, WholeIsNotTorn DEF LockInv, TypeOK
  <2>4. Contents' = md[s] /\ Destroyed' = FALSE /\ Destroyed = FALSE
    BY <2>1, <2>2, <2>3 DEF Contents, Destroyed
  <2>5. Contents = md[s]
    <3>1. {md[t] : t \in Exporting} = {md[s]}
      BY <2>2
    <3>2. Contents = UNION {md[s]}
      BY <2>1, <3>1 DEF Contents
    <3>3. QED
      BY <3>2
  <2>6. QED
    BY <2>4, <2>5
<1>7. CASE file' = file /\ pc'[s] \notin Loaded /\ (pc[s] = "export" => Kill(s))
  <2>1. CASE pc[s] # "export"
    BY <1>2, <1>7, <2>1 DEF Loaded
  <2>2. CASE pc[s] = "export"
    <3>1. Exporting = {s} /\ file = Torn
      BY <2>2, ExportsAlone DEF OwnerSees
    <3>2. Exporting' = {}
      <4>1. \A t \in Scripts \ {s} : pc'[t] # "export"
        BY <1>1, <2>2, Alone DEF Holding
      <4>2. QED
        BY <1>7, <4>1, LockersTypes DEF Exporting, Loaded
    <3>3. {md'[t] : t \in Exporting'} = {}
      BY <3>2
    <3>4. Destroyed' = TRUE /\ Contents' = UNION {}
      BY <1>7, <3>1, <3>2, <3>3 DEF Destroyed, Contents
    <3>5. Store!Destroy
      BY <3>4 DEF Store!Destroy
    <3>6. QED
      BY <3>5 DEF Store!Next
  <2>3. QED
    BY <2>1, <2>2
<1>8. QED
  BY <1>1, <1>3, <1>4, <1>5, <1>6, <1>7

\* For all scripts, orders and kills the pickle under its lock is a store with
\* atomic updates: no script sees, or adds to, half of what another did.
THEOREM LockImplementsStore == Spec => ImplementsMetadataStore
<1>1. Init => OwnerSees /\ Store!Init
  <2>1. SUFFICES ASSUME Init PROVE OwnerSees /\ Store!Init
    OBVIOUS
  <2>2. \A s \in Scripts : pc[s] = "start"
    BY <2>1 DEF Init
  <2>3. file = {} /\ file # Torn
    BY <2>1, WholeIsNotTorn DEF Init, None
  <2>4. QED
    BY <2>2, <2>3 DEF OwnerSees, Store!Init, Contents, Destroyed
<1>2. LockInv /\ LockInv' /\ OwnerSees /\ [Next]_vars => OwnerSees'
  <2>1. CASE UNCHANGED vars
    BY <2>1 DEF vars, OwnerSees
  <2>2. QED
    BY <2>1, OwnerSeesStep DEF Next
<1>3. LockInv /\ LockInv' /\ OwnerSees /\ [Next]_vars => [Store!Next]_<<Contents, Destroyed>>
  <2>1. CASE UNCHANGED vars
    BY <2>1 DEF vars, Contents, Destroyed, Exporting
  <2>2. QED
    BY <2>1, StepImplements DEF Next
<1>4. QED
  BY <1>1, <1>2, <1>3, LockInvHolds, PTL DEF Spec, ImplementsMetadataStore, Store!Spec

-----------------------------------------------------------------------------
(* sv2v_in_place.py *)

ConvertedAt(done) == {d.at : d \in {e \in done : e.op = "convert"}}
ReplacedAt(done)  == {d.at : d \in {e \in done : e.op # "convert"}}
CopiedAt(done)    == {d.at : d \in {e \in done : e.op = "copy"}}

\* What holds of a conversion at any time: what has been converted and replaced is
\* what the steps so far have done, a file is replaced after every conversion and a
\* header emptied after every copy, and none of those that were converted is broken.
Converting(list, broken, s) ==
  LET sv == Sv!sv_paths(list)
  IN  /\ s = [done |-> s.done, changed |-> s.changed, tmp |-> s.tmp, status |-> s.status]
      /\ s.done \subseteq Sv!steps(list)
      /\ s.tmp = ConvertedAt(s.done)
      /\ s.changed = Sv!names(list, ReplacedAt(s.done))
      /\ ReplacedAt(s.done) # {} => sv \subseteq ConvertedAt(s.done)
      /\ (\E d \in s.done : d.op = "empty") => sv \subseteq CopiedAt(s.done)
      /\ broken \cap Sv!names(list, ConvertedAt(s.done)) = {}

LEMMA StepsByPlace ==
  ASSUME NEW list
  PROVE  /\ \A i : Sv!Step("convert", i) \in Sv!steps(list) <=> i \in Sv!sv_paths(list)
         /\ \A d \in Sv!steps(list) :
              /\ d = Sv!Step(d.op, d.at) /\ d.op \in {"convert", "copy", "empty"}
              /\ d.op \in {"convert", "copy"} => d.at \in Sv!sv_paths(list)
              /\ d.op = "empty" => d.at \in Sv!svh_paths(list)
         /\ \A i \in Sv!sv_paths(list) : Sv!Step("copy", i) \in Sv!steps(list)
         /\ \A i \in Sv!svh_paths(list) : Sv!Step("empty", i) \in Sv!steps(list)
<1> DEFINE sv == Sv!sv_paths(list)  svh == Sv!svh_paths(list)
<1>1. Sv!steps(list) = {Sv!Step(op, i) : op \in {"convert", "copy"}, i \in sv}
                         \cup {Sv!Step("empty", i) : i \in svh}
  BY DEF Sv!steps, Sv!transform
<1>2. \A op, i : Sv!Step(op, i).op = op /\ Sv!Step(op, i).at = i
  BY DEF Sv!Step
<1> HIDE DEF sv, svh
<1>3. \A d \in Sv!steps(list) :
        \/ \E op \in {"convert", "copy"}, i \in sv : d = Sv!Step(op, i)
        \/ \E i \in svh : d = Sv!Step("empty", i)
  BY <1>1
<1>4. \A i : Sv!Step("convert", i) \in Sv!steps(list) <=> i \in sv
  BY <1>1, <1>2
<1>5. \A d \in Sv!steps(list) :
        /\ d = Sv!Step(d.op, d.at) /\ d.op \in {"convert", "copy", "empty"}
        /\ d.op \in {"convert", "copy"} => d.at \in sv
        /\ d.op = "empty" => d.at \in svh
  BY <1>2, <1>3
<1>6. \A i \in sv : Sv!Step("copy", i) \in Sv!steps(list)
  BY <1>1
<1>7. \A i \in svh : Sv!Step("empty", i) \in Sv!steps(list)
  BY <1>1
<1>8. QED
  BY <1>4, <1>5, <1>6, <1>7 DEF sv, svh

\* When the next step is not a conversion, all of them are done.
LEMMA ConvertsFirst ==
  ASSUME NEW list, NEW done, NEW step \in Sv!next_step(list, done), step.op # "convert"
  PROVE  Sv!sv_paths(list) \subseteq ConvertedAt(done)
<1>1. SUFFICES ASSUME NEW i \in Sv!sv_paths(list) PROVE i \in ConvertedAt(done)
  OBVIOUS
<1> DEFINE first == Sv!Step("convert", i)
<1>2. first \in Sv!steps(list) /\ first.op = "convert" /\ first.at = i
  BY StepsByPlace DEF Sv!Step
<1>3. step \in Sv!steps(list) /\ step # first
  BY <1>2 DEF Sv!next_step
<1>4. ~Sv!earlier(step, first)
  BY <1>2 DEF Sv!earlier
<1>5. first \in done
  BY <1>2, <1>3, <1>4 DEF Sv!next_step
<1>6. QED
  BY <1>2, <1>5 DEF ConvertedAt

\* When the next step empties a header, all copies are done.
LEMMA CopiesFirst ==
  ASSUME NEW list, NEW done, NEW step \in Sv!next_step(list, done), step.op = "empty"
  PROVE  Sv!sv_paths(list) \subseteq CopiedAt(done)
<1>1. SUFFICES ASSUME NEW i \in Sv!sv_paths(list) PROVE i \in CopiedAt(done)
  OBVIOUS
<1> DEFINE first == Sv!Step("copy", i)
<1>2. first \in Sv!steps(list) /\ first.op = "copy" /\ first.at = i
  BY StepsByPlace DEF Sv!Step
<1>3. step \in Sv!steps(list) /\ step # first
  BY <1>2 DEF Sv!next_step
<1>4. ~Sv!earlier(step, first)
  BY <1>2 DEF Sv!earlier
<1>5. first \in done
  BY <1>2, <1>3, <1>4 DEF Sv!next_step
<1>6. QED
  BY <1>2, <1>5 DEF CopiedAt

LEMMA ConvertingStarts ==
  ASSUME NEW list, NEW broken PROVE Converting(list, broken, Sv!Started)
  BY DEF Converting, Sv!Started, ConvertedAt, ReplacedAt, CopiedAt, Sv!names

LEMMA ConvertingGoesOn ==
  ASSUME NEW list, NEW broken, NEW s, Converting(list, broken, s), s.status = "runs",
         NEW step \in Sv!next_step(list, s.done), NEW disk \in Sv!outcomes(step)
  PROVE  Converting(list, broken, Sv!run_step(list, broken, s, step, disk))
<1> DEFINE sv    == Sv!sv_paths(list)
           name  == list[step.at].name
           bad   == name \in broken \/ Sv!reads(list, step.at) \cap s.changed # {}
           fails == disk = "none" \/ (step.op = "convert" /\ bad)
           t     == Sv!run_step(list, broken, s, step, disk)
           done  == s.done \cup {step}
<1>1. step \in Sv!steps(list)
  BY DEF Sv!next_step
<1>2. CASE fails
  <2>1. t = [s EXCEPT !.status = "failed"]
    BY <1>2 DEF Sv!run_step
  <2>2. /\ t.done = s.done /\ t.changed = s.changed /\ t.tmp = s.tmp /\ t.status = "failed"
        /\ t = [done |-> t.done, changed |-> t.changed, tmp |-> t.tmp, status |-> t.status]
    BY <2>1 DEF Converting
  <2> HIDE DEF t
  <2>3. QED
    BY <2>2 DEF Converting, t
<1>3. CASE ~fails /\ step.op = "convert"
  <2>1. t = [s EXCEPT !.done = @ \cup {step}, !.tmp = @ \cup {step.at}]
    BY <1>3 DEF Sv!run_step
  <2>2. /\ t.done = done /\ t.changed = s.changed /\ t.tmp = s.tmp \cup {step.at}
        /\ t = [done |-> t.done, changed |-> t.changed, tmp |-> t.tmp, status |-> t.status]
    BY <2>1 DEF Converting
  <2>3. /\ ConvertedAt(done) = ConvertedAt(s.done) \cup {step.at}
        /\ ReplacedAt(done) = ReplacedAt(s.done) /\ CopiedAt(done) = CopiedAt(s.done)
        /\ (\E d \in done : d.op = "empty") <=> (\E d \in s.done : d.op = "empty")
    BY <1>3 DEF ConvertedAt, ReplacedAt, CopiedAt
  <2>4. Sv!names(list, ConvertedAt(done)) = Sv!names(list, ConvertedAt(s.done)) \cup {name}
    BY <2>3 DEF Sv!names
  <2>5. name \notin broken
    BY <1>3
  <2> HIDE DEF done, name, t
  <2>6. done \subseteq Sv!steps(list)
    BY <1>1 DEF Converting, done
  <2>7. QED
    BY <2>2, <2>3, <2>4, <2>5, <2>6 DEF Converting, t
<1>4. CASE ~fails /\ step.op # "convert"
  <2>1. t = [s EXCEPT !.done = @ \cup {step}, !.changed = @ \cup {name},
                      !.status = IF disk = "part" THEN "failed" ELSE @]
    BY <1>4 DEF Sv!run_step
  <2>2. /\ t.done = done /\ t.changed = s.changed \cup {name} /\ t.tmp = s.tmp
        /\ t = [done |-> t.done, changed |-> t.changed, tmp |-> t.tmp, status |-> t.status]
    BY <2>1 DEF Converting
  <2>3. ConvertedAt(done) = ConvertedAt(s.done) /\ ReplacedAt(done) = ReplacedAt(s.done) \cup {step.at}
    BY <1>4 DEF ConvertedAt, ReplacedAt
  <2>4. Sv!names(list, ReplacedAt(done)) = Sv!names(list, ReplacedAt(s.done)) \cup {name}
    BY <2>3 DEF Sv!names
  <2>5. sv \subseteq ConvertedAt(s.done)
    BY <1>4, ConvertsFirst
  <2>6. (\E d \in done : d.op = "empty") => sv \subseteq CopiedAt(done)
    <3>1. CopiedAt(s.done) \subseteq CopiedAt(done)
      BY DEF CopiedAt
    <3>2. CASE step.op = "empty"
      BY <3>1, <3>2, CopiesFirst
    <3>3. CASE step.op # "empty"
      BY <3>1, <3>3 DEF Converting
    <3>4. QED
      BY <3>2, <3>3
  <2> HIDE DEF done, name, t
  <2>7. done \subseteq Sv!steps(list)
    BY <1>1 DEF Converting, done
  <2>8. QED
    BY <2>2, <2>3, <2>4, <2>5, <2>6, <2>7 DEF Converting, t
<1>5. QED
  BY <1>2, <1>3, <1>4

LEMMA ConvertingIsSafe ==
  ASSUME NEW list \in SourceLists, NEW broken, NEW s, Converting(list, broken, s)
  PROVE  Converted(list, broken, s)
<1> DEFINE sv  == Sv!sv_paths(list)
           svh == Sv!svh_paths(list)
<1>1. ConvertedAt(s.done) \subseteq sv /\ ReplacedAt(s.done) \subseteq sv \cup svh
  BY StepsByPlace DEF Converting, ConvertedAt, ReplacedAt
<1>2. ASSUME s.changed \cap Sv!names(list, svh) # {} PROVE Sv!names(list, sv) \subseteq s.changed
  <2>1. PICK i \in ReplacedAt(s.done), j \in svh : list[i].name = list[j].name
    BY <1>2 DEF Converting, Sv!names
  <2>2. i \in DOMAIN list /\ j \in DOMAIN list
    BY <1>1, <2>1 DEF Sv!sv_paths, Sv!svh_paths
  <2>3. list[i].kind = "svh"
    BY <2>1, <2>2, SourceAssumption DEF Sv!svh_paths
  <2>4. i \notin sv
    BY <2>3 DEF Sv!sv_paths
  <2>5. PICK d \in s.done : d.at = i /\ d.op # "convert"
    BY <2>1 DEF ReplacedAt
  <2>6. d.op = "empty"
    BY <2>4, <2>5, StepsByPlace DEF Converting
  <2>7. sv \subseteq CopiedAt(s.done)
    BY <2>5, <2>6 DEF Converting
  <2>8. CopiedAt(s.done) \subseteq ReplacedAt(s.done)
    BY DEF CopiedAt, ReplacedAt
  <2>9. QED
    BY <2>7, <2>8 DEF Converting, Sv!names
<1>3. s.changed # {} => s.tmp = sv /\ broken \cap Sv!names(list, sv) = {}
  <2>1. SUFFICES ASSUME s.changed # {} PROVE ConvertedAt(s.done) = sv
    BY DEF Converting
  <2>2. ReplacedAt(s.done) # {}
    BY <2>1 DEF Converting, Sv!names
  <2>3. QED
    BY <1>1, <2>2 DEF Converting
<1>4. ASSUME Sv!steps(list) \subseteq s.done
      PROVE  s.changed = Sv!names(list, sv \cup Sv!svh_paths(list))
  <2>1. \A i \in sv : i \in ReplacedAt(s.done)
    <3>1. TAKE i \in sv
    <3>2. Sv!Step("copy", i) \in s.done
      BY <1>4, StepsByPlace
    <3>3. QED
      BY <3>2 DEF ReplacedAt, Sv!Step
  <2>2. \A i \in Sv!svh_paths(list) : i \in ReplacedAt(s.done)
    <3>1. TAKE i \in Sv!svh_paths(list)
    <3>2. Sv!Step("empty", i) \in s.done
      BY <1>4, StepsByPlace
    <3>3. QED
      BY <3>2 DEF ReplacedAt, Sv!Step
  <2>3. ReplacedAt(s.done) = sv \cup Sv!svh_paths(list)
    BY <1>1, <2>1, <2>2
  <2>4. QED
    BY <2>3 DEF Converting
<1>5. QED
  BY <1>2, <1>3, <1>4 DEF Converted

-----------------------------------------------------------------------------
(* ibex_config.py *)

Fields_ == DOMAIN Cfg!known_fields

\* A field is a string, or a number.
LEMMA FieldKinds ==
  /\ \A f \in Fields_ : Cfg!known_fields[f] \in {"bool", "int", "str"}
  /\ "RV32E" \in Fields_ /\ Cfg!known_fields["RV32E"] = "bool"
  /\ "RV32M" \in Fields_ /\ Cfg!known_fields["RV32M"] = "str"
  /\ "RV32B" \in Fields_ /\ Cfg!known_fields["RV32B"] = "str"
  BY DEF Cfg!known_fields, Fields_

\* A configuration that has been accepted.
Accepted(yml) ==
  /\ DOMAIN yml = Fields_
  /\ \A f \in Fields_ : yml[f] \in Cfg!Value
  /\ \A f \in Fields_ : Cfg!readable(Cfg!known_fields[f], yml[f])

LEMMA OptionOfField ==
  ASSUME NEW yml, Accepted(yml), NEW f \in Fields_
  PROVE  as_option(yml[f]) = IF Cfg!known_fields[f] = "str" THEN Cfg!Str(yml[f].s)
                             ELSE Cfg!Int_(yml[f].n)
<1>1. yml[f] \in Cfg!Value /\ Cfg!readable(Cfg!known_fields[f], yml[f])
  BY DEF Accepted
<1>2. CASE Cfg!known_fields[f] = "str"
  <2>1. yml[f].type = "str" /\ yml[f] = Cfg!Str(yml[f].s)
    BY <1>1, <1>2 DEF Cfg!readable, Cfg!Value, Cfg!Str
  <2>2. QED
    BY <1>2, <2>1 DEF as_option
<1>3. CASE Cfg!known_fields[f] # "str"
  <2>1. Cfg!known_fields[f] \in {"bool", "int"}
    BY <1>3, FieldKinds
  <2>2. yml[f].type # "str"
    BY <1>1, <2>1 DEF Cfg!readable
  <2>3. QED
    BY <1>3, <2>2 DEF as_option
<1>4. QED
  BY <1>2, <1>3

Option_(f, how, value) == [field |-> f, how |-> how, value |-> value]

\* Exactly the strings are defined and the rest is set as parameters.
LEMMA SimOptsExact ==
  ASSUME NEW kinds, NEW yml, Accepted(yml)
  PROVE  Cfg!SimOpts(kinds, yml) =
           {Option_(f, "define", as_option(yml[f])) :
              f \in {g \in Fields_ : Cfg!known_fields[g] = "str" /\ "define" \in kinds}}
           \cup
           {Option_(f, "param", as_option(yml[f])) :
              f \in {g \in Fields_ : Cfg!known_fields[g] # "str" /\ "param" \in kinds}}
  BY OptionOfField DEF Cfg!SimOpts, Fields_, Option_

\* Two stages that share the kinds of options, or one that has both, give each field once.
LEMMA OnceInStages ==
  ASSUME NEW A, NEW B, A \cup B = {"param", "define"}, A \cap B = {},
         NEW yml, Accepted(yml)
  PROVE  /\ Cfg!SimOpts(A, yml) \cap Cfg!SimOpts(B, yml) = {}
         /\ \A f \in Fields_ :
              \E o \in Cfg!SimOpts(A, yml) \cup Cfg!SimOpts(B, yml) :
                /\ o.value = as_option(yml[f])
                /\ {p \in Cfg!SimOpts(A, yml) \cup Cfg!SimOpts(B, yml) : p.field = f} = {o}
<1> DEFINE how(f) == IF Cfg!known_fields[f] = "str" THEN "define" ELSE "param"
           opt(f) == Option_(f, how(f), as_option(yml[f]))
           opts(K) == {opt(f) : f \in {g \in Fields_ : how(g) \in K}}
<1>1. \A K : Cfg!SimOpts(K, yml) = opts(K)
  <2>1. TAKE K
  <2>2. \A o : o \in Cfg!SimOpts(K, yml) <=> o \in opts(K)
    BY SimOptsExact
  <2>3. QED
    BY <2>2
<1>2. \A f : how(f) \in {"param", "define"} /\ opt(f).field = f /\ opt(f).value = as_option(yml[f])
  BY DEF Option_
<1>3. \A f \in Fields_ : how(f) \in A <=> how(f) \notin B
  BY <1>2
<1> HIDE DEF how, opt
<1>4. opts(A) \cap opts(B) = {}
  BY <1>2, <1>3
<1>5. opts(A) \cup opts(B) = {opt(f) : f \in Fields_}
  BY <1>2
<1>6. \A f \in Fields_ : {p \in opts(A) \cup opts(B) : p.field = f} = {opt(f)}
  BY <1>2, <1>5
<1>7. \A f \in Fields_ : opt(f) \in opts(A) \cup opts(B)
  BY <1>5
<1>8. QED
  BY <1>1, <1>2, <1>4, <1>6, <1>7

\* What the two stages of a simulator share.
LEMMA StagesOfSimulators ==
  ASSUME NEW sim \in DOMAIN Cfg!SIM_CFGS, NEW yml
  PROVE  \E A, B : /\ A \cup B = {"param", "define"} /\ A \cap B = {}
                   /\ Cfg!get_x_opts(yml, sim, "compile") = Cfg!SimOpts(A, yml)
                   /\ Cfg!get_x_opts(yml, sim, "sim") = Cfg!SimOpts(B, yml)
<1>1. Cfg!SimOpts({}, yml) = {}
  BY DEF Cfg!SimOpts
<1>2. sim \in {"vcs", "xlm", "dsim", "riviera", "questa"}
  BY DEF Cfg!SIM_CFGS
<1>3. CASE sim \in {"vcs", "xlm", "dsim"}
  <2>1. /\ Cfg!get_x_opts(yml, sim, "compile") = Cfg!SimOpts({"param", "define"}, yml)
        /\ Cfg!get_x_opts(yml, sim, "sim") = {}
    BY <1>3 DEF Cfg!get_x_opts, Cfg!SIM_CFGS, Cfg!output_type, Cfg!outputters
  <2>2. QED
    BY <1>1, <2>1
<1>4. CASE sim \in {"riviera", "questa"}
  <2>1. /\ Cfg!get_x_opts(yml, sim, "compile") = Cfg!SimOpts({"define"}, yml)
        /\ Cfg!get_x_opts(yml, sim, "sim") = Cfg!SimOpts({"param"}, yml)
    BY <1>4 DEF Cfg!get_x_opts, Cfg!SIM_CFGS, Cfg!output_type, Cfg!outputters
  <2>2. QED
    BY <2>1
<1>5. QED
  BY <1>2, <1>3, <1>4

LEMMA FusesocExact ==
  ASSUME NEW yml, Accepted(yml)
  PROVE  /\ {o.field : o \in Cfg!FusesocOpts(yml)} = DOMAIN yml
         /\ \A o \in Cfg!QueryOpts(yml, {"RV32B", "ICache", "none"}) :
              o.found <=> \E p \in Cfg!FusesocOpts(yml) : p.field = o.field
<1>1. Cfg!FusesocOpts(yml) = {[field |-> f, value |-> yml[f]] : f \in Fields_}
  BY DEF Cfg!FusesocOpts, Fields_
<1>2. \A f \in Fields_ : [field |-> f, value |-> yml[f]] \in Cfg!FusesocOpts(yml)
  BY <1>1
<1>3. \A f : f \in Fields_ <=> \E p \in Cfg!FusesocOpts(yml) : p.field = f
  <2>1. \A p \in Cfg!FusesocOpts(yml) : p.field \in Fields_
    BY <1>1
  <2>2. \A f \in Fields_ : \E p \in Cfg!FusesocOpts(yml) : p.field = f
    BY <1>2
  <2>3. QED
    BY <2>1, <2>2
<1>4. \A o \in Cfg!QueryOpts(yml, {"RV32B", "ICache", "none"}) : o.found <=> o.field \in DOMAIN yml
  <2> DEFINE there(f) == f \in DOMAIN yml
             entry(f) == [field |-> f, found |-> there(f)]
  <2>1. Cfg!QueryOpts(yml, {"RV32B", "ICache", "none"}) = {entry(f) : f \in {"RV32B", "ICache", "none"}}
    BY Zenon DEF Cfg!QueryOpts
  <2>2. \A f : there(f) \in BOOLEAN
    OBVIOUS
  <2> HIDE DEF there
  <2>3. \A f : entry(f).field = f /\ entry(f).found = there(f)
    OBVIOUS
  <2> HIDE DEF entry
  <2>4. \A o \in Cfg!QueryOpts(yml, {"RV32B", "ICache", "none"}) : o.found = there(o.field)
    BY <2>1, <2>3
  <2>5. QED
    BY <2>4 DEF there
<1>5. QED
  BY <1>3, <1>4 DEF Accepted

\* The instruction sets have what the core has.
LEMMA IsasExact ==
  ASSUME NEW yml, Accepted(yml), Cfg!get_isas_for_config(yml).ok
  PROVE  LET isas == Cfg!get_isas_for_config(yml)
         IN  /\ "e" \in isas.iss <=> yml["RV32E"].n = 1
             /\ "m" \in isas.iss <=> yml["RV32M"].s # "RV32MNone"
             /\ isas.toolchain \cap {"i", "e", "m", "c"} = isas.iss \cap {"i", "e", "m", "c"}
             /\ "b" \in isas.toolchain <=> "Zbb" \in isas.iss
<1> DEFINE e == yml["RV32E"].n  m == yml["RV32M"].s  b == yml["RV32B"].s
           base == {IF e # 0 THEN "e" ELSE "i", "c"} \cup (IF m # "RV32MNone" THEN {"m"} ELSE {})
           isas == Cfg!get_isas_for_config(yml)
<1>1. e \in {0, 1}
  <2>1. yml["RV32E"] \in Cfg!Value /\ Cfg!readable("bool", yml["RV32E"])
    BY FieldKinds DEF Accepted
  <2>2. QED
    BY <2>1 DEF Cfg!Value, Cfg!readable
<1>2. b \in DOMAIN Cfg!bitmanip_mapping
  BY DEF Cfg!get_isas_for_config
<1>3. /\ isas.toolchain = base \cup (IF b # "RV32BNone" THEN {"b"} ELSE {})
      /\ isas.iss = base \cup Cfg!bitmanip_mapping[b]
  BY <1>2 DEF Cfg!get_isas_for_config
<1>4. /\ Cfg!bitmanip_mapping[b] \cap {"i", "e", "m", "c", "b"} = {}
      /\ "Zbb" \in Cfg!bitmanip_mapping[b] <=> b # "RV32BNone"
  BY <1>2 DEF Cfg!bitmanip_mapping
<1>5. base \subseteq {"i", "e", "m", "c"}
  OBVIOUS
<1>6. ("e" \in base <=> e = 1) /\ ("m" \in base <=> m # "RV32MNone")
  BY <1>1
<1> HIDE DEF e, m, b, base, isas
<1>7. ("e" \in isas.iss <=> e = 1) /\ ("m" \in isas.iss <=> m # "RV32MNone")
  BY <1>3, <1>4, <1>6
<1>8. isas.toolchain \cap {"i", "e", "m", "c"} = isas.iss \cap {"i", "e", "m", "c"}
  BY <1>3, <1>4, <1>5
<1>9. "b" \in isas.toolchain <=> "Zbb" \in isas.iss
  BY <1>3, <1>4, <1>5
<1>10. QED
  BY <1>7, <1>8, <1>9 DEF e, m, isas

LEMMA AcceptedIsBuilt ==
  ASSUME NEW yml, \A f \in DOMAIN yml : yml[f] \in Cfg!Value,
         Cfg!parse_config_ok([chosen |-> yml], "chosen")
  PROVE  Built(yml)
<1>1. Cfg!Config_ok(yml)
  <2>1. "chosen" \in DOMAIN [chosen |-> yml] /\ [chosen |-> yml]["chosen"] = yml
    OBVIOUS
  <2>2. QED
    BY <2>1, Zenon DEF Cfg!parse_config_ok
<1>2. Accepted(yml)
  BY <1>1 DEF Cfg!Config_ok, Accepted, Fields_
<1>3. ASSUME NEW sim \in DOMAIN Cfg!SIM_CFGS
      PROVE  LET all == Cfg!get_x_opts(yml, sim, "compile") \cup Cfg!get_x_opts(yml, sim, "sim")
             IN  /\ Cfg!get_x_opts(yml, sim, "compile") \cap Cfg!get_x_opts(yml, sim, "sim") = {}
                 /\ \A f \in DOMAIN yml :
                      \E o \in all : o.value = as_option(yml[f]) /\ {p \in all : p.field = f} = {o}
  <2>1. PICK A, B : /\ A \cup B = {"param", "define"} /\ A \cap B = {}
                    /\ Cfg!get_x_opts(yml, sim, "compile") = Cfg!SimOpts(A, yml)
                    /\ Cfg!get_x_opts(yml, sim, "sim") = Cfg!SimOpts(B, yml)
    BY StagesOfSimulators
  <2>2. /\ Cfg!SimOpts(A, yml) \cap Cfg!SimOpts(B, yml) = {}
        /\ \A f \in Fields_ :
             \E o \in Cfg!SimOpts(A, yml) \cup Cfg!SimOpts(B, yml) :
               /\ o.value = as_option(yml[f])
               /\ {p \in Cfg!SimOpts(A, yml) \cup Cfg!SimOpts(B, yml) : p.field = f} = {o}
    BY <1>2, <2>1, OnceInStages
  <2>3. DOMAIN yml = Fields_
    BY <1>2 DEF Accepted
  <2>4. QED
    BY <2>1, <2>2, <2>3, Zenon
<1>4. QED
  BY <1>2, <1>3, FusesocExact, IsasExact DEF Built

-----------------------------------------------------------------------------
(* check_tool_requirements.py *)

At(s, i) == IF i \in DOMAIN s THEN s[i] ELSE 0

LEMMA OlderByParts ==
  ASSUME NEW v, NEW w
  PROVE  Req!older(v, w) <=>
           \/ At(v, 1) < At(w, 1)
           \/ At(v, 1) = At(w, 1) /\ At(v, 2) < At(w, 2)
           \/ At(v, 1) = At(w, 1) /\ At(v, 2) = At(w, 2) /\ At(v, 3) < At(w, 3)
           \/ /\ At(v, 1) = At(w, 1) /\ At(v, 2) = At(w, 2) /\ At(v, 3) = At(w, 3)
              /\ At(v, 4) < At(w, 4)
<1>1. Req!older(v, w) <=>
        \E i \in 1 .. 4 : At(v, i) < At(w, i) /\ \A j \in 1 .. i - 1 : At(v, j) = At(w, j)
  BY DEF Req!older, At
<1>2. 1 .. 4 = {1, 2, 3, 4}
  OBVIOUS
<1>3. 1 .. 1 - 1 = {} /\ 1 .. 2 - 1 = {1} /\ 1 .. 3 - 1 = {1, 2} /\ 1 .. 4 - 1 = {1, 2, 3}
  OBVIOUS
<1>4. QED
  BY <1>1, <1>2, <1>3

\* Versions have an order: none is older than itself, and what is older than an older
\* one is older. (check_tool_requirements.py:151)
THEOREM OlderIsOrder ==
  ASSUME NEW u \in Seq(Nat), NEW v \in Seq(Nat), NEW w \in Seq(Nat)
  PROVE  /\ ~Req!older(v, v)
         /\ Req!older(u, v) /\ Req!older(v, w) => Req!older(u, w)
<1>1. ASSUME NEW s \in Seq(Nat)
      PROVE  At(s, 1) \in Nat /\ At(s, 2) \in Nat /\ At(s, 3) \in Nat /\ At(s, 4) \in Nat
  BY DEF At
<1>2. ~Req!older(v, v)
  <2>1. PICK b1 \in Nat, b2 \in Nat, b3 \in Nat, b4 \in Nat :
          b1 = At(v, 1) /\ b2 = At(v, 2) /\ b3 = At(v, 3) /\ b4 = At(v, 4)
    BY <1>1
  <2>2. Req!older(v, v) <=>
          \/ b1 < b1
          \/ b1 = b1 /\ b2 < b2
          \/ b1 = b1 /\ b2 = b2 /\ b3 < b3
          \/ b1 = b1 /\ b2 = b2 /\ b3 = b3 /\ b4 < b4
    BY <2>1, OlderByParts, Zenon
  <2>3. QED
    BY <2>2
<1>3. ASSUME Req!older(u, v), Req!older(v, w) PROVE Req!older(u, w)
  <2>1. PICK a1 \in Nat, a2 \in Nat, a3 \in Nat, a4 \in Nat :
          a1 = At(u, 1) /\ a2 = At(u, 2) /\ a3 = At(u, 3) /\ a4 = At(u, 4)
    BY <1>1
  <2>2. PICK b1 \in Nat, b2 \in Nat, b3 \in Nat, b4 \in Nat :
          b1 = At(v, 1) /\ b2 = At(v, 2) /\ b3 = At(v, 3) /\ b4 = At(v, 4)
    BY <1>1
  <2>3. PICK c1 \in Nat, c2 \in Nat, c3 \in Nat, c4 \in Nat :
          c1 = At(w, 1) /\ c2 = At(w, 2) /\ c3 = At(w, 3) /\ c4 = At(w, 4)
    BY <1>1
  <2>4. Req!older(u, v) <=>
          \/ a1 < b1
          \/ a1 = b1 /\ a2 < b2
          \/ a1 = b1 /\ a2 = b2 /\ a3 < b3
          \/ a1 = b1 /\ a2 = b2 /\ a3 = b3 /\ a4 < b4
    BY <2>1, <2>2, OlderByParts, Zenon
  <2>5. Req!older(v, w) <=>
          \/ b1 < c1
          \/ b1 = c1 /\ b2 < c2
          \/ b1 = c1 /\ b2 = c2 /\ b3 < c3
          \/ b1 = c1 /\ b2 = c2 /\ b3 = c3 /\ b4 < c4
    BY <2>2, <2>3, OlderByParts, Zenon
  <2>6. Req!older(u, w) <=>
          \/ a1 < c1
          \/ a1 = c1 /\ a2 < c2
          \/ a1 = c1 /\ a2 = c2 /\ a3 < c3
          \/ a1 = c1 /\ a2 = c2 /\ a3 = c3 /\ a4 < c4
    BY <2>1, <2>3, OlderByParts, Zenon
  <2>7. QED
    BY <1>3, <2>4, <2>5, <2>6
<1>4. QED
  BY <1>2, <1>3

FourDigits == 0 .. 9999

\* The text of a number of up to four digits goes behind the month.
LEMMA SamePrefix ==
  ASSUME NEW m \in Nat, NEW c \in FourDigits, NEW d \in FourDigits
  PROVE  m * Req!digits(c) + c < m * Req!digits(d) + d <=> c < d
<1>1. ASSUME NEW x \in Nat, NEW y \in Nat, x <= y PROVE m * x <= m * y
  <2>1. PICK k \in Nat : y = x + k
    BY <1>1, y - x \in Nat
  <2>2. m * y = m * x + m * k /\ m * k \in Nat
    BY <2>1
  <2>3. QED
    BY <2>2
<1>2. PICK x \in Nat : x = Req!digits(c)
  BY DEF Req!digits, FourDigits
<1>3. PICK y \in Nat : y = Req!digits(d)
  BY DEF Req!digits, FourDigits
<1>4. (c <= d => x <= y) /\ (d <= c => y <= x)
  BY <1>2, <1>3 DEF Req!digits, FourDigits
<1>5. PICK p \in Nat, q \in Nat : p = m * x /\ q = m * y
  OBVIOUS
<1>6. (c <= d => p <= q) /\ (d <= c => q <= p)
  BY <1>1, <1>4, <1>5
<1>7. p + c < q + d <=> c < d
  BY <1>6 DEF FourDigits
<1>8. QED
  BY <1>2, <1>3, <1>5, <1>7

part_of(n) == IF n = Req!None THEN 0 ELSE n
TwoDigits == 0 .. 99
comb_of(sp, patch) == sp * 100 + patch

LEMMA CombOrder ==
  ASSUME NEW s \in TwoDigits, NEW p \in TwoDigits, NEW t \in TwoDigits, NEW q \in TwoDigits
  PROVE  /\ comb_of(s, p) \in FourDigits
         /\ comb_of(s, p) < comb_of(t, q) <=> s < t \/ (s = t /\ p < q)
BY DEF TwoDigits, FourDigits, comb_of

InNumbers(x, major, minor, sp, patch) ==
  /\ x.major = major /\ x.minor = minor
  /\ part_of(x.sp) = sp /\ part_of(x.patch) = patch
  /\ At(Req!vcs_semver(x), 1) = major
  /\ At(Req!vcs_semver(x), 2) = minor * Req!digits(comb_of(sp, patch)) + comb_of(sp, patch)
  /\ At(Req!vcs_semver(x), 3) = 0 /\ At(Req!vcs_semver(x), 4) = 0

LEMMA VcsInNumbers ==
  ASSUME NEW x \in VcsVersion
  PROVE  \E major \in Nat, minor \in Nat, sp \in TwoDigits, patch \in TwoDigits :
           InNumbers(x, major, minor, sp, patch)
<1>1. /\ x.major \in Nat /\ x.minor \in Nat
      /\ part_of(x.sp) \in TwoDigits /\ part_of(x.patch) \in TwoDigits
  BY DEF VcsVersion, Part, Req!None, part_of, TwoDigits
<1>2. Req!vcs_semver(x)
        = <<x.major, x.minor * Req!digits(comb_of(part_of(x.sp), part_of(x.patch)))
                       + comb_of(part_of(x.sp), part_of(x.patch))>>
  BY DEF Req!vcs_semver, part_of, comb_of
<1>3. PICK low : low = x.minor * Req!digits(comb_of(part_of(x.sp), part_of(x.patch)))
                         + comb_of(part_of(x.sp), part_of(x.patch))
  OBVIOUS
<1>4. /\ At(Req!vcs_semver(x), 1) = x.major /\ At(Req!vcs_semver(x), 2) = low
      /\ At(Req!vcs_semver(x), 3) = 0 /\ At(Req!vcs_semver(x), 4) = 0
  BY <1>2, <1>3 DEF At
<1>5. QED
  BY <1>1, <1>3, <1>4, Zenon DEF InNumbers

\* Versions of VCS of one release, or of different years, have the order that they
\* should have; those of different months of a year may not, which the run vcs_order
\* shows. (check_tool_requirements.py:264)
THEOREM VcsOrderInRelease ==
  ASSUME NEW v \in VcsVersion, NEW w \in VcsVersion, v.major # w.major \/ v.minor = w.minor
  PROVE  Req!older(Req!vcs_semver(v), Req!vcs_semver(w)) <=> vcs_older(v, w)
<1>1. PICK y \in Nat, m \in Nat, s \in TwoDigits, p \in TwoDigits :
        InNumbers(v, y, m, s, p)
  BY VcsInNumbers, Zenon
<1>2. PICK z \in Nat, n \in Nat, t \in TwoDigits, q \in TwoDigits :
        InNumbers(w, z, n, t, q)
  BY VcsInNumbers, Zenon
<1>3. PICK c \in FourDigits : c = comb_of(s, p)
  BY CombOrder, Zenon
<1>4. PICK d \in FourDigits : d = comb_of(t, q)
  BY CombOrder, Zenon
<1>5. c < d <=> s < t \/ (s = t /\ p < q)
  BY <1>3, <1>4, CombOrder, Zenon
<1>6. PICK h \in Nat, k \in Nat : h = Req!digits(c) /\ k = Req!digits(d)
  BY DEF Req!digits, FourDigits
<1>7. PICK a \in Nat : a = m * h + c
  BY DEF FourDigits
<1>8. PICK b \in Nat : b = n * k + d
  BY DEF FourDigits
<1>9. m = n => (a < b <=> c < d)
  BY <1>6, <1>7, <1>8, SamePrefix, Zenon
<1>10. At(Req!vcs_semver(v), 2) = a /\ At(Req!vcs_semver(w), 2) = b
  BY <1>1, <1>2, <1>3, <1>4, <1>6, <1>7, <1>8, Zenon DEF InNumbers
<1>11. Req!older(Req!vcs_semver(v), Req!vcs_semver(w)) <=>
         \/ y < z
         \/ y = z /\ a < b
         \/ y = z /\ a = b /\ 0 < 0
         \/ y = z /\ a = b /\ 0 = 0 /\ 0 < 0
  BY <1>1, <1>2, <1>10, OlderByParts, Zenon DEF InNumbers
<1>13. Req!older(Req!vcs_semver(v), Req!vcs_semver(w)) <=> y < z \/ (y = z /\ a < b)
  BY <1>11
<1>14. vcs_older(v, w) <=>
         \/ y < z
         \/ y = z /\ m < n
         \/ y = z /\ m = n /\ s < t
         \/ y = z /\ m = n /\ s = t /\ p < q
  BY <1>1, <1>2, Zenon DEF vcs_older, part_of, InNumbers
<1>15. y # z \/ m = n
  BY <1>1, <1>2 DEF InNumbers
<1>16. QED
  BY <1>5, <1>9, <1>13, <1>14, <1>15

-----------------------------------------------------------------------------
\* What an installed tool says of itself.
LEMMA SaidVersion ==
  ASSUME NEW tool, NEW version
  PROVE  Req!get_version(tool, Says(version)) = Req!Good(version)
<1> DEFINE output == Says(version).output
<1>1. /\ Says(version).runs = TRUE /\ output # <<>> /\ DOMAIN output = {1}
      /\ output[1].matches = TRUE /\ output[1].version = version
  BY DEF Says
<1>2. {i \in DOMAIN output : output[i].matches} = {1}
  BY <1>1
<1>3. (CHOOSE i \in {1} : \A j \in {1} : i <= j) = 1
  OBVIOUS
<1>4. QED
  BY <1>1, <1>2, <1>3 DEF Req!get_version

\* A tool that runs is compared by its version.
LEMMA CheckedByVersion ==
  ASSUME NEW tool, NEW min, NEW version, NEW least, NEW actual,
         Req!to_semver(tool, min, TRUE) = Req!Good(least),
         Req!to_semver(tool, version, FALSE) = Req!Good(actual)
  PROVE  Req!check(tool, min, Says(version)) <=> ~Req!older(actual, least)
<1>1. \A v : Req!Good(v).ok = TRUE /\ Req!Good(v).v = v
  BY DEF Req!Good
<1>2. Req!check(tool, min, Says(version)) <=>
        /\ Req!to_semver(tool, min, TRUE).ok
        /\ Req!Good(version).ok
        /\ Req!to_semver(tool, Req!Good(version).v, FALSE).ok
        /\ ~Req!older(Req!to_semver(tool, Req!Good(version).v, FALSE).v,
                      Req!to_semver(tool, min, TRUE).v)
  BY SaidVersion, Zenon DEF Req!check
<1>3. QED
  BY <1>1, <1>2, Zenon

Padded(version, a, b, s) ==
  /\ \A from_req : Req!to_semver("vivado", version, from_req) = Req!Good(s)
  /\ At(s, 1) = a /\ At(s, 2) = b /\ At(s, 3) = 0 /\ At(s, 4) = 0

LEMMA VivadoSemver ==
  ASSUME NEW a \in Nat, NEW b \in Nat, NEW version, version = <<a, b>>
  PROVE  \E s : Padded(version, a, b, s)
<1>1. version \in Seq(Nat) /\ Len(version) = 2 /\ version[1] = a /\ version[2] = b
  OBVIOUS
<1>2. PICK s : s = Append(version, 0)
  OBVIOUS
<1>3. s \in Seq(Nat) /\ Len(s) = 3 /\ s[1] = a /\ s[2] = b /\ s[3] = 0
  <2>1. 0 \in Nat
    OBVIOUS
  <2>2. /\ s \in Seq(Nat) /\ Len(s) = Len(version) + 1
        /\ \A i \in 1 .. Len(version) : s[i] = version[i]
        /\ s[Len(version) + 1] = 0
    BY <1>1, <1>2, <2>1, AppendProperties
  <2>3. QED
    BY <1>1, <2>2
<1>4. At(s, 1) = a /\ At(s, 2) = b /\ At(s, 3) = 0 /\ At(s, 4) = 0
  BY <1>3 DEF At
<1>5. \A from_req : Req!to_semver("vivado", version, from_req) = Req!Good(s)
  BY <1>1, <1>2 DEF Req!to_semver
<1>6. QED
  BY <1>4, <1>5, Zenon DEF Padded

\* The versions of the other two tools, compared.
LEMMA VivadoChecked ==
  ASSUME NEW y \in Nat, NEW min, NEW old, min = <<y, 2>>, old = <<y, 1>>
  PROVE  /\ Req!check("vivado", min, Says(min))
         /\ ~Req!check("vivado", min, Says(old))
         /\ ~Req!check("vivado", min, Absent)
<1>1. PICK v : Padded(old, y, 1, v)
  <2>1. 1 \in Nat
    OBVIOUS
  <2>2. QED
    BY <2>1, VivadoSemver, Zenon
<1>2. PICK w : Padded(min, y, 2, w)
  <2>1. 2 \in Nat
    OBVIOUS
  <2>2. QED
    BY <2>1, VivadoSemver, Zenon
<1>3. ~Req!older(w, w) /\ Req!older(v, w)
  BY <1>1, <1>2, OlderByParts DEF Padded
<1>4. Req!check("vivado", min, Says(min)) /\ ~Req!check("vivado", min, Says(old))
  BY <1>1, <1>2, <1>3, CheckedByVersion, Zenon DEF Padded
<1>5. ~Req!check("vivado", min, Absent)
  <2>1. Req!get_version("vivado", Absent).ok = FALSE
    BY DEF Req!get_version, Absent, Req!Bad
  <2>2. QED
    BY <2>1, Zenon DEF Req!check
<1>6. QED
  BY <1>4, <1>5

\* What the two other tools may say of themselves.
VivadoSaid    == {Says(<<2020, 2>>), Says(<<2020, 1>>), Absent}
VerilatorSaid == {Says(<<4, 210>>), Says(<<4, 30, 1>>), Says(<<5>>)}

LEMMA VerilatorChecked ==
  ASSUME NEW said \in VerilatorSaid
  PROVE  Req!check("verilator", <<4, 210>>, said) <=> said # Says(<<4, 30, 1>>)
<1>1. \A v, from_req : Req!to_semver("verilator", v, from_req) = Req!Good(v)
  BY DEF Req!to_semver
<1>2. /\ At(<<4, 210>>, 1) = 4 /\ At(<<4, 210>>, 2) = 210
      /\ At(<<4, 210>>, 3) = 0 /\ At(<<4, 210>>, 4) = 0
  BY DEF At
<1>3. /\ At(<<4, 30, 1>>, 1) = 4 /\ At(<<4, 30, 1>>, 2) = 30
      /\ At(<<4, 30, 1>>, 3) = 1 /\ At(<<4, 30, 1>>, 4) = 0
  BY DEF At
<1>4. At(<<5>>, 1) = 5
  BY DEF At
<1>5. /\ ~Req!older(<<4, 210>>, <<4, 210>>) /\ ~Req!older(<<5>>, <<4, 210>>)
      /\ Req!older(<<4, 30, 1>>, <<4, 210>>)
  BY <1>2, <1>3, <1>4, OlderByParts
<1>6. \A v : Req!check("verilator", <<4, 210>>, Says(v)) <=> ~Req!older(v, <<4, 210>>)
  BY <1>1, CheckedByVersion, Zenon
<1>7. said \in {Says(<<4, 210>>), Says(<<4, 30, 1>>), Says(<<5>>)}
  BY DEF VerilatorSaid
<1>8. QED
  BY <1>5, <1>6, <1>7, Zenon

LEMMA VcsChecked ==
  ASSUME NEW vcs \in VcsVersion, vcs.major # 2020 \/ vcs.minor = 3
  PROVE  Req!check("vcs", vcs_required, Says(vcs)) <=> ~vcs_older(vcs, vcs_required)
<1>1. /\ vcs_required \in VcsVersion /\ vcs_required.suffix = FALSE
      /\ vcs_required.major = 2020 /\ vcs_required.minor = 3
  BY DEF vcs_required, VcsVersion, Part, Req!None
<1>2. /\ Req!to_semver("vcs", vcs_required, TRUE) = Req!Good(Req!vcs_semver(vcs_required))
      /\ Req!to_semver("vcs", vcs, FALSE) = Req!Good(Req!vcs_semver(vcs))
  BY <1>1 DEF Req!to_semver
<1>3. Req!older(Req!vcs_semver(vcs), Req!vcs_semver(vcs_required)) <=> vcs_older(vcs, vcs_required)
  BY <1>1, VcsOrderInRelease
<1>4. QED
  BY <1>2, <1>3, CheckedByVersion, Zenon

\* The check of the tools, for any version of VCS that has its right order.
LEMMA CheckedExact ==
  ASSUME NEW vcs \in VcsVersion, vcs.major # 2020 \/ vcs.minor = 3,
         NEW named \in SUBSET {"vcs", "vivado", "other"},
         NEW vivado \in VivadoSaid, NEW verilator \in VerilatorSaid,
         NEW state \in {"good", "other", "missing", "word", "more"}
  PROVE  Checked(named, state, vcs, vivado, verilator)
<1> DEFINE raw == required(state)
           installed == [vcs |-> Says(vcs), vivado |-> vivado, verilator |-> verilator]
           recent(t) == CASE t = "vcs" -> ~vcs_older(vcs, vcs_required)
                          [] t = "vivado" -> vivado = Says(<<2020, 2>>)
                          [] t = "verilator" -> verilator # Says(<<4, 30, 1>>)
<1>1. /\ DOMAIN raw = {"vcs", "vivado", "verilator"}
      /\ raw["vcs"].version = vcs_required /\ raw["vivado"].version = <<2020, 2>>
      /\ raw["verilator"].version = <<4, 210>>
      /\ raw["vcs"].kind = "dict" /\ raw["verilator"].kind = "string"
      /\ raw["vcs"].min_version = "good" /\ raw["vcs"].as_needed = "true" /\ raw["vcs"].others = FALSE
  BY DEF required, Requirement
<1>2. Req!read_tool_requirements_ok(raw) <=> state = "good"
  <2>1. /\ raw["vivado"].kind = (IF state = "other" THEN "other" ELSE "dict")
        /\ raw["vivado"].min_version = (IF state = "missing" THEN "absent" ELSE "good")
        /\ raw["vivado"].as_needed = (IF state = "word" THEN "wrong" ELSE "true")
        /\ raw["vivado"].others <=> state = "more"
    BY DEF required, Requirement
  <2> HIDE DEF raw
  <2>2. Req!dict_to_tool_req_ok(raw["vcs"])
    BY <1>1 DEF Req!dict_to_tool_req_ok
  <2>3. raw["vivado"].kind # "string"
        /\ (raw["vivado"].kind = "dict" /\ Req!dict_to_tool_req_ok(raw["vivado"]) <=> state = "good")
    BY <2>1 DEF Req!dict_to_tool_req_ok
  <2>4. QED
    BY <1>1, <2>2, <2>3 DEF Req!read_tool_requirements_ok
<1>3. ASSUME state = "good"
      PROVE  Req!checked(named, raw) = {"verilator"} \cup (named \cap {"vcs", "vivado"})
  <2>1. raw["vivado"].kind = "dict" /\ raw["vivado"].as_needed = "true"
    BY <1>3 DEF required, Requirement
  <2> HIDE DEF raw
  <2>2. QED
    BY <1>1, <2>1 DEF Req!checked, Req!as_needed
<1>4. /\ installed["vcs"] = Says(vcs) /\ installed["vivado"] = vivado
      /\ installed["verilator"] = verilator
  OBVIOUS
<1>5. /\ Req!check("vcs", raw["vcs"].version, installed["vcs"]) <=> recent("vcs")
      /\ Req!check("vivado", raw["vivado"].version, installed["vivado"]) <=> recent("vivado")
      /\ Req!check("verilator", raw["verilator"].version, installed["verilator"])
           <=> recent("verilator")
  <2>1. Req!check("vcs", vcs_required, Says(vcs)) <=> ~vcs_older(vcs, vcs_required)
    BY VcsChecked
  <2>2. Req!check("vivado", <<2020, 2>>, vivado) <=> vivado = Says(<<2020, 2>>)
    <3>1. /\ Req!check("vivado", <<2020, 2>>, Says(<<2020, 2>>))
          /\ ~Req!check("vivado", <<2020, 2>>, Says(<<2020, 1>>))
          /\ ~Req!check("vivado", <<2020, 2>>, Absent)
      BY VivadoChecked, 2020 \in Nat
    <3>2. QED
      BY <3>1 DEF VivadoSaid
  <2>3. Req!check("verilator", <<4, 210>>, verilator) <=> verilator # Says(<<4, 30, 1>>)
    BY VerilatorChecked DEF VerilatorSaid
  <2> HIDE DEF raw, installed
  <2>4. QED
    BY <1>1, <1>4, <2>1, <2>2, <2>3
<1> HIDE DEF raw, installed, recent
<1>6. Req!main(named, raw, installed) = 0
        <=> /\ Req!read_tool_requirements_ok(raw)
            /\ \A t \in Req!checked(named, raw) : Req!check(t, raw[t].version, installed[t])
            /\ named \subseteq DOMAIN raw
  BY DEF Req!main
<1>7. named \subseteq DOMAIN raw <=> "other" \notin named
  BY <1>1
<1>8. Req!main(named, raw, installed) = 0
        <=> /\ state = "good" /\ "other" \notin named
            /\ \A t \in named \cup {"verilator"} : recent(t)
  <2>1. CASE state # "good"
    BY <1>2, <1>6, <2>1
  <2>2. CASE "other" \in named
    BY <1>6, <1>7, <2>2
  <2>3. CASE state = "good" /\ "other" \notin named
    <3>1. Req!checked(named, raw) = named \cup {"verilator"}
      BY <1>3, <2>3
    <3>2. \A t \in named \cup {"verilator"} :
            Req!check(t, raw[t].version, installed[t]) <=> recent(t)
      BY <1>5, <2>3
    <3>3. QED
      BY <1>2, <1>6, <1>7, <2>3, <3>1, <3>2
  <2>4. QED
    BY <2>1, <2>2, <2>3
<1>9. QED
  BY <1>8, Zenon DEF Checked, raw, installed, recent

-----------------------------------------------------------------------------
(* metadata.py, ibex_cmd.py: the lists are without doubles, and so is what is made *)
(* of them; what is in it can be said without its order.                           *)

\* A list that has each member of a set once.
Enumerates(r, A) ==
  /\ r \in Seq(A)
  /\ \A a \in A : \E k \in 1 .. Len(r) : r[k] = a
  /\ \A j, k \in 1 .. Len(r) : r[j] = r[k] => j = k

LEMMA EnumeratesElements ==
  ASSUME NEW r, NEW A, Enumerates(r, A)
  PROVE  /\ Elements(r) = A /\ DOMAIN r = 1 .. Len(r) /\ Len(r) \in Nat
         /\ r = <<>> <=> A = {}
         /\ \A i, j \in DOMAIN r : r[i] = r[j] => i = j
<1>1. r \in Seq(A) /\ Len(r) \in Nat /\ DOMAIN r = 1 .. Len(r)
  BY DEF Enumerates
<1>2. \A k \in DOMAIN r : r[k] \in A
  BY <1>1
<1>3. Elements(r) = A
  BY <1>1, <1>2 DEF Enumerates, Elements
<1>4. ASSUME r = <<>> PROVE A = {}
  BY <1>4 DEF Enumerates
<1>5. ASSUME A = {} PROVE r = <<>>
  <2>1. Len(r) = 0
    BY <1>1, <1>2, <1>5
  <2>2. QED
    BY <1>1, <2>1
<1>6. QED
  BY <1>1, <1>3, <1>4, <1>5 DEF Enumerates

LEMMA EnumeratesNothing == Enumerates(<<>>, {})
  BY DEF Enumerates

LEMMA EnumeratesSame ==
  ASSUME NEW S, NEW list \in Seq(S), \A i, j \in DOMAIN list : list[i] = list[j] => i = j
  PROVE  Enumerates(list, Elements(list))
<1>1. Len(list) \in Nat /\ DOMAIN list = 1 .. Len(list) /\ list \in Seq(Elements(list))
  BY DEF Elements
<1>2. QED
  BY <1>1 DEF Enumerates, Elements

\* Each element replaced by what it stands for.
LEMMA EnumeratesImage ==
  ASSUME NEW r, NEW A, NEW g, Enumerates(r, A), \A a, b \in A : g[a] = g[b] => a = b
  PROVE  Enumerates([i \in DOMAIN r |-> g[r[i]]], {g[a] : a \in A})
<1> DEFINE B == {g[a] : a \in A}
           q == [i \in DOMAIN r |-> g[r[i]]]
<1>1. r \in Seq(A) /\ Len(r) \in Nat /\ DOMAIN r = 1 .. Len(r)
  BY DEF Enumerates
<1>2. \A k \in 1 .. Len(r) : r[k] \in A
  BY <1>1
<1>3. q \in [1 .. Len(r) -> B]
  BY <1>1, <1>2
<1>4. q \in Seq(B) /\ Len(q) = Len(r)
  BY <1>1, <1>3
<1>5. \A b \in B : \E k \in 1 .. Len(r) : q[k] = b
  BY <1>1 DEF Enumerates
<1>6. \A j, k \in 1 .. Len(r) : q[j] = q[k] => j = k
  <2>1. SUFFICES ASSUME NEW j \in 1 .. Len(r), NEW k \in 1 .. Len(r), q[j] = q[k] PROVE j = k
    OBVIOUS
  <2>2. g[r[j]] = g[r[k]]
    BY <1>1, <2>1
  <2>3. r[j] = r[k]
    BY <1>2, <2>2
  <2>4. QED
    BY <2>3 DEF Enumerates
<1>7. QED
  BY <1>4, <1>5, <1>6 DEF Enumerates

\* One list behind another.
LEMMA EnumeratesBoth ==
  ASSUME NEW r, NEW A, NEW q, NEW B, Enumerates(r, A), Enumerates(q, B), A \cap B = {}
  PROVE  Enumerates(r \o q, A \cup B)
<1>1. /\ r \in Seq(A \cup B) /\ q \in Seq(A \cup B)
      /\ Len(r) \in Nat /\ Len(q) \in Nat
      /\ \A k \in 1 .. Len(r) : r[k] \in A
      /\ \A k \in 1 .. Len(q) : q[k] \in B
  BY DEF Enumerates
<1> DEFINE both == r \o q
<1>2. /\ both \in Seq(A \cup B) /\ Len(both) = Len(r) + Len(q)
      /\ \A i \in 1 .. Len(r) + Len(q) :
           both[i] = IF i <= Len(r) THEN r[i] ELSE q[i - Len(r)]
  BY <1>1, ConcatProperties
<1> HIDE DEF both
<1>3. \A a \in A \cup B : \E k \in 1 .. Len(both) : both[k] = a
  <2>1. TAKE a \in A \cup B
  <2>2. CASE a \in A
    <3>1. PICK k \in 1 .. Len(r) : r[k] = a
      BY <2>2 DEF Enumerates
    <3>2. k \in 1 .. Len(both) /\ both[k] = a
      BY <1>1, <1>2, <3>1
    <3>3. QED
      BY <3>2
  <2>3. CASE a \in B
    <3>1. PICK k \in 1 .. Len(q) : q[k] = a
      BY <2>3 DEF Enumerates
    <3>2. PICK i \in 1 .. Len(both) : i = Len(r) + k
      BY <1>1, <1>2, <3>1
    <3>3. ~(i <= Len(r)) /\ i - Len(r) = k
      BY <1>1, <3>2
    <3>4. both[i] = a
      BY <1>2, <3>1, <3>2, <3>3
    <3>5. QED
      BY <3>4
  <2>4. QED
    BY <2>2, <2>3
<1>4. \A j, k \in 1 .. Len(both) : both[j] = both[k] => j = k
  <2>1. SUFFICES ASSUME NEW j \in 1 .. Len(both), NEW k \in 1 .. Len(both), both[j] = both[k]
                 PROVE  j = k
    OBVIOUS
  <2>2. CASE j <= Len(r) /\ k <= Len(r)
    <3>1. j \in 1 .. Len(r) /\ k \in 1 .. Len(r) /\ r[j] = r[k]
      BY <1>1, <1>2, <2>1, <2>2
    <3>2. QED
      BY <3>1 DEF Enumerates
  <2>3. CASE ~(j <= Len(r)) /\ ~(k <= Len(r))
    <3>1. PICK a \in 1 .. Len(q), b \in 1 .. Len(q) : a = j - Len(r) /\ b = k - Len(r)
      BY <1>1, <1>2, <2>1, <2>3
    <3>2. q[a] = q[b]
      BY <1>2, <2>1, <2>3, <3>1
    <3>3. a = b
      BY <3>2 DEF Enumerates
    <3>4. QED
      BY <1>1, <1>2, <3>1, <3>3
  <2>4. \A i \in 1 .. Len(both) :
          (i <= Len(r) => both[i] \in A) /\ (~(i <= Len(r)) => both[i] \in B)
    BY <1>1, <1>2
  <2>5. CASE j <= Len(r) /\ ~(k <= Len(r))
    BY <2>1, <2>4, <2>5
  <2>6. CASE ~(j <= Len(r)) /\ k <= Len(r)
    BY <2>1, <2>4, <2>6
  <2>7. QED
    BY <2>2, <2>3, <2>5, <2>6
<1>5. QED
  BY <1>2, <1>3, <1>4 DEF Enumerates, both

-----------------------------------------------------------------------------
\* Induction from the well-foundedness of < on Nat.
LEMMA LeastNumber ==
  ASSUME NEW S \in SUBSET Nat, S # {}
  PROVE  \E n \in S : \A m \in S : n <= m
<1>1. PICK n \in S : \A m \in S : <<m, n>> \notin OpToRel(<, Nat)
  BY NatLessThanWellFounded, WFMin
<1>2. \A m \in S : ~(m < n)
  BY <1>1 DEF OpToRel
<1>3. QED
  BY <1>2

LEMMA OneByOne ==
  ASSUME NEW N \in Nat, NEW S, 0 \in S, \A n \in 1 .. N : n - 1 \in S => n \in S
  PROVE  0 .. N \subseteq S
<1>1. SUFFICES ASSUME (0 .. N) \ S # {} PROVE FALSE
  OBVIOUS
<1>2. PICK n \in (0 .. N) \ S : \A m \in (0 .. N) \ S : n <= m
  <2>1. (0 .. N) \ S \in SUBSET Nat
    OBVIOUS
  <2>2. QED
    BY <1>1, <2>1, LeastNumber
<1>3. n \in 1 .. N /\ n - 1 \in 0 .. N /\ ~(n <= n - 1)
  BY <1>2
<1>4. QED
  BY <1>2, <1>3

\* The list so far.
with_next(r, list, times, i) == r \o [k \in 1 .. times[i] |-> list[i]]

Repeats(f, list, times, N) ==
  f = [i \in 0 .. N |-> IF i = 0 THEN <<>> ELSE with_next(f[i - 1], list, times, i)]

LEMMA RepeatsExists ==
  ASSUME NEW list, NEW times, NEW M \in Nat
  PROVE  \E f : Repeats(f, list, times, M)
<1> DEFINE S == {N \in Nat : \E f : Repeats(f, list, times, N)}
<1>1. 0 \in S
  <2>1. Repeats([n \in 0 .. 0 |-> <<>>], list, times, 0)
    BY DEF Repeats
  <2>2. QED
    BY <2>1
<1>2. ASSUME NEW N \in 1 .. M, N - 1 \in S PROVE N \in S
  <2>1. PICK f : Repeats(f, list, times, N - 1)
    BY <1>2
  <2> DEFINE g == [n \in 0 .. N |-> IF n = N THEN with_next(f[N - 1], list, times, N) ELSE f[n]]
  <2>2. \A n \in 0 .. N - 1 : g[n] = f[n] /\ n # N
    OBVIOUS
  <2>3. \A n \in 0 .. N : g[n] = IF n = 0 THEN <<>> ELSE with_next(g[n - 1], list, times, n)
    <3>1. TAKE n \in 0 .. N
    <3>2. CASE n = N
      BY <2>2, <3>2
    <3>3. CASE n # N
      <4>1. n \in 0 .. N - 1 /\ (n # 0 => n - 1 \in 0 .. N - 1)
        BY <3>3
      <4>2. f[n] = IF n = 0 THEN <<>> ELSE with_next(f[n - 1], list, times, n)
        BY <2>1, <4>1 DEF Repeats
      <4>3. QED
        BY <2>2, <4>1, <4>2
    <3>4. QED
      BY <3>2, <3>3
  <2>4. Repeats(g, list, times, N)
    BY <2>3 DEF Repeats
  <2>5. QED
    BY <2>4
<1>3. QED
  <2>1. 0 .. M \subseteq S
    BY <1>1, <1>2, OneByOne
  <2>2. QED
    BY <2>1

LEMMA RepeatedRepeats ==
  ASSUME NEW S, NEW list \in Seq(S), NEW times
  PROVE  \E f : Repeats(f, list, times, Len(list)) /\ Sel!repeated(list, times) = f[Len(list)]
<1>1. \E f : Repeats(f, list, times, Len(list))
  BY RepeatsExists, Len(list) \in Nat
<1> DEFINE f == CHOOSE f : Repeats(f, list, times, Len(list))
<1>2. Repeats(f, list, times, Len(list))
  BY <1>1
<1>3. Sel!repeated(list, times) = f[Len(list)]
  BY DEF Sel!repeated, Repeats, with_next
<1>4. QED
  BY <1>2, <1>3

\* What is repeated once or not at all.
LEMMA RepeatedOnce ==
  ASSUME NEW A, NEW list, NEW times, Enumerates(list, A),
         \A i \in DOMAIN list : times[i] \in {0, 1}
  PROVE  Enumerates(Sel!repeated(list, times), {list[i] : i \in {j \in DOMAIN list : times[j] = 1}})
<1> DEFINE upto(n) == {list[i] : i \in {j \in 1 .. n : times[j] = 1}}
<1>1. list \in Seq(A) /\ Len(list) \in Nat /\ DOMAIN list = 1 .. Len(list)
  BY DEF Enumerates
<1>2. PICK f : Repeats(f, list, times, Len(list)) /\ Sel!repeated(list, times) = f[Len(list)]
  BY <1>1, RepeatedRepeats
<1> DEFINE S == {n \in Nat : Enumerates(f[n], upto(n))}
<1>0. PICK N \in Nat : N = Len(list)
  BY <1>1
<1>a. \A n \in 0 .. N : f[n] = IF n = 0 THEN <<>> ELSE with_next(f[n - 1], list, times, n)
  <2>1. f = [n \in 0 .. N |-> IF n = 0 THEN <<>> ELSE with_next(f[n - 1], list, times, n)]
    BY <1>0, <1>2, Zenon DEF Repeats
  <2>2. QED
    BY <2>1
<1>3. 0 \in S
  <2>1. f[0] = <<>> /\ upto(0) = {}
    BY <1>a
  <2>2. QED
    BY <2>1, EnumeratesNothing, Zenon
<1>4. ASSUME NEW n \in 1 .. Len(list), n - 1 \in S PROVE n \in S
  <2>1. f[n] = f[n - 1] \o [k \in 1 .. times[n] |-> list[n]]
    <3>1. n \in 0 .. N /\ n # 0
      BY <1>0, <1>4
    <3>2. QED
      BY <1>a, <3>1, Zenon DEF with_next
  <2>2. Enumerates(f[n - 1], upto(n - 1))
    BY <1>4
  <2>3. 1 .. n = (1 .. n - 1) \cup {n} /\ n \notin 1 .. n - 1
    OBVIOUS
  <2>4. CASE times[n] = 1
    <3>1. [k \in 1 .. times[n] |-> list[n]] = <<list[n]>>
      BY <2>4
    <3>2. Enumerates(<<list[n]>>, {list[n]})
      BY DEF Enumerates
    <3>3. upto(n - 1) \cap {list[n]} = {}
      BY <1>1, <2>3 DEF Enumerates
    <3>4. upto(n) = upto(n - 1) \cup {list[n]}
      BY <2>3, <2>4
    <3>5. QED
      <4>1. PICK r, B, C : r = f[n - 1] /\ B = upto(n - 1) /\ C = upto(n)
        OBVIOUS
      <4> HIDE DEF upto
      <4>2. PICK a : a = list[n]
        OBVIOUS
      <4>3. Enumerates(r \o <<a>>, B \cup {a})
        BY <2>2, <3>2, <3>3, <4>1, <4>2, EnumeratesBoth, Zenon
      <4>4. Enumerates(f[n], upto(n))
        BY <2>1, <3>1, <3>4, <4>1, <4>2, <4>3, Zenon
      <4>5. QED
        BY <1>1, <4>4 DEF upto
  <2>5. CASE times[n] = 0
    <3>1. [k \in 1 .. times[n] |-> list[n]] = <<>>
      BY <2>5
    <3>2. upto(n - 1) \cap {} = {}
      OBVIOUS
    <3>3. upto(n) = upto(n - 1) \cup {}
      BY <2>3, <2>5
    <3>4. QED
      <4> HIDE DEF upto
      <4>1. Enumerates(f[n - 1] \o <<>>, upto(n - 1) \cup {})
        BY <2>2, <3>2, EnumeratesNothing, EnumeratesBoth, Zenon
      <4>2. Enumerates(f[n], upto(n))
        BY <2>1, <3>1, <3>3, <4>1, Zenon
      <4>3. QED
        BY <1>1, <4>2 DEF upto
  <2>6. QED
    BY <1>1, <2>4, <2>5
<1>5. Len(list) \in S
  <2> HIDE DEF S
  <2>1. 0 .. Len(list) \subseteq S
    BY <1>1, <1>3, <1>4, OneByOne
  <2>2. QED
    BY <1>1, <2>1
<1>6. QED
  BY <1>1, <1>2, <1>5

\* What is at some places.
LEMMA ChosenOnce ==
  ASSUME NEW A, NEW list, Enumerates(list, A), NEW at \in SUBSET DOMAIN list
  PROVE  Enumerates(Sel!chosen(list, at), {list[i] : i \in at})
<1> DEFINE times == [i \in DOMAIN list |-> IF i \in at THEN 1 ELSE 0]
<1>1. {j \in DOMAIN list : times[j] = 1} = at /\ \A i \in DOMAIN list : times[i] \in {0, 1}
  OBVIOUS
<1>2. Sel!chosen(list, at) = Sel!repeated(list, times)
  BY DEF Sel!chosen
<1> HIDE DEF times
<1>3. Enumerates(Sel!repeated(list, times), {list[i] : i \in {j \in DOMAIN list : times[j] = 1}})
  BY <1>1, RepeatedOnce
<1>4. QED
  BY <1>1, <1>2, <1>3

\* A test with one parameter at most is listed once when the core has what it needs.
LEMMA OneParameter ==
  ASSUME NEW cfg, NEW t, NEW params \in Seq(Param), params = t.rtl_params, t.limited \in BOOLEAN,
         Len(params) = IF t.limited THEN 1 ELSE 0
  PROVE  /\ Sel!unknown(cfg, params) <=> ~params_known(cfg, params)
         /\ Sel!times(cfg, t) \in {0, 1}
         /\ Sel!times(cfg, t) = 1 <=> params_met(cfg, params)
<1>0. Len(<<>>) = 0
  OBVIOUS
<1>1. CASE params = <<>>
  <2>1. Sel!times(cfg, t) = 1
    BY <1>0, <1>1 DEF Sel!times
  <2>2. params_met(cfg, params) /\ params_known(cfg, params)
    BY <1>1 DEF params_met, params_known, Elements
  <2>3. ~Sel!unknown(cfg, params)
    BY <1>1 DEF Sel!unknown
  <2>4. QED
    BY <2>1, <2>2, <2>3
<1>2. CASE Len(params) = 1
  <2>1. DOMAIN params = {1} /\ 1 .. 1 = {1} /\ 1 .. 1 - 1 = {}
    <3>1. DOMAIN params = 1 .. 1
      BY <1>2
    <3>2. QED
      BY <3>1
  <2>2. Elements(params) = {params[1]}
    BY <2>1 DEF Elements
  <2>3. params_met(cfg, params) <=> cfg[params[1].name] \in params[1].values
    BY <2>2 DEF params_met
  <2>4. Sel!unknown(cfg, params) <=> ~params_known(cfg, params)
    BY <2>1, <2>2 DEF params_known, Sel!unknown
  <2>5. Sel!kept(cfg, params) = IF params_met(cfg, params) THEN {1} ELSE {}
    BY <2>1, <2>3 DEF Sel!kept
  <2>6. Cardinality({1}) = 1 /\ Cardinality({}) = 0
    BY FS_Singleton, FS_EmptySet
  <2>7. Sel!times(cfg, t) = IF params_met(cfg, params) THEN 1 ELSE 0
    <3>1. Sel!times(cfg, t) = Cardinality(Sel!kept(cfg, params))
      BY <1>2 DEF Sel!times, Sel!Cardinality, Cardinality
    <3>2. CASE params_met(cfg, params)
      BY <2>5, <2>6, <3>1, <3>2
    <3>3. CASE ~params_met(cfg, params)
      BY <2>5, <2>6, <3>1, <3>3
    <3>4. QED
      BY <3>2, <3>3
  <2>8. QED
    BY <2>4, <2>7
<1>3. Len(params) = 0 => params = <<>>
  OBVIOUS
<1>4. Len(params) \in {0, 1}
  OBVIOUS
<1>5. QED
  BY <1>1, <1>2, <1>3, <1>4

OneParam(A) ==
  \A e \in A : /\ e.rtl_params \in Seq(Param) /\ e.limited \in BOOLEAN
               /\ Len(e.rtl_params) = IF e.limited THEN 1 ELSE 0
NamedOnce(A) == \A e, f \in A : e.test = f.test => e = f

LEMMA FilteredExact ==
  ASSUME NEW cfg, NEW A, NEW tests, Enumerates(tests, A), OneParam(A)
  PROVE  LET filtered == Sel!filter_tests_by_config(cfg, tests)
         IN  /\ filtered.ok <=> \A e \in A : params_known(cfg, e.rtl_params)
             /\ filtered.ok =>
                  Enumerates(filtered.tests, {e \in A : params_met(cfg, e.rtl_params)})
<1> DEFINE filtered == Sel!filter_tests_by_config(cfg, tests)
           times == [i \in DOMAIN tests |-> Sel!times(cfg, tests[i])]
<1>1. /\ \A i \in DOMAIN tests : tests[i] \in A
      /\ \A e \in A : \E i \in DOMAIN tests : tests[i] = e
  BY EnumeratesElements DEF Elements
<1>2. \A i \in DOMAIN tests :
        /\ Sel!unknown(cfg, tests[i].rtl_params) <=> ~params_known(cfg, tests[i].rtl_params)
        /\ times[i] \in {0, 1} /\ (times[i] = 1 <=> params_met(cfg, tests[i].rtl_params))
  <2>1. TAKE i \in DOMAIN tests
  <2>2. PICK t, params :
          /\ t = tests[i] /\ params = t.rtl_params /\ params \in Seq(Param) /\ t.limited \in BOOLEAN
          /\ Len(params) = IF t.limited THEN 1 ELSE 0
    <3>1. PICK t : t = tests[i] /\ t \in A
      BY <1>1
    <3>2. /\ t.rtl_params \in Seq(Param) /\ t.limited \in BOOLEAN
          /\ Len(t.rtl_params) = IF t.limited THEN 1 ELSE 0
      BY <3>1, Zenon DEF OneParam
    <3>3. QED
      BY <3>1, <3>2, Zenon
  <2>3. times[i] = Sel!times(cfg, t)
    BY <2>2
  <2>4. QED
    BY <2>2, <2>3, OneParameter, Zenon
<1>3. /\ filtered.ok <=> ~\E i \in DOMAIN tests : Sel!unknown(cfg, tests[i].rtl_params)
      /\ filtered.ok => filtered.tests = Sel!repeated(tests, times)
  BY DEF Sel!filter_tests_by_config, Sel!Raised, Sel!Done
<1> HIDE DEF times, filtered
<1>4. filtered.ok <=> \A e \in A : params_known(cfg, e.rtl_params)
  BY <1>1, <1>2, <1>3
<1>5. Enumerates(Sel!repeated(tests, times),
                 {tests[i] : i \in {j \in DOMAIN tests : times[j] = 1}})
  BY <1>2, RepeatedOnce
<1>6. {tests[i] : i \in {j \in DOMAIN tests : times[j] = 1}}
        = {e \in A : params_met(cfg, e.rtl_params)}
  BY <1>1, <1>2
<1>7. QED
  BY <1>3, <1>4, <1>5, <1>6 DEF filtered

typed(tests, type) == [i \in DOMAIN tests |-> <<tests[i].test, tests[i].iterations, type>>]

LEMMA TypedOnce ==
  ASSUME NEW A, NEW tests, Enumerates(tests, A), NamedOnce(A), NEW type
  PROVE  Enumerates(typed(tests, type), {<<e.test, e.iterations, type>> : e \in A})
<1> DEFINE g == [e \in A |-> <<e.test, e.iterations, type>>]
<1>1. \A e, f \in A : g[e] = g[f] => e = f
  BY DEF NamedOnce
<1>2. \A i \in DOMAIN tests : tests[i] \in A
  BY EnumeratesElements DEF Elements
<1>3. typed(tests, type) = [i \in DOMAIN tests |-> g[tests[i]]]
  BY <1>2 DEF typed
<1>4. {<<e.test, e.iterations, type>> : e \in A} = {g[e] : e \in A}
  OBVIOUS
<1> HIDE DEF g
<1>5. Enumerates([i \in DOMAIN tests |-> g[tests[i]]], {g[e] : e \in A})
  BY <1>1, EnumeratesImage
<1>6. QED
  BY <1>3, <1>4, <1>5

-----------------------------------------------------------------------------
\* A test as often as the argument says, if it says so.
counted(e, n) == IF n > 0 /\ e.iterations > 0 THEN [e EXCEPT !.iterations = n] ELSE e

asks(test, e) == e.iterations > 0 /\ (e.test \in test \/ test \cap {"all", "all_riscvdv"} # {})

LEMMA CountedEntry ==
  ASSUME NEW e \in RiscvdvEntry, NEW n \in Nat
  PROVE  /\ counted(e, n).test = e.test /\ counted(e, n).rtl_params = e.rtl_params
         /\ counted(e, n).limited = e.limited
         /\ counted(e, n).iterations \in Int
         /\ counted(e, n).iterations > 0 <=> e.iterations > 0
         /\ e.iterations > 0 => counted(e, n).iterations = IF n > 0 THEN n ELSE e.iterations
  BY DEF counted, RiscvdvEntry

LEMMA RiscvdvTests ==
  ASSUME NEW test, NEW n \in Nat, NEW list \in Seq(RiscvdvEntry), Distinct(list)
  PROVE  Enumerates(Sel!process_riscvdv_testlist(test, n, list),
                    {counted(e, n) : e \in {d \in Elements(list) : asks(test, d)}})
<1> DEFINE g == [e \in Elements(list) |-> counted(e, n)]
           all == [i \in DOMAIN list |-> g[list[i]]]
           matches(e) == /\ e.test \in test \/ test \cap {"all", "all_riscvdv"} # {}
                         /\ e.iterations > 0
           at == {i \in DOMAIN list : matches(all[i])}
<1>1. \A i \in DOMAIN list : list[i] \in Elements(list) /\ list[i] \in RiscvdvEntry
  BY DEF Elements
<1>2. \A e \in Elements(list) : e \in RiscvdvEntry
  BY <1>1 DEF Elements
<1>3. \A i \in DOMAIN list : all[i] = counted(list[i], n)
  BY <1>1
<1>4. Sel!process_riscvdv_testlist(test, n, list) = Sel!chosen(all, at)
  <2>1. all = [i \in DOMAIN list |-> IF n > 0 /\ list[i].iterations > 0
                                     THEN [list[i] EXCEPT !.iterations = n] ELSE list[i]]
    BY <1>1 DEF counted
  <2> HIDE DEF all
  <2>2. QED
    BY <2>1, Zenon DEF Sel!process_riscvdv_testlist
<1>5. Enumerates(list, Elements(list))
  BY EnumeratesSame DEF Distinct
<1>6. \A a, b \in Elements(list) : g[a] = g[b] => a = b
  <2>1. SUFFICES ASSUME NEW a \in Elements(list), NEW b \in Elements(list), g[a] = g[b]
                 PROVE  a = b
    OBVIOUS
  <2>2. a.test = b.test
    BY <1>2, <2>1, CountedEntry
  <2>3. QED
    BY <2>2 DEF Elements, Distinct
<1>7. Enumerates(all, {g[a] : a \in Elements(list)})
  <2> HIDE DEF g
  <2>1. QED
    BY <1>5, <1>6, EnumeratesImage
<1>8. DOMAIN all = DOMAIN list /\ at \in SUBSET DOMAIN list
  OBVIOUS
<1>9. {all[i] : i \in at} = {counted(e, n) : e \in {d \in Elements(list) : asks(test, d)}}
  <2>1. \A i \in DOMAIN list : i \in at <=> asks(test, list[i])
    BY <1>1, <1>3, CountedEntry DEF asks
  <2> HIDE DEF at, all
  <2>2. QED
    BY <1>3, <1>8, <2>1 DEF Elements
<1> HIDE DEF all, at
<1>10. Enumerates(Sel!chosen(all, at), {all[i] : i \in at})
  BY <1>7, <1>8, ChosenOnce
<1>11. QED
  BY <1>4, <1>9, <1>10

-----------------------------------------------------------------------------
\* A directed test as it is imported.
imported(yaml, e) ==
  [test |-> e.test, iterations |-> e.iterations, limited |-> TRUE, rtl_params |-> params_of(yaml, e)]

LEMMA Imported ==
  ASSUME NEW yaml, DirectedYaml(yaml), NEW selected
  PROVE  LET asked == {e \in Elements(yaml.tests) : e.test \in selected}
             model == Sel!import_model(yaml, selected)
         IN  /\ model.ok <=> ~faulty(yaml, asked)
             /\ model.ok => Enumerates(model.tests, {imported(yaml, e) : e \in asked})
<1> DEFINE list  == yaml.tests
           asked == {e \in Elements(list) : e.test \in selected}
           model == Sel!import_model(yaml, selected)
           at    == {i \in DOMAIN list : list[i].test \in selected}
           raw   == Sel!chosen(list, at)
           g     == [e \in asked |-> imported(yaml, e)]
           fine  == /\ \A t \in {raw[i] : i \in DOMAIN raw} :
                         t.config \in DOMAIN yaml.configs /\ t.valid /\ t.iterations > 0
                    /\ \A c \in DOMAIN yaml.configs : yaml.configs[c].valid
<1>1. list \in Seq(DirectedEntry) /\ Distinct(list)
  BY DEF DirectedYaml
<1>2. \A e \in asked : e \in DirectedEntry
  BY <1>1 DEF Elements
<1>3. Enumerates(raw, asked)
  <2>1. Enumerates(list, Elements(list))
    BY <1>1, EnumeratesSame DEF Distinct
  <2>2. {list[i] : i \in at} = asked /\ at \in SUBSET DOMAIN list
    BY DEF Elements
  <2> HIDE DEF at, asked
  <2>3. Enumerates(raw, {list[i] : i \in at})
    BY <2>1, <2>2, ChosenOnce
  <2>4. QED
    BY <2>2, <2>3
<1> HIDE DEF raw
<1>4. {raw[i] : i \in DOMAIN raw} = asked
  <2> HIDE DEF asked
  <2>1. QED
    BY <1>3, EnumeratesElements DEF Elements
<1>5. fine <=> ~faulty(yaml, asked)
  <2>1. \A t \in asked : t.iterations > 0 <=> ~(t.iterations <= 0)
    BY <1>2 DEF DirectedEntry
  <2> HIDE DEF asked
  <2>2. QED
    BY <1>4, <2>1 DEF faulty
<1>6. /\ model.ok <=> fine
      /\ model.ok => model.tests = [i \in DOMAIN raw |->
                       [test |-> raw[i].test, iterations |-> raw[i].iterations, limited |-> TRUE,
                        rtl_params |-> yaml.configs[raw[i].config].rtl_params]]
  <2>1. model = IF ~fine THEN Sel!Raised
                ELSE Sel!Done([i \in DOMAIN raw |->
                       [test |-> raw[i].test, iterations |-> raw[i].iterations, limited |-> TRUE,
                        rtl_params |-> yaml.configs[raw[i].config].rtl_params]])
    BY Zenon DEF Sel!import_model, raw
  <2> HIDE DEF fine, model
  <2>2. QED
    BY <2>1 DEF Sel!Raised, Sel!Done
<1>7. Enumerates([i \in DOMAIN raw |-> g[raw[i]]], {g[e] : e \in asked})
  <2>1. \A a, b \in asked : g[a] = g[b] => a = b
    <3>1. SUFFICES ASSUME NEW a \in asked, NEW b \in asked, g[a] = g[b] PROVE a = b
      OBVIOUS
    <3>2. a.test = b.test
      BY <3>1 DEF imported
    <3>3. QED
      BY <1>1, <3>2 DEF Elements, Distinct
  <2> HIDE DEF asked, g
  <2>2. QED
    BY <1>3, <2>1, EnumeratesImage
<1>8. /\ {g[e] : e \in asked} = {imported(yaml, e) : e \in asked}
      /\ [i \in DOMAIN raw |-> g[raw[i]]]
           = [i \in DOMAIN raw |->
                [test |-> raw[i].test, iterations |-> raw[i].iterations, limited |-> TRUE,
                 rtl_params |-> yaml.configs[raw[i].config].rtl_params]]
  <2>1. \A i \in DOMAIN raw : raw[i] \in asked
    BY <1>4
  <2> HIDE DEF asked
  <2>2. \A i \in DOMAIN raw :
          g[raw[i]] = [test |-> raw[i].test, iterations |-> raw[i].iterations, limited |-> TRUE,
                       rtl_params |-> yaml.configs[raw[i].config].rtl_params]
    BY <2>1 DEF imported, params_of
  <2> HIDE DEF g
  <2>3. {g[e] : e \in asked} = {imported(yaml, e) : e \in asked}
    BY DEF g
  <2>4. QED
    BY <2>2, <2>3
<1> HIDE DEF g, fine, asked, model
<1>9. model.ok => Enumerates(model.tests, {imported(yaml, e) : e \in asked})
  BY <1>6, <1>7, <1>8
<1>10. QED
  BY <1>5, <1>6, <1>9, Zenon DEF asked, model

\* How often a directed test is run.
again(t, n) == [t EXCEPT !.iterations = IF n > 0 THEN n ELSE @]

directed_tests(x, n) ==
  {again(imported(x.files.custom, e), n) : e \in taken_custom(x)}
    \cup {again(imported(x.files.directed, e), n) : e \in taken_own(x)}

LEMMA AgainImported ==
  ASSUME NEW yaml, NEW e, NEW n
  PROVE  /\ again(imported(yaml, e), n).test = e.test
         /\ again(imported(yaml, e), n).rtl_params = params_of(yaml, e)
         /\ again(imported(yaml, e), n).iterations = IF n > 0 THEN n ELSE e.iterations
<1>1. PICK p : p = params_of(yaml, e)
  OBVIOUS
<1>2. imported(yaml, e) = [test |-> e.test, iterations |-> e.iterations, limited |-> TRUE, rtl_params |-> p]
  BY <1>1 DEF imported
<1>3. QED
  BY <1>1, <1>2 DEF again

LEMMA AgainLimited ==
  ASSUME NEW yaml, NEW e, NEW n PROVE again(imported(yaml, e), n).limited = TRUE
<1>1. PICK p : p = params_of(yaml, e)
  OBVIOUS
<1>2. imported(yaml, e) = [test |-> e.test, iterations |-> e.iterations, limited |-> TRUE, rtl_params |-> p]
  BY <1>1 DEF imported
<1>3. QED
  BY <1>2 DEF again

\* What is left of the directed tests that are asked for.
LEMMA TakenTests ==
  ASSUME NEW x
  PROVE  /\ taken_custom(x) = {e \in Elements(x.files.custom.tests) :
                               /\ custom_looked_at(x)
                               /\ \/ e.test \in x.test
                                  \/ x.test \cap {"all_directed", "all_custom"} # {}}
         /\ taken_own(x) = {e \in Elements(x.files.directed.tests) :
                            /\ own_looked_at(x)
                            /\ e.test \in x.test \/ "all_directed" \in x.test}
<1>1. custom_looked_at(x) => x.files.custom_exists
  BY DEF custom_looked_at
<1>2. QED
  BY <1>1 DEF taken_custom, asked_custom, left_out_custom, taken_own, asked_own, left_out_own

LEMMA DirectedTests ==
  ASSUME NEW x, SelectionInput(x), directed_looked_at(x), NEW n
  PROVE  LET directed == Sel!process_directed_testlist(x.test, n, x.files)
         IN  /\ directed.ok <=> /\ ~(custom_looked_at(x) /\ faulty(x.files.custom, taken_custom(x)))
                                /\ ~(own_looked_at(x) /\ faulty(x.files.directed, taken_own(x)))
             /\ directed.ok => Enumerates(directed.tests, directed_tests(x, n))
<1> DEFINE files == x.files
           selected(yaml, all) == IF x.test \cap all # {} THEN Sel!listed(yaml) ELSE x.test
           of_custom == selected(files.custom, {"all_directed", "all_custom"})
           of_own    == selected(files.directed, {"all_directed"})
           custom    == IF files.custom_exists THEN Sel!import_model(files.custom, of_custom)
                        ELSE Sel!Done(<<>>)
           own       == IF files.custom_exists /\ "all_custom" \in x.test THEN Sel!Done(<<>>)
                        ELSE Sel!import_model(files.directed, of_own)
           A == {imported(files.custom, e) : e \in taken_custom(x)}
           B == {imported(files.directed, e) : e \in taken_own(x)}
           directed  == Sel!process_directed_testlist(x.test, n, files)
           both      == custom.tests \o own.tests
           g         == [t \in A \cup B |-> again(t, n)]
<1>1. DirectedYaml(files.custom) /\ DirectedYaml(files.directed) /\ files.custom_exists \in BOOLEAN
  BY DEF SelectionInput
<1>2. Sel!Done(<<>>).ok = TRUE /\ Sel!Done(<<>>).tests = <<>>
  BY DEF Sel!Done
<1>3. /\ custom.ok <=> ~(custom_looked_at(x) /\ faulty(files.custom, taken_custom(x)))
      /\ custom.ok => Enumerates(custom.tests, A)
  <2>1. CASE files.custom_exists
    <3>1. taken_custom(x) = {e \in Elements(files.custom.tests) : e.test \in of_custom}
      BY <2>1, TakenTests DEF custom_looked_at, Sel!listed, Elements
    <3>2. custom = Sel!import_model(files.custom, of_custom) /\ custom_looked_at(x)
      BY <2>1 DEF custom_looked_at
    <3> HIDE DEF custom, of_custom
    <3>3. QED
      BY <1>1, <3>1, <3>2, Imported
  <2>2. CASE ~files.custom_exists
    <3>1. custom = Sel!Done(<<>>) /\ ~custom_looked_at(x) /\ taken_custom(x) = {}
      BY <2>2, TakenTests DEF custom_looked_at
    <3> HIDE DEF custom
    <3>2. A = {}
      BY <3>1
    <3>3. QED
      BY <1>2, <3>1, <3>2, EnumeratesNothing
  <2>3. QED
    BY <1>1, <2>1, <2>2
<1>4. /\ own.ok <=> ~(own_looked_at(x) /\ faulty(files.directed, taken_own(x)))
      /\ own.ok => Enumerates(own.tests, B)
  <2>1. CASE ~(files.custom_exists /\ "all_custom" \in x.test)
    <3>1. taken_own(x) = {e \in Elements(files.directed.tests) : e.test \in of_own}
      BY <2>1, TakenTests DEF own_looked_at, Sel!listed, Elements
    <3>2. own = Sel!import_model(files.directed, of_own) /\ own_looked_at(x)
      BY <2>1 DEF own_looked_at
    <3> HIDE DEF own, of_own
    <3>3. QED
      BY <1>1, <3>1, <3>2, Imported
  <2>2. CASE files.custom_exists /\ "all_custom" \in x.test
    <3>1. own = Sel!Done(<<>>) /\ ~own_looked_at(x) /\ taken_own(x) = {}
      BY <2>2, TakenTests DEF own_looked_at
    <3> HIDE DEF own
    <3>2. B = {}
      BY <3>1
    <3>3. QED
      BY <1>2, <3>1, <3>2, EnumeratesNothing
  <2>3. QED
    BY <2>1, <2>2
<1>5. /\ directed.ok <=> custom.ok /\ own.ok
      /\ directed.ok => directed.tests = Sel!with_iterations(n, both)
  <2>1. directed = IF custom.ok /\ own.ok THEN Sel!Done(Sel!with_iterations(n, both))
                   ELSE Sel!Raised
    BY Zenon DEF Sel!process_directed_testlist
  <2> HIDE DEF custom, own, directed, both
  <2>2. QED
    BY <2>1 DEF Sel!Done, Sel!Raised
<1> HIDE DEF custom, own
<1>6. /\ \A e \in taken_custom(x), d \in taken_own(x) : e.test # d.test
      /\ \A e, d \in taken_custom(x) : e.test = d.test => e = d
      /\ \A e, d \in taken_own(x) : e.test = d.test => e = d
  <2>1. /\ taken_custom(x) \subseteq Elements(files.custom.tests)
        /\ taken_own(x) \subseteq Elements(files.directed.tests)
        /\ Distinct(files.custom.tests) /\ Distinct(files.directed.tests)
    BY <1>1, TakenTests DEF DirectedYaml
  <2>2. \A d \in Elements(files.custom.tests), e \in Elements(files.directed.tests) :
          d.test # e.test
    BY DEF SelectionInput
  <2>3. QED
    BY <2>1, <2>2 DEF Elements, Distinct
<1>7. /\ \A yaml, e : imported(yaml, e).test = e.test
      /\ A \cap B = {} /\ NamedOnce(A \cup B)
  <2>1. \A yaml, e : imported(yaml, e).test = e.test
    BY DEF imported
  <2>2. QED
    BY <1>6, <2>1 DEF NamedOnce
<1>8. ASSUME directed.ok PROVE Enumerates(directed.tests, directed_tests(x, n))
  <2>1. Enumerates(both, A \cup B)
    <3> HIDE DEF A, B
    <3>1. QED
      BY <1>3, <1>4, <1>5, <1>7, <1>8, EnumeratesBoth
  <2> HIDE DEF both
  <2>2. \A i \in DOMAIN both : both[i] \in A \cup B
    <3> HIDE DEF A, B
    <3>1. QED
      BY <2>1, EnumeratesElements DEF Elements
  <2>3. Sel!with_iterations(n, both) = [i \in DOMAIN both |-> g[both[i]]]
    <3> HIDE DEF A, B
    <3>1. QED
      BY <2>2 DEF Sel!with_iterations, again
  <2>4. /\ \A e \in taken_custom(x) : g[imported(files.custom, e)] = again(imported(files.custom, e), n)
        /\ \A e \in taken_own(x) : g[imported(files.directed, e)] = again(imported(files.directed, e), n)
    OBVIOUS
  <2>5. \A a, b \in A \cup B : g[a] = g[b] => a = b
    <3>1. \A a \in A \cup B : g[a].test = a.test
      BY <2>4, <1>7, AgainImported
    <3> HIDE DEF A, B, g
    <3>2. QED
      BY <1>7, <3>1 DEF NamedOnce
  <2>6. {g[a] : a \in A \cup B} = directed_tests(x, n)
    <3> HIDE DEF g
    <3>1. QED
      BY <2>4 DEF directed_tests
  <2> HIDE DEF A, B, g
  <2>7. Enumerates([i \in DOMAIN both |-> g[both[i]]], {g[a] : a \in A \cup B})
    BY <2>1, <2>5, EnumeratesImage
  <2>8. QED
    BY <1>5, <1>8, <2>3, <2>6, <2>7
<1>9. QED
  BY <1>3, <1>4, <1>5, <1>8, Zenon

-----------------------------------------------------------------------------
typed_of(A, type) == {<<t.test, t.iterations, type>> : t \in A}

\* The tests that the core can run, by name, times and type.
LEMMA KeptTests ==
  ASSUME NEW cfg, NEW A, NEW tests, Enumerates(tests, A), OneParam(A), NamedOnce(A), NEW type
  PROVE  LET filtered == Sel!filter_tests_by_config(cfg, tests)
         IN  /\ filtered.ok <=> \A e \in A : params_known(cfg, e.rtl_params)
             /\ filtered.ok =>
                  Enumerates(typed(filtered.tests, type),
                             typed_of({e \in A : params_met(cfg, e.rtl_params)}, type))
<1> DEFINE filtered == Sel!filter_tests_by_config(cfg, tests)
           B == {e \in A : params_met(cfg, e.rtl_params)}
<1>1. /\ filtered.ok <=> \A e \in A : params_known(cfg, e.rtl_params)
      /\ filtered.ok => Enumerates(filtered.tests, B)
  BY FilteredExact, Zenon
<1>2. NamedOnce(B)
  BY DEF NamedOnce
<1> HIDE DEF B
<1>3. filtered.ok => Enumerates(typed(filtered.tests, type), typed_of(B, type))
  BY <1>1, <1>2, TypedOnce, Zenon DEF typed_of
<1>4. QED
  BY <1>1, <1>3, Zenon DEF B

riscvdv_tests(x, n) == {counted(e, n) : e \in asked_riscvdv(x)}

known_all(x) ==
  /\ \A e \in asked_riscvdv(x) : params_known(x.cfg, e.rtl_params)
  /\ \A e \in taken_custom(x) : params_known(x.cfg, params_of(x.files.custom, e))
  /\ \A e \in taken_own(x) : params_known(x.cfg, params_of(x.files.directed, e))

lists_faulty(x) ==
  \/ custom_looked_at(x) /\ faulty(x.files.custom, taken_custom(x))
  \/ own_looked_at(x) /\ faulty(x.files.directed, taken_own(x))

found_of(x, n) ==
  typed_of({t \in riscvdv_tests(x, n) : params_met(x.cfg, t.rtl_params)}, "RISCVDV")
    \cup typed_of({t \in directed_tests(x, n) : params_met(x.cfg, t.rtl_params)}, "DIRECTED")

LEMMA AskedEntries ==
  ASSUME NEW x, SelectionInput(x)
  PROVE  /\ asked_riscvdv(x) = {d \in Elements(x.files.riscvdv) : asks(x.test, d)}
         /\ asked_riscvdv(x) \subseteq RiscvdvEntry
         /\ OneParam(asked_riscvdv(x)) /\ NamedOnce(asked_riscvdv(x))
<1>1. x.files.riscvdv \in Seq(RiscvdvEntry) /\ Distinct(x.files.riscvdv)
      /\ \A e \in Elements(x.files.riscvdv) : Len(e.rtl_params) = IF e.limited THEN 1 ELSE 0
  BY DEF SelectionInput
<1>2. asked_riscvdv(x) = {d \in Elements(x.files.riscvdv) : asks(x.test, d)}
  BY DEF asked_riscvdv, asks
<1>3. asked_riscvdv(x) \subseteq Elements(x.files.riscvdv)
  BY DEF asked_riscvdv
<1>4. Elements(x.files.riscvdv) \subseteq RiscvdvEntry
  BY <1>1 DEF Elements
<1>5. OneParam(asked_riscvdv(x))
  BY <1>1, <1>3, <1>4 DEF OneParam, RiscvdvEntry
<1>6. NamedOnce(asked_riscvdv(x))
  BY <1>1, <1>3 DEF NamedOnce, Elements, Distinct
<1>7. QED
  BY <1>2, <1>3, <1>4, <1>5, <1>6

\* Directed tests that can be imported have a configuration.
LEMMA DirectedEntries ==
  ASSUME NEW x, SelectionInput(x), ~lists_faulty(x), NEW n
  PROVE  /\ OneParam(directed_tests(x, n)) /\ NamedOnce(directed_tests(x, n))
         /\ \A t \in directed_tests(x, n) :
              \/ \E e \in taken_custom(x) : t = again(imported(x.files.custom, e), n)
              \/ \E e \in taken_own(x) : t = again(imported(x.files.directed, e), n)
<1>1. /\ DirectedYaml(x.files.custom) /\ DirectedYaml(x.files.directed)
      /\ \A d \in Elements(x.files.custom.tests), e \in Elements(x.files.directed.tests) :
           d.test # e.test
  BY DEF SelectionInput
<1>2. /\ taken_custom(x) \subseteq Elements(x.files.custom.tests)
      /\ taken_own(x) \subseteq Elements(x.files.directed.tests)
      /\ Distinct(x.files.custom.tests) /\ Distinct(x.files.directed.tests)
  BY <1>1, TakenTests DEF DirectedYaml
<1>3. ASSUME NEW yaml, NEW e, DirectedYaml(yaml), e.config \in DOMAIN yaml.configs
      PROVE  params_of(yaml, e) \in Seq(Param) /\ Len(params_of(yaml, e)) = 1
  BY <1>3 DEF DirectedYaml, ConfigEntry, params_of
<1>4. /\ \A e \in taken_custom(x) : e.config \in DOMAIN x.files.custom.configs
      /\ \A e \in taken_own(x) : e.config \in DOMAIN x.files.directed.configs
  BY TakenTests DEF lists_faulty, faulty
<1>5. /\ \A e \in taken_custom(x) : /\ params_of(x.files.custom, e) \in Seq(Param)
                                    /\ Len(params_of(x.files.custom, e)) = 1
      /\ \A e \in taken_own(x) : /\ params_of(x.files.directed, e) \in Seq(Param)
                                 /\ Len(params_of(x.files.directed, e)) = 1
  BY <1>1, <1>3, <1>4
<1>6. OneParam(directed_tests(x, n))
  <2>1. /\ \A e : again(imported(x.files.custom, e), n).limited = TRUE
        /\ \A e : again(imported(x.files.directed, e), n).limited = TRUE
    BY AgainLimited, Zenon
  <2>2. /\ \A e : again(imported(x.files.custom, e), n).rtl_params = params_of(x.files.custom, e)
        /\ \A e : again(imported(x.files.directed, e), n).rtl_params = params_of(x.files.directed, e)
    BY AgainImported, Zenon
  <2>3. SUFFICES ASSUME NEW t \in directed_tests(x, n)
                 PROVE  /\ t.rtl_params \in Seq(Param) /\ t.limited = TRUE
                        /\ Len(t.rtl_params) = 1
    BY DEF OneParam
  <2>4. QED
    BY <1>5, <2>1, <2>2, <2>3, Zenon DEF directed_tests
<1>7. /\ \A e \in taken_custom(x), d \in taken_own(x) : e.test # d.test
      /\ \A e, d \in taken_custom(x) : e.test = d.test => e = d
      /\ \A e, d \in taken_own(x) : e.test = d.test => e = d
  BY <1>1, <1>2 DEF Elements, Distinct
<1>8. NamedOnce(directed_tests(x, n))
  BY <1>7, AgainImported DEF NamedOnce, directed_tests
<1>9. QED
  BY <1>6, <1>8 DEF directed_tests

\* What the lists are found to have.
LEMMA FoundTests ==
  ASSUME NEW x, SelectionInput(x), NEW n \in Nat
  PROVE  LET found == Sel!get_tests_and_counts(x.test, n, x.cfg, x.files)
         IN  /\ found.ok <=> /\ ~lists_faulty(x) /\ known_all(x)
                             /\ riscvdv_tests(x, n) # {} \/ directed_tests(x, n) # {}
             /\ found.ok => Enumerates(found.tests, found_of(x, n))
<1> DEFINE files    == x.files
           riscvdv  == Sel!process_riscvdv_testlist(x.test, n, files.riscvdv)
           directed == IF x.test \cap {"all_directed", "all_custom"} # {} \/ riscvdv = <<>>
                       THEN Sel!process_directed_testlist(x.test, n, files) ELSE Sel!Done(<<>>)
           rf == Sel!filter_tests_by_config(x.cfg, riscvdv)
           df == Sel!filter_tests_by_config(x.cfg, directed.tests)
           found == Sel!get_tests_and_counts(x.test, n, x.cfg, files)
           R == riscvdv_tests(x, n)
           D == directed_tests(x, n)
<1>1. Enumerates(riscvdv, R)
  BY AskedEntries, RiscvdvTests, Zenon DEF riscvdv_tests, SelectionInput
<1>2. \A e \in asked_riscvdv(x) :
        counted(e, n).test = e.test /\ counted(e, n).rtl_params = e.rtl_params
          /\ counted(e, n).limited = e.limited
  BY AskedEntries, CountedEntry
<1>3. OneParam(R) /\ NamedOnce(R)
  BY <1>2, AskedEntries DEF OneParam, NamedOnce, riscvdv_tests
<1> HIDE DEF riscvdv
<1>4. (x.test \cap {"all_directed", "all_custom"} # {} \/ riscvdv = <<>>) <=> directed_looked_at(x)
  <2>1. riscvdv = <<>> <=> R = {}
    BY <1>1, EnumeratesElements
  <2>2. R = {} <=> asked_riscvdv(x) = {}
    BY DEF riscvdv_tests
  <2>3. QED
    BY <2>1, <2>2 DEF directed_looked_at
<1>5. /\ directed.ok <=> ~lists_faulty(x)
      /\ directed.ok => Enumerates(directed.tests, D)
  <2>1. CASE directed_looked_at(x)
    <3>1. directed = Sel!process_directed_testlist(x.test, n, files)
      BY <1>4, <2>1
    <3> HIDE DEF directed
    <3>2. QED
      BY <2>1, <3>1, DirectedTests, Zenon DEF lists_faulty
  <2>2. CASE ~directed_looked_at(x)
    <3>1. directed = Sel!Done(<<>>)
      BY <1>4, <2>2
    <3>2. taken_custom(x) = {} /\ taken_own(x) = {} /\ ~lists_faulty(x)
      BY <2>2, TakenTests DEF custom_looked_at, own_looked_at, lists_faulty
    <3>3. D = {}
      BY <3>2 DEF directed_tests
    <3> HIDE DEF directed, D
    <3>4. directed.ok /\ directed.tests = <<>>
      BY <3>1 DEF Sel!Done
    <3>5. QED
      BY <3>2, <3>3, <3>4, EnumeratesNothing
  <2>3. QED
    BY <2>1, <2>2
<1> HIDE DEF directed, R, D
<1>6. /\ found.ok <=> /\ directed.ok /\ riscvdv \o directed.tests # <<>>
                      /\ rf.ok /\ df.ok
      /\ found.ok => found.tests = typed(rf.tests, "RISCVDV") \o typed(df.tests, "DIRECTED")
  <2>1. found = IF ~directed.ok \/ riscvdv \o directed.tests = <<>> \/ ~rf.ok \/ ~df.ok
                THEN Sel!Raised
                ELSE Sel!Done(typed(rf.tests, "RISCVDV") \o typed(df.tests, "DIRECTED"))
    BY Zenon DEF Sel!get_tests_and_counts, typed, riscvdv, directed
  <2> HIDE DEF found, rf, df
  <2>2. QED
    BY <2>1 DEF Sel!Done, Sel!Raised
<1>7. /\ rf.ok <=> \A e \in R : params_known(x.cfg, e.rtl_params)
      /\ rf.ok => Enumerates(typed(rf.tests, "RISCVDV"),
                             typed_of({e \in R : params_met(x.cfg, e.rtl_params)}, "RISCVDV"))
  BY <1>1, <1>3, KeptTests, Zenon
<1>8. CASE lists_faulty(x)
  BY <1>5, <1>6, <1>8, Zenon
<1>9. CASE ~lists_faulty(x)
  <2>1. directed.ok /\ Enumerates(directed.tests, D)
    BY <1>5, <1>9
  <2>2. OneParam(D) /\ NamedOnce(D)
    BY <1>9, DirectedEntries, Zenon DEF D
  <2>3. /\ df.ok <=> \A e \in D : params_known(x.cfg, e.rtl_params)
        /\ df.ok => Enumerates(typed(df.tests, "DIRECTED"),
                               typed_of({e \in D : params_met(x.cfg, e.rtl_params)}, "DIRECTED"))
    BY <2>1, <2>2, KeptTests, Zenon
  <2>4. riscvdv \o directed.tests = <<>> <=> R = {} /\ D = {}
    <3>1. riscvdv \in Seq(R \cup D) /\ directed.tests \in Seq(R \cup D)
      BY <1>1, <2>1 DEF Enumerates
    <3>2. riscvdv \o directed.tests = <<>> <=> riscvdv = <<>> /\ directed.tests = <<>>
      <4>1. PICK S, r, q : r = riscvdv /\ q = directed.tests /\ S = R \cup D
        OBVIOUS
      <4>2. r \in Seq(S) /\ q \in Seq(S)
        BY <3>1, <4>1
      <4>3. r \o q = <<>> <=> r = <<>> /\ q = <<>>
        BY <4>2, ConcatEqualIffEmpty
      <4>4. QED
        BY <4>1, <4>3, Zenon
    <3>3. QED
      BY <1>1, <2>1, <3>2, EnumeratesElements, Zenon
  <2>5. (\A e \in R : params_known(x.cfg, e.rtl_params)) /\ (\A e \in D : params_known(x.cfg, e.rtl_params))
          <=> known_all(x)
    <3>1. (\A e \in R : params_known(x.cfg, e.rtl_params))
            <=> \A e \in asked_riscvdv(x) : params_known(x.cfg, e.rtl_params)
      BY <1>2 DEF R, riscvdv_tests
    <3>2. (\A e \in D : params_known(x.cfg, e.rtl_params))
            <=> /\ \A e \in taken_custom(x) : params_known(x.cfg, params_of(files.custom, e))
                /\ \A e \in taken_own(x) : params_known(x.cfg, params_of(files.directed, e))
      BY AgainImported DEF D, directed_tests
    <3>3. QED
      BY <3>1, <3>2 DEF known_all
  <2>6. ASSUME found.ok PROVE Enumerates(found.tests, found_of(x, n))
    <3>1. PICK A, B : /\ A = typed_of({e \in R : params_met(x.cfg, e.rtl_params)}, "RISCVDV")
                      /\ B = typed_of({e \in D : params_met(x.cfg, e.rtl_params)}, "DIRECTED")
      OBVIOUS
    <3>2. A \cap B = {}
      BY <3>1 DEF typed_of
    <3>3. Enumerates(typed(rf.tests, "RISCVDV") \o typed(df.tests, "DIRECTED"), A \cup B)
      BY <1>6, <1>7, <2>3, <2>6, <3>1, <3>2, EnumeratesBoth, Zenon
    <3>4. found_of(x, n) = A \cup B
      BY <3>1, Zenon DEF found_of, R, D
    <3>5. QED
      BY <1>6, <2>6, <3>3, <3>4, Zenon
  <2>7. found.ok <=> known_all(x) /\ (R # {} \/ D # {})
    BY <1>6, <1>7, <2>1, <2>3, <2>4, <2>5, Zenon
  <2>8. QED
    BY <1>9, <2>6, <2>7, Zenon DEF R, D
<1>10. QED
  BY <1>8, <1>9

-----------------------------------------------------------------------------
\* What is found is what is wanted.
LEMMA WantedFound ==
  ASSUME NEW x, SelectionInput(x), NEW n \in Nat,
         \A m : runs(x.args, m) = IF n > 0 THEN n ELSE m
  PROVE  found_of(x, n) = wanted(x)
<1> DEFINE cfg == x.cfg
           of(asked, type) == {<<e.test, runs(x.args, e.iterations), type>> : e \in asked}
           R == {e \in asked_riscvdv(x) : params_met(cfg, e.rtl_params)}
           C == {e \in taken_custom(x) : params_met(cfg, params_of(x.files.custom, e))}
           D == {e \in taken_own(x) : params_met(cfg, params_of(x.files.directed, e))}
<1>1. \A e \in asked_riscvdv(x) :
        /\ counted(e, n).test = e.test /\ counted(e, n).rtl_params = e.rtl_params
        /\ counted(e, n).iterations = runs(x.args, e.iterations)
  <2>1. \A e \in asked_riscvdv(x) : e \in RiscvdvEntry /\ e.iterations > 0
    BY AskedEntries DEF asked_riscvdv
  <2>2. \A e \in asked_riscvdv(x) :
          /\ counted(e, n).test = e.test /\ counted(e, n).rtl_params = e.rtl_params
          /\ counted(e, n).iterations = IF n > 0 THEN n ELSE e.iterations
    BY <2>1, CountedEntry
  <2>3. QED
    BY <2>2
<1>2. typed_of({t \in riscvdv_tests(x, n) : params_met(cfg, t.rtl_params)}, "RISCVDV")
        = of(R, "RISCVDV")
  <2>1. {t \in riscvdv_tests(x, n) : params_met(cfg, t.rtl_params)} = {counted(e, n) : e \in R}
    BY <1>1 DEF riscvdv_tests
  <2>2. \A e \in R : <<counted(e, n).test, counted(e, n).iterations, "RISCVDV">>
                       = <<e.test, runs(x.args, e.iterations), "RISCVDV">>
    BY <1>1
  <2>3. typed_of({counted(e, n) : e \in R}, "RISCVDV")
          = {<<counted(e, n).test, counted(e, n).iterations, "RISCVDV">> : e \in R}
    BY DEF typed_of
  <2> HIDE DEF R
  <2>4. QED
    BY <2>1, <2>2, <2>3
<1>3. /\ \A e : /\ again(imported(x.files.custom, e), n).test = e.test
                /\ again(imported(x.files.custom, e), n).rtl_params = params_of(x.files.custom, e)
                /\ again(imported(x.files.custom, e), n).iterations = runs(x.args, e.iterations)
      /\ \A e : /\ again(imported(x.files.directed, e), n).test = e.test
                /\ again(imported(x.files.directed, e), n).rtl_params = params_of(x.files.directed, e)
                /\ again(imported(x.files.directed, e), n).iterations = runs(x.args, e.iterations)
  BY AgainImported
<1>4. typed_of({t \in directed_tests(x, n) : params_met(cfg, t.rtl_params)}, "DIRECTED")
        = of(C, "DIRECTED") \cup of(D, "DIRECTED")
  <2> DEFINE c(e) == again(imported(x.files.custom, e), n)
             d(e) == again(imported(x.files.directed, e), n)
  <2>1. {t \in directed_tests(x, n) : params_met(cfg, t.rtl_params)}
          = {c(e) : e \in C} \cup {d(e) : e \in D}
    BY <1>3 DEF directed_tests
  <2>2. /\ \A e \in C : <<c(e).test, c(e).iterations, "DIRECTED">>
                          = <<e.test, runs(x.args, e.iterations), "DIRECTED">>
        /\ \A e \in D : <<d(e).test, d(e).iterations, "DIRECTED">>
                          = <<e.test, runs(x.args, e.iterations), "DIRECTED">>
    BY <1>3
  <2>3. typed_of({c(e) : e \in C} \cup {d(e) : e \in D}, "DIRECTED")
          = {<<c(e).test, c(e).iterations, "DIRECTED">> : e \in C}
              \cup {<<d(e).test, d(e).iterations, "DIRECTED">> : e \in D}
    <3> HIDE DEF c, d, C, D
    <3>1. QED
      BY DEF typed_of
  <2> HIDE DEF c, d, C, D
  <2>4. QED
    BY <2>1, <2>2, <2>3
<1>5. wanted(x) = of(R, "RISCVDV") \cup of(C, "DIRECTED") \cup of(D, "DIRECTED")
  BY Zenon DEF wanted
<1>6. found_of(x, n) = of(R, "RISCVDV") \cup (of(C, "DIRECTED") \cup of(D, "DIRECTED"))
  BY <1>2, <1>4, Zenon DEF found_of
<1> HIDE DEF of, R, C, D
<1>7. QED
  BY <1>5, <1>6

\* The arguments, once more.
LEMMA ArgumentsExact ==
  ASSUME NEW args, \A f \in DOMAIN args : args[f] \in Argument
  PROVE  LET init == Sel!arg_list_initializer(args)
             n    == init.md.iterations
         IN  /\ init.ok /\ Sel!get_ibex_metadata_ok(args) <=> ~refused(args)
             /\ ~refused(args) => /\ n \in Nat
                                  /\ \A m : runs(args, m) = IF n > 0 THEN n ELSE m
<1> DEFINE init == Sel!arg_list_initializer(args)
           n    == init.md.iterations
           set(f) == IF f \in DOMAIN args /\ args[f].kind = "number" THEN args[f].n
                     ELSE Sel!RegressionMetadata[f]
<1>1. \A f \in DOMAIN args : args[f].n \in Int /\ args[f].kind \in {"number", "word", "empty"}
  BY DEF Argument
<1>2. /\ DOMAIN Sel!Type = {"seed", "waves", "iterations", "simulator"}
      /\ Sel!Type["seed"] = "int" /\ Sel!Type["waves"] = "bool"
      /\ Sel!Type["iterations"] = "optional" /\ Sel!Type["simulator"] = "str"
  BY DEF Sel!Type
<1>3. init.ok <=> \A f \in DOMAIN args \cap DOMAIN Sel!Type : Sel!castable(f, args[f])
  BY DEF Sel!arg_list_initializer
<1>4. init.ok <=>
        /\ \A f \in DOMAIN args \cap {"seed", "waves"} : args[f].kind = "number"
        /\ "iterations" \in DOMAIN args => args["iterations"].kind \in {"number", "empty"}
  <2> HIDE DEF init
  <2>1. QED
    BY <1>2, <1>3 DEF Sel!castable
<1>5. n = set("iterations") /\ init.md.seed = set("seed")
  BY DEF Sel!arg_list_initializer
<1>6. Sel!RegressionMetadata["seed"] = 1 /\ Sel!RegressionMetadata["iterations"] = 0
  BY DEF Sel!RegressionMetadata
<1>7. Sel!get_ibex_metadata_ok(args) <=>
        /\ "iterations" \in DOMAIN args /\ args["iterations"].kind = "number"
             => args["iterations"].n > 0
        /\ init.md.seed >= 0
  BY Zenon DEF Sel!get_ibex_metadata_ok
<1> HIDE DEF init
<1>8. init.ok /\ Sel!get_ibex_metadata_ok(args) <=> ~refused(args)
  <2>1. init.ok => (init.md.seed >= 0 <=> ("seed" \in DOMAIN args => ~(args["seed"].n < 0)))
    BY <1>1, <1>4, <1>5, <1>6
  <2>2. "iterations" \in DOMAIN args =>
          /\ args["iterations"].n > 0 <=> ~(args["iterations"].n <= 0)
          /\ args["iterations"].kind \in {"number", "empty"} <=> args["iterations"].kind # "word"
    BY <1>1
  <2>3. QED
    BY <1>4, <1>7, <2>1, <2>2 DEF refused
<1>9. ASSUME ~refused(args)
      PROVE  n \in Nat /\ \A m : runs(args, m) = IF n > 0 THEN n ELSE m
  <2>1. CASE "iterations" \in DOMAIN args /\ args["iterations"].kind = "number"
    <3>1. n = args["iterations"].n /\ n \in Int /\ ~(n <= 0)
      BY <1>1, <1>5, <1>9, <2>1 DEF refused
    <3>2. \A m : runs(args, m) = n
      BY <2>1, <3>1 DEF runs
    <3> HIDE DEF n
    <3>3. QED
      BY <3>1, <3>2
  <2>2. CASE ~("iterations" \in DOMAIN args /\ args["iterations"].kind = "number")
    <3>1. n = 0
      BY <1>5, <1>6, <2>2
    <3>2. \A m : runs(args, m) = m
      BY <2>2 DEF runs
    <3> HIDE DEF n
    <3>3. QED
      BY <3>1, <3>2
  <2>3. QED
    BY <2>1, <2>2
<1>10. QED
  BY <1>8, <1>9, Zenon DEF init

\* Whatever the lists, the arguments and the core: what is selected is what is asked
\* for and can be run.
LEMMA SelectedExactly ==
  ASSUME NEW x, SelectionInput(x) PROVE Selected(x)
<1> DEFINE init  == Sel!arg_list_initializer(x.args)
           n     == init.md.iterations
           found == Sel!get_tests_and_counts(x.test, n, x.cfg, x.files)
           made  == Sel!create(x.args, x.test, x.cfg, x.files)
           seed  == IF "seed" \in DOMAIN x.args THEN x.args["seed"].n ELSE 1
<1>1. /\ init.ok /\ Sel!get_ibex_metadata_ok(x.args) <=> ~refused(x.args)
      /\ ~refused(x.args) => n \in Nat /\ \A m : runs(x.args, m) = IF n > 0 THEN n ELSE m
  BY ArgumentsExact, Zenon DEF SelectionInput
<1>2. /\ made.ok <=> /\ init.ok /\ Sel!get_ibex_metadata_ok(x.args)
                     /\ found.ok /\ found.tests # <<>>
      /\ made.ok => made.tests = found.tests
  <2>1. made = IF /\ init.ok /\ Sel!get_ibex_metadata_ok(x.args)
                  /\ found.ok /\ found.tests # <<>>
               THEN Sel!Done(found.tests) ELSE Sel!Raised
    BY Zenon DEF Sel!create
  <2> HIDE DEF made, found, init
  <2>2. QED
    BY <2>1 DEF Sel!Done, Sel!Raised
<1> HIDE DEF init, found, made, n
<1>3. ASSUME ~refused(x.args)
      PROVE  /\ found.ok <=> /\ ~lists_faulty(x) /\ known_all(x)
                             /\ riscvdv_tests(x, n) # {} \/ directed_tests(x, n) # {}
             /\ found.ok => Enumerates(found.tests, wanted(x))
  <2>1. n \in Nat /\ \A m : runs(x.args, m) = IF n > 0 THEN n ELSE m
    BY <1>1, <1>3
  <2>2. found_of(x, n) = wanted(x)
    BY <2>1, WantedFound, Zenon
  <2>3. /\ found.ok <=> /\ ~lists_faulty(x) /\ known_all(x)
                        /\ riscvdv_tests(x, n) # {} \/ directed_tests(x, n) # {}
        /\ found.ok => Enumerates(found.tests, found_of(x, n))
    BY <2>1, FoundTests, Zenon DEF found
  <2>4. QED
    BY <2>2, <2>3, Zenon
<1>4. wanted(x) # {} => riscvdv_tests(x, n) # {} \/ directed_tests(x, n) # {}
  BY DEF wanted, riscvdv_tests, directed_tests
<1>5. stopped(x) <=> refused(x.args) \/ lists_faulty(x) \/ ~known_all(x)
  BY Zenon DEF stopped, lists_faulty, known_all
<1>6. made.ok <=> ~stopped(x) /\ wanted(x) # {}
  <2>1. CASE refused(x.args)
    BY <1>1, <1>2, <1>5, <2>1, Zenon
  <2>2. CASE ~refused(x.args)
    <3>1. found.ok => (found.tests = <<>> <=> wanted(x) = {})
      BY <1>3, <2>2, EnumeratesElements, Zenon
    <3>2. QED
      BY <1>1, <1>2, <1>3, <1>4, <1>5, <2>2, <3>1, Zenon
  <2>3. QED
    BY <2>1, <2>2, Zenon
<1>7. ASSUME made.ok
      PROVE  /\ Elements(made.tests) = wanted(x)
             /\ \A i, j \in DOMAIN made.tests : made.tests[i] = made.tests[j] => i = j
  <2>1. Enumerates(made.tests, wanted(x))
    BY <1>1, <1>2, <1>3, <1>7, Zenon
  <2>2. QED
    BY <2>1, EnumeratesElements, Zenon
<1>8. ASSUME made.ok, NEW type
      PROVE  Sel!tds(made.tests, seed, type)
               = UNION {{<<w[1], s>> : s \in seed .. seed + w[2] - 1} :
                          w \in {v \in wanted(x) : v[3] = type}}
  <2> DEFINE records(w) == {<<w[1], s>> : s \in seed .. seed + w[2] - 1}
             at == {j \in DOMAIN made.tests : made.tests[j][3] = type}
  <2>1. Sel!tds(made.tests, seed, type) = UNION {records(made.tests[i]) : i \in at}
    BY Zenon DEF Sel!tds
  <2> HIDE DEF records
  <2>2. {made.tests[i] : i \in at} = {v \in wanted(x) : v[3] = type}
    BY <1>7, <1>8 DEF Elements
  <2> HIDE DEF at
  <2>3. {records(made.tests[i]) : i \in at} = {records(w) : w \in {v \in wanted(x) : v[3] = type}}
    BY <2>2
  <2>4. QED
    BY <2>1, <2>3, Zenon DEF records
<1>9. QED
  BY <1>6, <1>7, <1>8, Zenon DEF Selected, made

-----------------------------------------------------------------------------
(* run_instr_gen.py, compile_test.py *)

\* Where the path of a word leads when the word is put somewhere else.
Leads(simulator, old, new) ==
  \/ new = old /\ (old = <<>> \/ old[1] # "placeholder")
  \/ new[1] = "scratch"
  \/ new[1] = "build" /\ (Len(new) = 1 \/ new[2] \in built[simulator])

LEMMA BuiltPath ==
  ASSUME NEW rest \in Seq(STRING), NEW simulator \in DOMAIN Cmd!sim_relocs,
         rest \in Cmd!sim_relocs[simulator], NEW new, new = <<"build">> \o rest
  PROVE  new[1] = "build" /\ (Len(new) = 1 \/ new[2] \in built[simulator])
<1>1. PICK s : s = <<"build">>
  OBVIOUS
<1> DEFINE S == STRING \cup {"build"}
<1>2. s \in Seq(S) /\ Len(s) = 1 /\ s[1] = "build" /\ rest \in Seq(S)
  BY <1>1
<1> HIDE DEF S
<1>3. /\ Len(new) = 1 + Len(rest)
      /\ \A i \in 1 .. 1 + Len(rest) : new[i] = IF i <= 1 THEN s[i] ELSE rest[i - 1]
  BY <1>1, <1>2, ConcatProperties
<1>4. Len(rest) \in Nat
  OBVIOUS
<1>5. new[1] = "build"
  BY <1>2, <1>3, <1>4
<1>6. rest = <<>> \/ (Len(rest) = 1 /\ rest[1] \in built[simulator])
  BY DEF Cmd!sim_relocs, built
<1>7. CASE rest = <<>>
  <2>1. Len(rest) = 0
    BY <1>7
  <2>2. Len(new) = 1
    BY <1>3, <2>1
  <2>3. QED
    BY <1>5, <2>2
<1>8. CASE Len(rest) = 1 /\ rest[1] \in built[simulator]
  <2>1. new[2] = rest[1]
    BY <1>3, <1>8
  <2>2. QED
    BY <1>5, <1>8, <2>1
<1>9. QED
  BY <1>6, <1>7, <1>8

LEMMA WordRelocated ==
  ASSUME NEW simulator \in DOMAIN Cmd!sim_relocs,
         NEW word \in [pre : STRING, path : Seq(STRING)],
         Cmd!reloc_word(simulator, "t", word).ok
  PROVE  Leads(simulator, word.path, Cmd!reloc_word(simulator, "t", word).cmds.path)
<1> DEFINE made  == Cmd!reloc_word(simulator, "t", word)
           rest  == Tail(word.path)
           fixed == {r \in Cmd!always_relocs("t") : r[1] = rest}
           to(p) == [word EXCEPT !.path = p]
<1>1. \A w : Cmd!Cmds(w).ok = TRUE /\ Cmd!Cmds(w).cmds = w
  BY DEF Cmd!Cmds
<1>2. \A p : to(p).path = p
  OBVIOUS
<1>3. made = CASE word.path = <<>> \/ word.path[1] # "placeholder" -> Cmd!Cmds(word)
               [] OTHER -> CASE rest \in Cmd!sim_relocs[simulator] ->
                                  Cmd!Cmds(to(<<"build">> \o rest))
                             [] rest \notin Cmd!sim_relocs[simulator] /\ fixed # {} ->
                                  Cmd!Cmds(to((CHOOSE r \in fixed : TRUE)[2]))
                             [] OTHER -> Cmd!Raised
  BY Zenon DEF Cmd!reloc_word
<1> HIDE DEF to, made
<1>4. CASE word.path = <<>> \/ word.path[1] # "placeholder"
  <2>1. made = Cmd!Cmds(word)
    BY <1>3, <1>4
  <2>2. made.cmds.path = word.path
    BY <1>1, <2>1
  <2>3. QED
    BY <1>4, <2>2, Zenon DEF Leads, made
<1>5. CASE ~(word.path = <<>> \/ word.path[1] # "placeholder")
  <2>1. rest \in Seq(STRING)
    <3>1. word.path \in Seq(STRING) /\ word.path # <<>>
      BY <1>5
    <3>2. QED
      BY <3>1
  <2>2. CASE rest \in Cmd!sim_relocs[simulator]
    <3>1. PICK new : new = <<"build">> \o rest
      OBVIOUS
    <3>2. made = Cmd!Cmds(to(new))
      BY <1>3, <1>5, <2>2, <3>1
    <3>3. made.cmds.path = new
      BY <1>1, <1>2, <3>2
    <3>4. new[1] = "build" /\ (Len(new) = 1 \/ new[2] \in built[simulator])
      BY <2>1, <2>2, <3>1, BuiltPath
    <3>5. QED
      BY <3>3, <3>4, Zenon DEF Leads, made
  <2>3. CASE rest \notin Cmd!sim_relocs[simulator] /\ fixed # {}
    <3>1. PICK r \in fixed : r = CHOOSE q \in fixed : TRUE
      BY <2>3
    <3>2. made = Cmd!Cmds(to(r[2]))
      BY <1>3, <1>5, <2>3, <3>1
    <3>3. made.cmds.path = r[2]
      BY <1>1, <1>2, <3>2
    <3>4. r[2][1] = "scratch"
      BY DEF Cmd!always_relocs
    <3>5. QED
      BY <3>3, <3>4, Zenon DEF Leads, made
  <2>4. CASE rest \notin Cmd!sim_relocs[simulator] /\ fixed = {}
    <3>1. made = Cmd!Raised
      BY <1>3, <1>5, <2>4
    <3>2. QED
      BY <3>1 DEF Cmd!Raised, made
  <2>5. QED
    BY <2>2, <2>3, <2>4
<1>6. QED
  BY <1>4, <1>5

\* Whatever the commands of the generator are.
LEMMA RelocatedClosed ==
  ASSUME NEW x, \A i \in DOMAIN x.lines : \A j \in DOMAIN x.lines[i] :
                  x.lines[i][j] \in [pre : STRING, path : Seq(STRING)]
  PROVE  Relocated(x)
<1> DEFINE made == Cmd!reloc_commands(x.simulator, "t", x.lines)
           words == [i \in DOMAIN x.lines |-> [j \in DOMAIN x.lines[i] |->
                       Cmd!reloc_word(x.simulator, "t", x.lines[i][j])]]
           moved == [i \in DOMAIN x.lines |-> [j \in DOMAIN x.lines[i] |-> words[i][j].cmds]]
<1>1. SUFFICES ASSUME made.ok
               PROVE  /\ DOMAIN made.cmds = DOMAIN x.lines
                      /\ \A i \in DOMAIN x.lines :
                           /\ DOMAIN made.cmds[i] = DOMAIN x.lines[i]
                           /\ \A j \in DOMAIN x.lines[i] :
                                Leads(x.simulator, x.lines[i][j].path, made.cmds[i][j].path)
  <2> HIDE DEF made
  <2>1. Relocated(x) <=>
          (made.ok => /\ DOMAIN made.cmds = DOMAIN x.lines
                      /\ \A i \in DOMAIN x.lines :
                           /\ DOMAIN made.cmds[i] = DOMAIN x.lines[i]
                           /\ \A j \in DOMAIN x.lines[i] :
                                LET p == made.cmds[i][j].path
                                    old == x.lines[i][j].path
                                IN  \/ p = old /\ (p = <<>> \/ p[1] # "placeholder")
                                    \/ p[1] = "scratch"
                                    \/ p[1] = "build" /\ (Len(p) = 1 \/ p[2] \in built[x.simulator]))
    BY Zenon DEF Relocated, made
  <2>2. \A old, p : Leads(x.simulator, old, p) =>
          \/ p = old /\ (p = <<>> \/ p[1] # "placeholder")
          \/ p[1] = "scratch"
          \/ p[1] = "build" /\ (Len(p) = 1 \/ p[2] \in built[x.simulator])
    BY Zenon DEF Leads
  <2>3. QED
    BY <2>1, <2>2, Zenon
<1>2. /\ x.simulator \in DOMAIN Cmd!sim_relocs
      /\ \A i \in DOMAIN x.lines : \A j \in DOMAIN x.lines[i] : words[i][j].ok
      /\ made.cmds = moved
  <2>1. made = IF \/ x.simulator \notin DOMAIN Cmd!sim_relocs
                  \/ \E i \in DOMAIN x.lines : \E j \in DOMAIN x.lines[i] : ~words[i][j].ok
               THEN Cmd!Raised ELSE Cmd!Cmds(moved)
    BY Zenon DEF Cmd!reloc_commands
  <2> HIDE DEF made, words, moved
  <2>2. QED
    BY <1>1, <2>1 DEF Cmd!Raised, Cmd!Cmds
<1>3. \A i \in DOMAIN x.lines : \A j \in DOMAIN x.lines[i] :
        words[i][j] = Cmd!reloc_word(x.simulator, "t", x.lines[i][j])
  OBVIOUS
<1>4. /\ DOMAIN moved = DOMAIN x.lines
      /\ \A i \in DOMAIN x.lines :
           /\ DOMAIN moved[i] = DOMAIN x.lines[i]
           /\ \A j \in DOMAIN x.lines[i] : moved[i][j] = words[i][j].cmds
  OBVIOUS
<1> HIDE DEF words, moved, made
<1>5. \A i \in DOMAIN x.lines : \A j \in DOMAIN x.lines[i] :
        Leads(x.simulator, x.lines[i][j].path, moved[i][j].path)
  <2>1. TAKE i \in DOMAIN x.lines
  <2>2. TAKE j \in DOMAIN x.lines[i]
  <2>3. PICK word \in [pre : STRING, path : Seq(STRING)] : word = x.lines[i][j]
    OBVIOUS
  <2>4. Cmd!reloc_word(x.simulator, "t", word).ok
    BY <1>2, <1>3, <2>3, Zenon
  <2>5. Leads(x.simulator, word.path, Cmd!reloc_word(x.simulator, "t", word).cmds.path)
    BY <1>2, <2>4, WordRelocated, Zenon
  <2>6. QED
    BY <1>3, <1>4, <2>3, <2>5, Zenon
<1>6. QED
  BY <1>2, <1>4, <1>5, Zenon

\* What is copied, whatever the generator has left.
LEMMA CopiedRight ==
  ASSUME NEW test, NEW run_failed \in BOOLEAN, NEW scratch
  PROVE  Copied(test, run_failed, scratch)
<1> DEFINE rules   == Cmd!file_copies(test)
           due     == {i \in DOMAIN rules : rules[i].on_fail \/ ~run_failed}
           missing == {i \in due : rules[i].src \notin scratch}
           raises  == ~run_failed /\ missing # {}
           done    == {i \in due \ missing : raises => \A m \in missing : i < m}
           made    == Cmd!do_file_copies(scratch, rules, run_failed)
<1>1. /\ \A i \in DOMAIN rules : rules[i].dst = "test.S" <=> ~rules[i].on_fail
      /\ \E i \in DOMAIN rules : rules[i].dst = "test.S"
  <2>1. CASE test = "riscv_csr_test"
    <3>1. rules = <<[src |-> "riscv_csr_test_0.S", dst |-> "test.S", on_fail |-> FALSE]>>
      BY <2>1 DEF Cmd!file_copies
    <3> HIDE DEF rules
    <3>2. DOMAIN rules = {1} /\ rules[1].dst = "test.S" /\ ~rules[1].on_fail
      BY <3>1
    <3>3. QED
      BY <3>2
  <2>2. CASE test # "riscv_csr_test"
    <3>1. rules = <<[src |-> "gen.log", dst |-> "gen.log", on_fail |-> TRUE],
                    [src |-> "test_0.S", dst |-> "test.S", on_fail |-> FALSE]>>
      BY <2>2 DEF Cmd!file_copies
    <3> HIDE DEF rules
    <3>2. /\ DOMAIN rules = {1, 2} /\ rules[1].dst = "gen.log" /\ rules[1].on_fail
          /\ rules[2].dst = "test.S" /\ ~rules[2].on_fail
      BY <3>1
    <3>3. QED
      BY <3>2
  <2>3. QED
    BY <2>1, <2>2
<1> HIDE DEF rules
<1>2. made.ok = ~raises /\ made.copied = {rules[i].dst : i \in done}
  BY DEF Cmd!do_file_copies
<1> HIDE DEF made
<1>3. run_failed => made.ok
  BY <1>2
<1>4. ASSUME made.ok PROVE "test.S" \in made.copied <=> ~run_failed
  <2>1. CASE run_failed
    BY <1>1, <1>2, <2>1
  <2>2. CASE ~run_failed
    <3>1. missing = {} /\ due = DOMAIN rules
      BY <1>2, <1>4, <2>2
    <3>2. done = DOMAIN rules
      BY <1>2, <1>4, <2>2, <3>1
    <3>3. QED
      BY <1>1, <1>2, <2>2, <3>2
  <2>3. QED
    BY <2>1, <2>2
<1>5. QED
  BY <1>3, <1>4, Zenon DEF Copied, made, rules

-----------------------------------------------------------------------------
\* The two commands of riscv-dv, with the paths of the test.
LEMMA RewrittenCommands ==
  ASSUME NEW stray \in BOOLEAN
  PROVE  LET new == Cmd!rewritten(riscvdv_cmds(stray))
         IN  /\ DOMAIN new = {1, 2}
             /\ new[1] = Cmd!Cmd("gcc", {IF stray THEN <<"placeholder", "h">> ELSE <<"test", "S">>,
                                         <<"riscv-dv", "link.ld">>}, {<<"test", "o">>})
             /\ new[2] = Cmd!Cmd("objcopy", {<<"test", "o">>}, {<<"test", "bin">>})
             /\ new = <<new[1], new[2]>>
<1> DEFINE cmds == riscvdv_cmds(stray)
           src  == Cmd!placeholder(IF stray THEN "h" ELSE "S")
           new  == Cmd!rewritten(cmds)
<1>1. /\ Cmd!rewrite(src) = (IF stray THEN <<"placeholder", "h">> ELSE <<"test", "S">>)
      /\ Cmd!rewrite(<<"riscv-dv", "link.ld">>) = <<"riscv-dv", "link.ld">>
      /\ Cmd!rewrite(Cmd!placeholder("o")) = <<"test", "o">>
      /\ Cmd!rewrite(Cmd!placeholder("bin")) = <<"test", "bin">>
  BY DEF Cmd!rewrite, Cmd!placeholder
<1>2. /\ DOMAIN cmds = {1, 2}
      /\ cmds[1].tool = "gcc" /\ cmds[1].reads = {src, <<"riscv-dv", "link.ld">>}
      /\ cmds[1].makes = {Cmd!placeholder("o")}
      /\ cmds[2].tool = "objcopy" /\ cmds[2].reads = {Cmd!placeholder("o")}
      /\ cmds[2].makes = {Cmd!placeholder("bin")}
  BY DEF riscvdv_cmds, Cmd!Cmd
<1>3. new = [i \in DOMAIN cmds |-> Cmd!Cmd(cmds[i].tool, {Cmd!rewrite(p) : p \in cmds[i].reads},
                                           {Cmd!rewrite(p) : p \in cmds[i].makes})]
  BY Zenon DEF Cmd!rewritten
<1> HIDE DEF cmds, src, new
<1>4. /\ {Cmd!rewrite(p) : p \in cmds[1].reads}
           = {IF stray THEN <<"placeholder", "h">> ELSE <<"test", "S">>, <<"riscv-dv", "link.ld">>}
      /\ {Cmd!rewrite(p) : p \in cmds[1].makes} = {<<"test", "o">>}
      /\ {Cmd!rewrite(p) : p \in cmds[2].reads} = {<<"test", "o">>}
      /\ {Cmd!rewrite(p) : p \in cmds[2].makes} = {<<"test", "bin">>}
  BY <1>1, <1>2
<1>5. /\ DOMAIN new = {1, 2}
      /\ new[1] = Cmd!Cmd("gcc", {IF stray THEN <<"placeholder", "h">> ELSE <<"test", "S">>,
                                  <<"riscv-dv", "link.ld">>}, {<<"test", "o">>})
      /\ new[2] = Cmd!Cmd("objcopy", {<<"test", "o">>}, {<<"test", "bin">>})
  BY <1>2, <1>3, <1>4
<1>6. new = <<new[1], new[2]>>
  <2>1. new = [i \in {1, 2} |-> new[i]]
    BY <1>2, <1>3
  <2>2. 1 .. 2 = {1, 2}
    OBVIOUS
  <2>3. QED
    BY <2>1, <2>2
<1>7. QED
  BY <1>5, <1>6, Zenon DEF new, cmds

\* Only the first command reads the sources; the others read what it has made.
FromObject(cmds, n) ==
  /\ n \in Nat /\ n > 0 /\ DOMAIN cmds = 1 .. n /\ Len(cmds) = n
  /\ \A p \in cmds[1].reads : p[1] = "test" => p[2] = "S"
  /\ cmds[1].makes = {<<"test", "o">>}
  /\ \A i \in 2 .. n : cmds[i].reads = {<<"test", "o">>}

LEMMA FromObjectClosed ==
  ASSUME NEW cmds, NEW n, FromObject(cmds, n)
  PROVE  /\ \A i \in DOMAIN cmds : \A p \in cmds[i].reads :
              p[1] = "test" => \/ p[2] = "S"
                               \/ p \in UNION {cmds[j].makes : j \in 1 .. i - 1}
         /\ \A i \in DOMAIN cmds :
              cmds[i].makes \subseteq UNION {cmds[j].makes : j \in 1 .. (Len(cmds) + 1) - 1}
<1>1. ASSUME NEW i \in DOMAIN cmds, NEW p \in cmds[i].reads, p[1] = "test"
      PROVE  p[2] = "S" \/ p \in UNION {cmds[j].makes : j \in 1 .. i - 1}
  <2>1. CASE i = 1
    BY <1>1, <2>1 DEF FromObject
  <2>2. CASE i \in 2 .. n
    <3>1. p \in cmds[1].makes /\ 1 \in 1 .. i - 1
      BY <1>1, <2>2 DEF FromObject
    <3>2. QED
      BY <3>1
  <2>3. QED
    BY <2>1, <2>2 DEF FromObject
<1>2. ASSUME NEW i \in DOMAIN cmds
      PROVE  cmds[i].makes \subseteq UNION {cmds[j].makes : j \in 1 .. (Len(cmds) + 1) - 1}
  <2>1. i \in 1 .. (Len(cmds) + 1) - 1
    BY DEF FromObject
  <2>2. QED
    BY <2>1
<1>3. QED
  BY <1>1, <1>2

\* With the debug module in a memory of its own.
LEMMA DebugModuleCommands ==
  LET cmds == Cmd!ddm_cmds(Cmd!rewritten(riscvdv_cmds(FALSE)))
  IN  /\ FromObject(cmds, 5)
      /\ cmds[2].makes = {<<"test", "dm.vmem">>} /\ cmds[3].makes = {<<"test", "main.vmem">>}
      /\ cmds[4].makes = {<<"test", "dm.bin">>} /\ cmds[5].makes = {<<"test", "main.bin">>}
<1> DEFINE new == Cmd!rewritten(riscvdv_cmds(FALSE))
           linked(c) == [c EXCEPT !.reads =
                           {IF p[2] = "link.ld" THEN <<"ext", "ddm_link.ld">> ELSE p : p \in @}]
           kept   == SubSeq(new, 1, Len(new) - 1)
           first  == [i \in DOMAIN kept |-> linked(kept[i])]
           images == [i \in 1 .. 4 |->
                        Cmd!Cmd("objcopy", {<<"test", "o">>},
                          {<<"test", <<"dm.vmem", "main.vmem", "dm.bin", "main.bin">>[i]>>})]
           cmds   == Cmd!ddm_cmds(new)
<1>1. /\ DOMAIN new = {1, 2} /\ new = <<new[1], new[2]>>
      /\ new[1] = Cmd!Cmd("gcc", {<<"test", "S">>, <<"riscv-dv", "link.ld">>}, {<<"test", "o">>})
  BY RewrittenCommands
<1>2. cmds = first \o images
  BY Zenon DEF Cmd!ddm_cmds
<1> HIDE DEF new, cmds
<1>3. DOMAIN kept = {1} /\ kept[1] = new[1]
  <2>1. Len(new) - 1 = 1
    BY <1>1
  <2>2. PICK s : s = SubSeq(new, 1, 1)
    OBVIOUS
  <2>3. \A i \in 1 .. 1 : new[i] \in {new[1]}
    OBVIOUS
  <2>4. s \in Seq({new[1]}) /\ Len(s) = 1
    BY <2>2, <2>3, SubSeqProperties
  <2>5. DOMAIN s = {1} /\ s[1] = new[1]
    BY <2>4
  <2>6. QED
    BY <2>1, <2>2, <2>5
<1> HIDE DEF kept
<1>4. PICK l : l = linked(new[1])
  OBVIOUS
<1>5. /\ \A p \in l.reads : p[1] = "test" => p[2] = "S"
      /\ l.makes = {<<"test", "o">>}
  BY <1>1, <1>4 DEF Cmd!Cmd
<1> HIDE DEF linked
<1>6. first = <<l>>
  <2>1. DOMAIN kept = {1} /\ kept[1] = new[1]
    BY <1>3
  <2>2. first = [i \in {1} |-> l]
    BY <1>4, <2>1
  <2>3. 1 .. 1 = {1}
    OBVIOUS
  <2>4. QED
    BY <2>2, <2>3
<1>7. /\ DOMAIN images = 1 .. 4
      /\ \A i \in 1 .. 4 : images[i].reads = {<<"test", "o">>}
      /\ images[1].makes = {<<"test", "dm.vmem">>} /\ images[2].makes = {<<"test", "main.vmem">>}
      /\ images[3].makes = {<<"test", "dm.bin">>} /\ images[4].makes = {<<"test", "main.bin">>}
  BY DEF Cmd!Cmd
<1>8. PICK S : S = {l} \cup {images[i] : i \in 1 .. 4}
  OBVIOUS
<1>9. first \in Seq(S) /\ Len(first) = 1 /\ first[1] = l
  BY <1>6, <1>8
<1>10. images \in Seq(S) /\ Len(images) = 4
  BY <1>8
<1> HIDE DEF first, images
<1>11. /\ cmds \in Seq(S) /\ Len(cmds) = 5
       /\ \A i \in 1 .. 5 : cmds[i] = IF i <= 1 THEN first[i] ELSE images[i - 1]
  <2>1. Len(first) + Len(images) = 5
    BY <1>9, <1>10
  <2>2. PICK r, q : r = first /\ q = images
    OBVIOUS
  <2>3. /\ r \o q \in Seq(S) /\ Len(r \o q) = 5
        /\ \A i \in 1 .. 5 : (r \o q)[i] = IF i <= 1 THEN r[i] ELSE q[i - 1]
    <3>1. r \in Seq(S) /\ q \in Seq(S) /\ Len(r) = 1 /\ Len(q) = 4
      BY <1>9, <1>10, <2>2, Zenon
    <3>2. /\ r \o q \in Seq(S) /\ Len(r \o q) = Len(r) + Len(q)
          /\ \A i \in 1 .. Len(r) + Len(q) :
               (r \o q)[i] = IF i <= Len(r) THEN r[i] ELSE q[i - Len(r)]
      BY <3>1, ConcatProperties
    <3>3. QED
      BY <3>1, <3>2
  <2>4. QED
    BY <1>2, <2>2, <2>3, Zenon
<1>12. /\ cmds[1] = l /\ cmds[2] = images[1] /\ cmds[3] = images[2]
       /\ cmds[4] = images[3] /\ cmds[5] = images[4]
  BY <1>9, <1>11
<1>13. \A i \in 2 .. 5 : cmds[i].reads = {<<"test", "o">>}
  <2>1. \A i \in 2 .. 5 : cmds[i] = images[i - 1] /\ i - 1 \in 1 .. 4
    BY <1>11
  <2>2. QED
    BY <1>7, <2>1
<1>14. FromObject(cmds, 5)
  BY <1>5, <1>11, <1>12, <1>13 DEF FromObject
<1>15. QED
  BY <1>7, <1>12, <1>14, Zenon DEF cmds, new

\* The commands that riscv-dv has given.
LEMMA RiscvdvCompiled ==
  ASSUME NEW dv_ret \in {0, 1}, NEW ddm \in BOOLEAN, NEW stray \in BOOLEAN
  PROVE  Compiled(ddm, dv_ret = 0 /\ ~stray,
                  Cmd!get_riscvdv_compile_cmds(dv_ret, riscvdv_cmds(stray), ddm))
<1> DEFINE new  == Cmd!rewritten(riscvdv_cmds(stray))
           made == Cmd!get_riscvdv_compile_cmds(dv_ret, riscvdv_cmds(stray), ddm)
           cmds == IF ddm THEN Cmd!ddm_cmds(new) ELSE new
           left == \E i \in DOMAIN new : \E p \in new[i].reads \cup new[i].makes :
                     p[1] = "placeholder"
<1>1. /\ DOMAIN new = {1, 2}
      /\ new[1] = Cmd!Cmd("gcc", {IF stray THEN <<"placeholder", "h">> ELSE <<"test", "S">>,
                                  <<"riscv-dv", "link.ld">>}, {<<"test", "o">>})
      /\ new[2] = Cmd!Cmd("objcopy", {<<"test", "o">>}, {<<"test", "bin">>})
      /\ new = <<new[1], new[2]>>
  BY RewrittenCommands, Zenon
<1>2. made = IF dv_ret # 0 \/ left THEN Cmd!Raised ELSE Cmd!Cmds(cmds)
  BY Zenon DEF Cmd!get_riscvdv_compile_cmds
<1> HIDE DEF new
<1>3. /\ new[1].reads = {IF stray THEN <<"placeholder", "h">> ELSE <<"test", "S">>,
                         <<"riscv-dv", "link.ld">>}
      /\ new[1].makes = {<<"test", "o">>} /\ new[2].reads = {<<"test", "o">>}
      /\ new[2].makes = {<<"test", "bin">>}
  BY <1>1 DEF Cmd!Cmd
<1>4. left <=> stray
  <2>1. CASE stray
    <3>1. <<"placeholder", "h">> \in new[1].reads \cup new[1].makes
      BY <1>3, <2>1
    <3>2. <<"placeholder", "h">>[1] = "placeholder" /\ 1 \in DOMAIN new
      BY <1>1
    <3>3. QED
      BY <2>1, <3>1, <3>2
  <2>2. CASE ~stray
    <3>1. /\ \A p \in new[1].reads \cup new[1].makes : p[1] # "placeholder"
          /\ \A p \in new[2].reads \cup new[2].makes : p[1] # "placeholder"
      BY <1>3, <2>2
    <3>2. QED
      BY <1>1, <2>2, <3>1
  <2>3. QED
    BY <2>1, <2>2
<1> HIDE DEF left, cmds, made
<1>5. (made.ok <=> dv_ret = 0 /\ ~stray) /\ (made.ok => made.cmds = cmds)
  BY <1>2, <1>4 DEF Cmd!Raised, Cmd!Cmds
<1>6. ASSUME ~stray
      PROVE  \E n : FromObject(cmds, n) /\ \A p \in Cmd!rtl_images(ddm) :
                      \E i \in DOMAIN cmds : p \in cmds[i].makes
  <2>1. CASE ddm
    <3>1. cmds = Cmd!ddm_cmds(Cmd!rewritten(riscvdv_cmds(FALSE)))
      BY <1>6, <2>1 DEF cmds, new
    <3>2. /\ FromObject(cmds, 5)
          /\ cmds[2].makes = {<<"test", "dm.vmem">>} /\ cmds[3].makes = {<<"test", "main.vmem">>}
          /\ cmds[4].makes = {<<"test", "dm.bin">>} /\ cmds[5].makes = {<<"test", "main.bin">>}
      BY <3>1, DebugModuleCommands, Zenon
    <3>3. DOMAIN cmds = 1 .. 5
      BY <3>2 DEF FromObject
    <3>4. \A p \in Cmd!rtl_images(ddm) : \E i \in DOMAIN cmds : p \in cmds[i].makes
      BY <2>1, <3>2, <3>3 DEF Cmd!rtl_images
    <3>5. QED
      BY <3>2, <3>4
  <2>2. CASE ~ddm
    <3>1. cmds = new
      BY <2>2 DEF cmds
    <3>2. DOMAIN new = 1 .. 2 /\ Len(new) = 2
      BY <1>1
    <3>3. FromObject(new, 2)
      BY <1>3, <1>6, <3>2 DEF FromObject
    <3>4. \A p \in Cmd!rtl_images(ddm) : p \in new[2].makes
      BY <1>3, <2>2 DEF Cmd!rtl_images
    <3>5. QED
      BY <1>1, <3>1, <3>3, <3>4
  <2>3. QED
    BY <2>1, <2>2
<1>7. ASSUME made.ok
      PROVE  /\ \A i \in DOMAIN made.cmds : \A p \in made.cmds[i].reads :
                  p[1] = "test" => \/ p[2] = "S"
                                   \/ p \in UNION {made.cmds[j].makes : j \in 1 .. i - 1}
             /\ Cmd!rtl_images(ddm)
                  \subseteq UNION {made.cmds[j].makes : j \in 1 .. (Len(made.cmds) + 1) - 1}
  <2>1. ~stray /\ cmds = made.cmds
    BY <1>5, <1>7
  <2>2. PICK c : c = made.cmds
    OBVIOUS
  <2>3. PICK n : FromObject(c, n) /\ \A p \in Cmd!rtl_images(ddm) :
                   \E i \in DOMAIN c : p \in c[i].makes
    BY <1>6, <2>1, <2>2
  <2>4. /\ \A i \in DOMAIN c : \A p \in c[i].reads :
              p[1] = "test" => \/ p[2] = "S"
                               \/ p \in UNION {c[j].makes : j \in 1 .. i - 1}
        /\ \A i \in DOMAIN c :
              c[i].makes \subseteq UNION {c[j].makes : j \in 1 .. (Len(c) + 1) - 1}
    BY <2>3, FromObjectClosed, Zenon
  <2>5. Cmd!rtl_images(ddm) \subseteq UNION {c[j].makes : j \in 1 .. (Len(c) + 1) - 1}
    BY <2>3, <2>4
  <2>6. QED
    BY <2>2, <2>4, <2>5
<1>8. QED
  BY <1>5, <1>7, Zenon DEF Compiled, made

\* The commands of a directed test, as the environment of the toolchain is set.
LEMMA DirectedCompiled ==
  ASSUME NEW config, NEW env \in SUBSET {"RISCV_TOOLCHAIN", "RISCV_GCC", "RISCV_OBJCOPY"}
  PROVE  Compiled(FALSE, Cardinality(env) = 3,
                  Cmd!get_directed_compile_cmds(env,
                    [test_srcs |-> <<"src", "S">>, includes |-> <<"src", "inc">>,
                     ld_script |-> <<"src", "link.ld">>, config |-> config]))
<1> DEFINE needed == {"RISCV_TOOLCHAIN", "RISCV_GCC", "RISCV_OBJCOPY"}
           data == [test_srcs |-> <<"src", "S">>, includes |-> <<"src", "inc">>,
                    ld_script |-> <<"src", "link.ld">>, config |-> config]
           boot == IF data.config = "riscv-arch-tests"
                   THEN {<<"directed_tests", "riscv_arch_test_boot.S">>} ELSE {}
           gcc  == Cmd!Cmd("gcc", {data.test_srcs, data.includes, data.ld_script} \cup boot,
                           {<<"test", "o">>})
           copy == Cmd!Cmd("objcopy", {<<"test", "o">>}, {<<"test", "bin">>})
           made == Cmd!get_directed_compile_cmds(env, data)
<1>1. IsFiniteSet(needed) /\ Cardinality(needed) = 3
  <2>1. IsFiniteSet({}) /\ Cardinality({}) = 0
    BY FS_EmptySet
  <2>2. IsFiniteSet({"RISCV_GCC"}) /\ Cardinality({"RISCV_GCC"}) = 1
    BY FS_Singleton
  <2>3. /\ IsFiniteSet({"RISCV_GCC"} \cup {"RISCV_OBJCOPY"})
        /\ Cardinality({"RISCV_GCC"} \cup {"RISCV_OBJCOPY"}) = 2
    BY <2>2, FS_AddElement
  <2>4. /\ IsFiniteSet(({"RISCV_GCC"} \cup {"RISCV_OBJCOPY"}) \cup {"RISCV_TOOLCHAIN"})
        /\ Cardinality(({"RISCV_GCC"} \cup {"RISCV_OBJCOPY"}) \cup {"RISCV_TOOLCHAIN"}) = 3
    BY <2>3, FS_AddElement
  <2>5. needed = ({"RISCV_GCC"} \cup {"RISCV_OBJCOPY"}) \cup {"RISCV_TOOLCHAIN"}
    OBVIOUS
  <2>6. QED
    BY <2>4, <2>5
<1>2. Cardinality(env) = 3 <=> needed \subseteq env
  BY <1>1, FS_Subset
<1>3. made = IF ~(needed \subseteq env) THEN Cmd!Raised ELSE Cmd!Cmds(<<gcc, copy>>)
  BY Zenon DEF Cmd!get_directed_compile_cmds
<1>4. /\ \A p \in gcc.reads : p[1] # "test"
      /\ gcc.makes = {<<"test", "o">>}
      /\ copy.reads = {<<"test", "o">>} /\ copy.makes = {<<"test", "bin">>}
  BY DEF Cmd!Cmd
<1>5. PICK cmds : cmds = <<gcc, copy>>
  OBVIOUS
<1> HIDE DEF gcc, copy, data
<1>6. DOMAIN cmds = 1 .. 2 /\ Len(cmds) = 2 /\ cmds[1] = gcc /\ cmds[2] = copy
  BY <1>5
<1>7. FromObject(cmds, 2) /\ cmds[2].makes = {<<"test", "bin">>} /\ 2 \in DOMAIN cmds
  BY <1>4, <1>6 DEF FromObject
<1>8. made = IF ~(needed \subseteq env) THEN Cmd!Raised ELSE Cmd!Cmds(cmds)
  BY <1>3, <1>5
<1> HIDE DEF made, needed
<1>9. (made.ok <=> needed \subseteq env) /\ (made.ok => made.cmds = cmds)
  BY <1>8 DEF Cmd!Raised, Cmd!Cmds
<1>10. /\ \A i \in DOMAIN cmds : \A p \in cmds[i].reads :
            p[1] = "test" => \/ p[2] = "S"
                             \/ p \in UNION {cmds[j].makes : j \in 1 .. i - 1}
       /\ \A i \in DOMAIN cmds :
            cmds[i].makes \subseteq UNION {cmds[j].makes : j \in 1 .. (Len(cmds) + 1) - 1}
  BY <1>7, FromObjectClosed, Zenon
<1>11. Cmd!rtl_images(FALSE) \subseteq UNION {cmds[j].makes : j \in 1 .. (Len(cmds) + 1) - 1}
  <2>1. Cmd!rtl_images(FALSE) = {<<"test", "bin">>}
    BY DEF Cmd!rtl_images
  <2>2. QED
    BY <1>7, <1>10, <2>1, Zenon
<1>12. ASSUME made.ok
       PROVE  /\ \A i \in DOMAIN made.cmds : \A p \in made.cmds[i].reads :
                   p[1] = "test" => \/ p[2] = "S"
                                    \/ p \in UNION {made.cmds[j].makes : j \in 1 .. i - 1}
              /\ Cmd!rtl_images(FALSE)
                   \subseteq UNION {made.cmds[j].makes : j \in 1 .. (Len(made.cmds) + 1) - 1}
  <2>1. made.cmds = cmds
    BY <1>9, <1>12
  <2>2. PICK c : c = made.cmds
    OBVIOUS
  <2>3. c = cmds
    BY <2>1, <2>2
  <2>4. /\ \A i \in DOMAIN c : \A p \in c[i].reads :
             p[1] = "test" => \/ p[2] = "S"
                              \/ p \in UNION {c[j].makes : j \in 1 .. i - 1}
        /\ Cmd!rtl_images(FALSE) \subseteq UNION {c[j].makes : j \in 1 .. (Len(c) + 1) - 1}
    BY <1>10, <1>11, <2>3, Zenon
  <2>5. QED
    BY <2>2, <2>4, Zenon
<1>13. QED
  BY <1>2, <1>9, <1>12, Zenon DEF Compiled, made, data, needed

-----------------------------------------------------------------------------
(* What all algorithms make of what they are given. *)

\* The input of the algorithm at work, the commands of a test that are made, and how
\* far a conversion has come.
Posed ==
  /\ task.op = "select" => task.in \in Selections
  /\ task.op = "relocate" => task.in \in Relocations
  /\ task.op = "configure" => task.in \in Configurations
  /\ task.op = "tools" =>
       /\ task.vcs \in VcsVersions /\ task.named \in SUBSET {"vcs", "vivado", "other"}
       /\ task.vivado \in VivadoSaid /\ task.verilator \in VerilatorSaid
       /\ task.state \in {"good", "other", "missing", "word", "more"}
  /\ task.op = "copy" => task.run_failed \in BOOLEAN
  /\ task.op = "compile" => Compiled(task.ddm, task.good, task.made)
  /\ task.op = "convert" =>
       /\ task = [op |-> "convert", list |-> task.list, broken |-> task.broken, s |-> task.s]
       /\ task.list \in SourceLists /\ Converting(task.list, task.broken, task.s)

LEMMA ConvertingPosed ==
  ASSUME Posed, ConvertSources PROVE Posed'
<1>1. CASE task.op = "none"
  <2>1. PICK list \in SourceLists : \E broken \in SUBSET Sv!names(list, DOMAIN list) :
          task' = [op |-> "convert", list |-> list, broken |-> broken, s |-> Sv!Started]
    BY <1>1 DEF ConvertSources
  <2>a. PICK broken :
          task' = [op |-> "convert", list |-> list, broken |-> broken, s |-> Sv!Started]
    BY <2>1
  <2>2. Converting(list, broken, Sv!Started)
    BY ConvertingStarts, Zenon
  <2> DEFINE t == Sv!Started
  <2> HIDE DEF t
  <2>3. /\ task' = [op |-> "convert", list |-> list, broken |-> broken, s |-> t]
        /\ Converting(list, broken, t)
    BY <2>a, <2>2, Zenon DEF t
  <2>4. /\ task'.op = "convert" /\ task'.list = list /\ task'.broken = broken /\ task'.s = t
    BY <2>3
  <2>5. QED
    BY <2>3, <2>4 DEF Posed
<1>2. CASE task.op = "convert" /\ task.s.status = "runs"
  <2>1. PICK list, broken, s : list = task.list /\ broken = task.broken /\ s = task.s
    OBVIOUS
  <2>2. /\ task = [op |-> "convert", list |-> list, broken |-> broken, s |-> s]
        /\ list \in SourceLists /\ Converting(list, broken, s)
    BY <1>2, <2>1 DEF Posed
  <2>3. PICK step \in Sv!next_step(list, s.done) : \E disk \in Sv!outcomes(step) :
          task' = [task EXCEPT !.s = Sv!run_step(list, broken, s, step, disk)]
    BY <1>2, <2>1 DEF ConvertSources
  <2>a. PICK disk \in Sv!outcomes(step) :
          task' = [task EXCEPT !.s = Sv!run_step(list, broken, s, step, disk)]
    BY <2>3
  <2>4. Converting(list, broken, Sv!run_step(list, broken, s, step, disk))
    BY <1>2, <2>1, <2>2, ConvertingGoesOn, Zenon
  <2>5. PICK t : t = Sv!run_step(list, broken, s, step, disk)
    OBVIOUS
  <2>6. task' = [op |-> "convert", list |-> list, broken |-> broken, s |-> t]
    BY <2>2, <2>a, <2>5
  <2>7. task'.op = "convert" /\ task'.list = list /\ task'.broken = broken /\ task'.s = t
    BY <2>6
  <2>8. Converting(list, broken, t)
    BY <2>4, <2>5, Zenon
  <2>9. QED
    BY <2>2, <2>6, <2>7, <2>8 DEF Posed
<1>3. QED
  BY <1>1, <1>2 DEF ConvertSources

LEMMA CompilingPosed ==
  ASSUME CompileTest PROVE Posed'
<1>1. PICK ddm, good, made :
        /\ task' = [op |-> "compile", ddm |-> ddm, good |-> good, made |-> made]
        /\ Compiled(ddm, good, made)
  <2>1. ASSUME NEW dv_ret \in {0, 1}, NEW d \in BOOLEAN, NEW stray \in BOOLEAN,
               task' = [op |-> "compile", ddm |-> d, good |-> dv_ret = 0 /\ ~stray,
                        made |-> Cmd!get_riscvdv_compile_cmds(dv_ret, riscvdv_cmds(stray), d)]
        PROVE  \E ddm, good, made :
                 /\ task' = [op |-> "compile", ddm |-> ddm, good |-> good, made |-> made]
                 /\ Compiled(ddm, good, made)
    <3>1. Compiled(d, dv_ret = 0 /\ ~stray,
                   Cmd!get_riscvdv_compile_cmds(dv_ret, riscvdv_cmds(stray), d))
      BY RiscvdvCompiled, Zenon
    <3>2. QED
      BY <2>1, <3>1, Zenon
  <2>2. ASSUME NEW config \in {"riscv-tests", "riscv-arch-tests"},
               NEW env \in SUBSET {"RISCV_TOOLCHAIN", "RISCV_GCC", "RISCV_OBJCOPY"},
               task' = [op |-> "compile", ddm |-> FALSE, good |-> Cardinality(env) = 3,
                        made |-> Cmd!get_directed_compile_cmds(env,
                           [test_srcs |-> <<"src", "S">>, includes |-> <<"src", "inc">>,
                            ld_script |-> <<"src", "link.ld">>, config |-> config])]
        PROVE  \E ddm, good, made :
                 /\ task' = [op |-> "compile", ddm |-> ddm, good |-> good, made |-> made]
                 /\ Compiled(ddm, good, made)
    <3>1. Compiled(FALSE, Cardinality(env) = 3, Cmd!get_directed_compile_cmds(env,
                           [test_srcs |-> <<"src", "S">>, includes |-> <<"src", "inc">>,
                            ld_script |-> <<"src", "link.ld">>, config |-> config]))
      BY DirectedCompiled, Zenon
    <3>2. QED
      BY <2>2, <3>1, Zenon
  <2>3. QED
    BY <2>1, <2>2, Zenon DEF CompileTest
<1>2. task'.op = "compile" /\ task'.ddm = ddm /\ task'.good = good /\ task'.made = made
  BY <1>1
<1>3. task'.op = "compile" /\ Compiled(task'.ddm, task'.good, task'.made)
  BY <1>1, <1>2, Zenon
<1>4. QED
  BY <1>3 DEF Posed

LEMMA PosedInductive == TaskSpec => []Posed
<1>1. TaskInit => Posed
  <2>1. TaskInit => task.op = "none"
    BY DEF TaskInit
  <2>2. QED
    BY <2>1 DEF Posed
<1>2. Posed /\ [TaskNext]_task => Posed'
  <2> SUFFICES ASSUME Posed, [TaskNext]_task PROVE Posed'
    OBVIOUS
  <2>1. CASE UNCHANGED task
    BY <2>1, Zenon DEF Posed
  <2>2. ASSUME SelectTests PROVE Posed'
    <3>1. PICK x \in Selections : task' = [op |-> "select", in |-> x]
      BY <2>2 DEF SelectTests
    <3>2. task'.op = "select" /\ task'.in = x
      BY <3>1
    <3>3. QED
      BY <3>2 DEF Posed
  <2>3. ASSUME RelocateCommand PROVE Posed'
    <3>1. PICK x \in Relocations : task' = [op |-> "relocate", in |-> x]
      BY <2>3 DEF RelocateCommand
    <3>2. task'.op = "relocate" /\ task'.in = x
      BY <3>1
    <3>3. QED
      BY <3>2 DEF Posed
  <2>4. ASSUME Configure PROVE Posed'
    <3>1. PICK x \in Configurations : task' = [op |-> "configure", in |-> x]
      BY <2>4 DEF Configure
    <3>2. task'.op = "configure" /\ task'.in = x
      BY <3>1
    <3>3. QED
      BY <3>2 DEF Posed
  <2>5. ASSUME CheckTools PROVE Posed'
    <3>1. PICK vcs \in VcsVersions, named \in SUBSET {"vcs", "vivado", "other"},
               vivado \in VivadoSaid, verilator \in VerilatorSaid,
               state \in {"good", "other", "missing", "word", "more"} :
            task' = [op |-> "tools", named |-> named, state |-> state, vcs |-> vcs,
                     vivado |-> vivado, verilator |-> verilator]
      BY <2>5 DEF CheckTools, VivadoSaid, VerilatorSaid
    <3>2. /\ task'.op = "tools" /\ task'.named = named /\ task'.state = state
          /\ task'.vcs = vcs /\ task'.vivado = vivado /\ task'.verilator = verilator
      BY <3>1
    <3>3. QED
      BY <3>2 DEF Posed
  <2>6. ASSUME GenerateTestlist PROVE Posed'
    <3>1. task'.op = "generate"
      BY <2>6 DEF GenerateTestlist
    <3>2. QED
      BY <3>1 DEF Posed
  <2>7. ASSUME BuildCommand PROVE Posed'
    <3>1. task'.op = "command"
      BY <2>7 DEF BuildCommand
    <3>2. QED
      BY <3>1 DEF Posed
  <2>8. ASSUME CopyFiles PROVE Posed'
    <3>1. task'.op = "copy" /\ task'.run_failed \in BOOLEAN
      BY <2>8 DEF CopyFiles
    <3>2. QED
      BY <3>1 DEF Posed
  <2>9. ASSUME CompileTest PROVE Posed'
    BY <2>9, CompilingPosed
  <2>10. ASSUME CollectResults PROVE Posed'
    <3>1. task'.op = "collect"
      BY <2>10 DEF CollectResults
    <3>2. QED
      BY <3>1 DEF Posed
  <2>11. ASSUME ConvertSources PROVE Posed'
    BY <2>11, ConvertingPosed
  <2>12. QED
    BY <2>1, <2>2, <2>3, <2>4, <2>5, <2>6, <2>7, <2>8, <2>9, <2>10, <2>11 DEF TaskNext
<1>3. QED
  BY <1>1, <1>2, PTL DEF TaskSpec

\* Every configuration that is accepted, whatever its fields, is built as it is
\* written. (ibex_config.py:119, ibex_cmd.py:73)
THEOREM ConfigurationsBuilt == TaskSpec => []ConfigurationBuilt
<1>1. Posed => ConfigurationBuilt
  BY AcceptedIsBuilt, ConfigurationAssumption DEF Posed, ConfigurationBuilt
<1>2. QED
  BY <1>1, PosedInductive, PTL

\* Of any list of files, wherever the script ends or fails, one is replaced only after
\* all are converted, and a header is emptied only after all sources are replaced.
\* (sv2v_in_place.py:83, 180)
THEOREM InPlaceSafe == TaskSpec => []ReplacedAfterAllConverted
<1>1. Posed => ReplacedAfterAllConverted
  BY ConvertingIsSafe, Zenon DEF Posed, ReplacedAfterAllConverted
<1>2. QED
  BY <1>1, PosedInductive, PTL

\* The check of the tools is right for all versions of VCS but those of other months of
\* the year that is asked for, whose order is not (VcsOrderInRelease).
\* (check_tool_requirements.py:399)
THEOREM ToolsCheckedRight ==
  ASSUME \A v \in VcsVersions : v.major # 2020 \/ v.minor = 3
  PROVE  TaskSpec => []ToolsChecked
<1>1. Posed => ToolsChecked
  BY CheckedExact, VcsAssumption DEF Posed, ToolsChecked
<1>2. QED
  BY <1>1, PosedInductive, PTL

\* For every argument, any lists of tests and any configuration of the core, so long as
\* a name is that of one test and an entry has one parameter or none: what is run is
\* what is asked for and can be run, save the directed tests that the script leaves out.
\* (metadata.py:262, ibex_cmd.py:126)
THEOREM SelectionsExact == TaskSpec => []SelectionExact
<1>1. Posed => SelectionExact
  BY SelectedExactly, SelectionAssumption DEF Posed, SelectionExact
<1>2. QED
  BY <1>1, PosedInductive, PTL

\* The commands of a test mention only what is made for it, the images it loads are made
\* by them, and its file is copied only when it was generated: for every command of the
\* generator, whatever its words, and for every scratch directory.
\* (run_instr_gen.py:54, compile_test.py:28)
THEOREM TestCommandsComplete == TaskSpec => []TestCommandsClosed
<1>1. ASSUME Posed PROVE TestCommandsClosed
  <2>1. ASSUME task.op = "relocate" PROVE Relocated(task.in)
    <3>1. PICK x \in Relocations : x = task.in
      BY <1>1, <2>1 DEF Posed
    <3>2. \A i \in DOMAIN x.lines : \A j \in DOMAIN x.lines[i] :
            x.lines[i][j] \in [pre : STRING, path : Seq(STRING)]
      BY RelocationAssumption, Zenon
    <3>3. Relocated(x)
      BY <3>2, RelocatedClosed, Zenon
    <3>4. QED
      BY <3>1, <3>3, Zenon
  <2>2. ASSUME task.op = "copy" PROVE Copied(task.test, task.run_failed, task.scratch)
    <3>1. task.run_failed \in BOOLEAN
      BY <1>1, <2>2 DEF Posed
    <3>2. QED
      BY <3>1, CopiedRight, Zenon
  <2>3. QED
    BY <1>1, <2>1, <2>2 DEF TestCommandsClosed, Posed
<1>2. QED
  BY <1>1, PosedInductive, PTL

=============================================================================
