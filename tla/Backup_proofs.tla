---------------------------- MODULE Backup_proofs ----------------------------
(***************************************************************************)
(* Proofs about Backup, for any number of runs at a time, any retention    *)
(* and any limit of pg_dump: types, that there is a dump to restore from,  *)
(* and that none goes before its time.                                     *)
(***************************************************************************)
EXTENDS Backup, TLAPS

(* A dump in progress has its file, which is too young for any run to      *)
(* remove.  No file is older than its name, and a run that removes files   *)
(* took its cutoff a while ago.                                            *)
Dumping == \A m \in Runs : pc[m] = "dumping" =>
             /\ file[m] \in DOMAIN files
             /\ now <= file[m] + TimeLimit
             /\ file[m] <= files[file[m]].mtime
Past    == \A f \in DOMAIN files : f <= files[f].mtime /\ files[f].mtime <= now
Cutoffs == \A m \in Runs : pc[m] \in {"pruning", "removing"} => cutoff[m] + Retention <= now

(* The file a run is about to remove was found too old a while ago, still  *)
(* is if it is there, and has a name nobody dumps to any more.             *)
Aimed == \A m \in Runs : pc[m] = "removing" =>
           /\ aim[m] + Retention < now
           /\ aim[m] \in DOMAIN files => files[aim[m]].mtime < cutoff[m]

TypeInv == TypeOK /\ Dumping /\ Past /\ Cutoffs /\ Aimed

LEMMA TypeInit == Init => TypeInv
  BY BackupAssumption DEF Init, TypeInv, TypeOK, Dumping, Past, Cutoffs, Aimed, Stages, Clock,
     File

LEMMA ConstantsType ==
  /\ TimeLimit \in Nat /\ Retention \in Nat /\ TimeLimit <= Retention
  /\ RetryDelay \in Nat /\ MaxRetries \in Nat /\ MaxClock \in Nat
  BY BackupAssumption, SomeRetention

(* A step that leaves clock and files alone and takes one run elsewhere.   *)
LEMMA RunMoves ==
  ASSUME TypeInv, NEW m \in Runs, NEW to \in Stages \ {"dumping", "pruning", "removing"},
         pc' = [pc EXCEPT ![m] = to], UNCHANGED <<now, files, file, cutoff, todo, aim>>,
         eta' \in [Runs -> Nat], tries' \in [Runs -> 0..MaxRetries]
  PROVE  TypeInv'
<1>1. TypeOK'
  BY DEF TypeInv, TypeOK
<1>2. Dumping' /\ Past' /\ Cutoffs' /\ Aimed'
  BY DEF TypeInv, TypeOK, Dumping, Past, Cutoffs, Aimed
<1> QED
  BY <1>1, <1>2 DEF TypeInv

LEMMA RetryStep ==
  ASSUME TypeInv, NEW m \in Runs, Retry(m)
  PROVE  TypeInv'
<1>1. /\ eta \in [Runs -> Nat] /\ tries \in [Runs -> 0..MaxRetries] /\ now \in Nat
  BY DEF TypeInv, TypeOK, Clock
<1>2. eta' \in [Runs -> Nat]
  BY <1>1, ConstantsType DEF Retry
<1>3. tries' \in [Runs -> 0..MaxRetries]
  BY <1>1, ConstantsType DEF Retry
<1>4. PICK to \in Stages \ {"dumping", "pruning", "removing"} : pc' = [pc EXCEPT ![m] = to]
  BY DEF Retry, Go, Stages, Ended
<1>5. UNCHANGED <<now, files, file, cutoff, todo, aim>>
  BY DEF Retry
<1> QED
  BY <1>2, <1>3, <1>4, <1>5, RunMoves

LEMMA StartStep ==
  ASSUME TypeInv, NEW m \in Runs, StartDump(m)
  PROVE  TypeInv'
<1> DEFINE entry == [whole |-> FALSE, shared |-> now \in DOMAIN files, mtime |-> now]
<1>1. /\ pc \in [Runs -> Stages] /\ file \in [Runs -> Clock] /\ now \in Clock /\ now \in Nat
      /\ files \in [DOMAIN files -> File] /\ DOMAIN files \subseteq Clock
  BY DEF TypeInv, TypeOK, Clock
<1>2. /\ pc' = [pc EXCEPT ![m] = "dumping"] /\ file' = [file EXCEPT ![m] = now]
      /\ files' = With(files, now, entry) /\ UNCHANGED <<now, eta, tries, cutoff, todo, aim>>
  BY DEF StartDump, Go
<1>3. entry \in File
  BY <1>1 DEF File
<1>4. /\ DOMAIN files' = DOMAIN files \cup {now}
      /\ files'[now] = entry
      /\ \A f \in DOMAIN files' : f # now => files'[f] = files[f]
  BY <1>2 DEF With
<1>5. files' \in [DOMAIN files' -> File]
  BY <1>1, <1>2, <1>3 DEF With
<1>6. entry.mtime = now
  OBVIOUS
<1> HIDE DEF entry
<1>7. TypeOK'
  BY <1>1, <1>2, <1>4, <1>5 DEF TypeInv, TypeOK, Stages
<1>8. Past'
  BY <1>1, <1>2, <1>4, <1>6 DEF TypeInv, Past
<1>9. Cutoffs'
  BY <1>1, <1>2 DEF TypeInv, Cutoffs
<1>10. Dumping'
  <2> SUFFICES ASSUME NEW n \in Runs, pc'[n] = "dumping"
               PROVE  /\ file'[n] \in DOMAIN files' /\ now' <= file'[n] + TimeLimit
                      /\ file'[n] <= files'[file'[n]].mtime
    BY DEF Dumping
  <2>1. CASE n = m
    BY <1>1, <1>2, <1>4, <1>6, <2>1, ConstantsType
  <2>2. CASE n # m
    <3>1. pc[n] = "dumping" /\ file'[n] = file[n]
      BY <1>1, <1>2, <2>2
    <3>2. file[n] \in DOMAIN files /\ now <= file[n] + TimeLimit /\ file[n] <= files[file[n]].mtime
      BY <3>1 DEF TypeInv, Dumping
    <3>3. file'[n] <= files'[file'[n]].mtime
      BY <1>1, <1>4, <1>6, <3>1, <3>2
    <3> QED
      BY <1>2, <1>4, <3>1, <3>2, <3>3
  <2> QED
    BY <2>1, <2>2
<1>11. Aimed'
  <2> SUFFICES ASSUME NEW n \in Runs, pc'[n] = "removing"
               PROVE  /\ aim[n] + Retention < now
                      /\ aim[n] \in DOMAIN files' => files'[aim[n]].mtime < cutoff[n]
    BY <1>2 DEF Aimed
  <2>1. pc[n] = "removing" /\ aim[n] \in Nat
    BY <1>1, <1>2 DEF TypeInv, TypeOK, Clock
  <2>2. /\ aim[n] + Retention < now
        /\ aim[n] \in DOMAIN files => files[aim[n]].mtime < cutoff[n]
    BY <2>1 DEF TypeInv, Aimed
  <2>3. aim[n] # now
    BY <1>1, <2>1, <2>2, ConstantsType
  <2> QED
    BY <1>4, <2>2, <2>3
<1> QED
  BY <1>7, <1>8, <1>9, <1>10, <1>11 DEF TypeInv

(* The file of a run, written to its end. *)
Written(m, w) == [files[file[m]] EXCEPT !.whole = w, !.mtime = now]

LEMMA FinishDumpFacts ==
  ASSUME TypeInv, NEW m \in Runs, FinishDump(m)
  PROVE  /\ pc[m] = "dumping" /\ pc' = [pc EXCEPT ![m] = "pruning"]
         /\ cutoff' = [cutoff EXCEPT ![m] = now - Retention]
         /\ todo' = [todo EXCEPT ![m] = DOMAIN files]
         /\ UNCHANGED <<now, eta, tries, file, aim>>
         /\ file[m] \in DOMAIN files /\ DOMAIN files' = DOMAIN files
         /\ files'[file[m]] \in File /\ files'[file[m]].mtime = now
         /\ files'[file[m]].whole \/ files'[file[m]].shared
         /\ \A f \in DOMAIN files : f # file[m] => files'[f] = files[f]
<1>1. PICK w \in IF files[file[m]].shared THEN BOOLEAN ELSE {TRUE} :
        files' = [files EXCEPT ![file[m]] = Written(m, w)]
  BY DEF FinishDump, Written
<1>2. pc[m] = "dumping" /\ file[m] \in DOMAIN files
  BY DEF FinishDump, Go, TypeInv, Dumping
<1>3. files \in [DOMAIN files -> File] /\ now \in Clock
  BY DEF TypeInv, TypeOK
<1>4. files[file[m]] \in File
  BY <1>2, <1>3
<1>5. /\ Written(m, w) \in File /\ Written(m, w).mtime = now /\ Written(m, w).whole = w
      /\ Written(m, w).shared = files[file[m]].shared
  BY <1>1, <1>3, <1>4 DEF Written, File
<1>6. /\ files'[file[m]] = Written(m, w) /\ DOMAIN files' = DOMAIN files
      /\ \A f \in DOMAIN files : f # file[m] => files'[f] = files[f]
  BY <1>1, <1>2, <1>3
<1>7. w = TRUE \/ files[file[m]].shared
  BY <1>1
<1>8. files'[file[m]].whole \/ files'[file[m]].shared
  BY <1>5, <1>6, <1>7
<1> QED
  BY <1>2, <1>5, <1>6, <1>8 DEF FinishDump, Go

LEMMA FinishDumpStep ==
  ASSUME TypeInv, NEW m \in Runs, FinishDump(m)
  PROVE  TypeInv'
<1>1. /\ pc \in [Runs -> Stages] /\ file \in [Runs -> Clock] /\ now \in Clock /\ now \in Nat
      /\ files \in [DOMAIN files -> File] /\ DOMAIN files \subseteq Clock
      /\ cutoff \in [Runs -> Int] /\ todo \in [Runs -> SUBSET Clock]
  BY DEF TypeInv, TypeOK, Clock
<1>2. /\ pc' = [pc EXCEPT ![m] = "pruning"] /\ cutoff' = [cutoff EXCEPT ![m] = now - Retention]
      /\ todo' = [todo EXCEPT ![m] = DOMAIN files] /\ UNCHANGED <<now, eta, tries, file, aim>>
      /\ file[m] \in DOMAIN files /\ DOMAIN files' = DOMAIN files
      /\ files'[file[m]] \in File /\ files'[file[m]].mtime = now
      /\ \A f \in DOMAIN files : f # file[m] => files'[f] = files[f]
  BY FinishDumpFacts
<1>3. files' \in [DOMAIN files' -> File]
  <2>1. \A f \in DOMAIN files' : files'[f] \in File
    BY <1>1, <1>2
  <2>2. files' = [f \in DOMAIN files' |-> files'[f]]
    BY <1>1 DEF FinishDump
  <2> QED
    BY <2>1, <2>2
<1>4. TypeOK'
  BY <1>1, <1>2, <1>3, ConstantsType DEF TypeInv, TypeOK, Stages
<1>5. Past'
  <2>1. \A f \in DOMAIN files : f \in Nat /\ files[f].mtime \in Nat
    BY <1>1 DEF File, Clock
  <2>2. file[m] <= now
    BY <1>1, <1>2, <2>1 DEF TypeInv, Past
  <2> QED
    BY <1>1, <1>2, <2>2 DEF TypeInv, Past
<1>6. Cutoffs'
  BY <1>1, <1>2, ConstantsType DEF TypeInv, Cutoffs
<1>7. Dumping'
  <2> SUFFICES ASSUME NEW n \in Runs, pc'[n] = "dumping"
               PROVE  /\ file[n] \in DOMAIN files /\ now <= file[n] + TimeLimit
                      /\ file[n] <= files'[file[n]].mtime
    BY <1>2 DEF Dumping
  <2>1. pc[n] = "dumping"
    BY <1>1, <1>2
  <2>2. file[n] \in DOMAIN files /\ now <= file[n] + TimeLimit /\ file[n] <= files[file[n]].mtime
    BY <2>1 DEF TypeInv, Dumping
  <2>3. files[file[n]].mtime <= now /\ files[file[n]].mtime \in Nat /\ file[n] \in Nat
    BY <1>1, <2>2 DEF TypeInv, Past, File, Clock
  <2> QED
    BY <1>1, <1>2, <2>2, <2>3
<1>8. Aimed'
  <2> SUFFICES ASSUME NEW n \in Runs, pc'[n] = "removing"
               PROVE  /\ aim[n] + Retention < now
                      /\ aim[n] \in DOMAIN files => files'[aim[n]].mtime < cutoff'[n]
    BY <1>2 DEF Aimed, FinishDump
  <2>1. pc[n] = "removing" /\ n # m /\ cutoff'[n] = cutoff[n] /\ aim[n] \in Nat
    BY <1>1, <1>2 DEF TypeInv, TypeOK, Clock
  <2>2. /\ aim[n] + Retention < now
        /\ aim[n] \in DOMAIN files => files[aim[n]].mtime < cutoff[n]
    BY <2>1 DEF TypeInv, Aimed
  <2>3. pc[m] = "dumping" /\ now <= file[m] + TimeLimit
    BY FinishDumpFacts DEF TypeInv, Dumping
  <2>4. aim[n] # file[m]
    BY <1>1, <2>1, <2>2, <2>3, ConstantsType
  <2> QED
    BY <1>2, <2>1, <2>2, <2>4
<1> QED
  BY <1>4, <1>5, <1>6, <1>7, <1>8 DEF TypeInv

(* A run looks at a file, or removes one that is older than every dump in  *)
(* progress.                                                               *)
LEMMA InspectStep ==
  ASSUME TypeInv, NEW m \in Runs, NEW f \in todo[m], Inspect(m, f)
  PROVE  TypeInv'
<1>1. /\ UNCHANGED <<now, files, eta, tries, file, cutoff>> /\ pc[m] = "pruning"
      /\ todo' = [todo EXCEPT ![m] = @ \ {f}]
      /\ \/ /\ pc' = [pc EXCEPT ![m] = "pruning"] \/ pc' = [pc EXCEPT ![m] = "broken"]
            /\ UNCHANGED aim
         \/ /\ f \in DOMAIN files /\ files[f].mtime < cutoff[m]
            /\ pc' = [pc EXCEPT ![m] = "removing"] /\ aim' = [aim EXCEPT ![m] = f]
  BY DEF Inspect, Go, TooOld
<1>2. /\ pc \in [Runs -> Stages] /\ todo \in [Runs -> SUBSET Clock] /\ aim \in [Runs -> Clock]
      /\ files \in [DOMAIN files -> File] /\ cutoff \in [Runs -> Int] /\ now \in Nat
      /\ f \in Clock
  BY DEF TypeInv, TypeOK, Clock
<1>3. TypeOK'
  BY <1>1, <1>2 DEF TypeInv, TypeOK, Stages, Ended
<1>4. Dumping' /\ Past' /\ Cutoffs'
  BY <1>1, <1>2 DEF TypeInv, Dumping, Past, Cutoffs
<1>5. Aimed'
  <2> SUFFICES ASSUME NEW n \in Runs, pc'[n] = "removing"
               PROVE  /\ aim'[n] + Retention < now
                      /\ aim'[n] \in DOMAIN files => files[aim'[n]].mtime < cutoff[n]
    BY <1>1 DEF Aimed
  <2>1. CASE n # m \/ pc'[m] # "removing"
    BY <1>1, <1>2, <2>1 DEF TypeInv, Aimed
  <2>2. CASE n = m /\ pc'[m] = "removing"
    <3>1. aim'[n] = f /\ f \in DOMAIN files /\ files[f].mtime < cutoff[n]
      BY <1>1, <1>2, <2>2
    <3>2. /\ f <= files[f].mtime /\ cutoff[n] + Retention <= now
          /\ files[f].mtime \in Nat /\ f \in Nat
      BY <1>1, <1>2, <2>2, <3>1 DEF TypeInv, Past, Cutoffs, File, Clock
    <3> QED
      BY <1>2, <3>1, <3>2, ConstantsType
  <2> QED
    BY <2>1, <2>2
<1> QED
  BY <1>3, <1>4, <1>5 DEF TypeInv

LEMMA RemoveFacts ==
  ASSUME TypeInv, NEW m \in Runs, Remove(m)
  PROVE  /\ UNCHANGED <<now, eta, tries, file, cutoff, todo, aim>>
         /\ pc[m] = "removing" /\ pc' = [pc EXCEPT ![m] = "pruning"]
         /\ DOMAIN files' \subseteq DOMAIN files
         /\ files' = [g \in DOMAIN files' |-> files[g]]
         /\ \A g \in DOMAIN files \ DOMAIN files' :
              files[g].mtime < cutoff[m] /\ files[g].mtime + Retention < now
<1>1. /\ UNCHANGED <<now, eta, tries, file, cutoff, todo, aim>>
      /\ pc[m] = "removing" /\ pc' = [pc EXCEPT ![m] = "pruning"]
      /\ files' = [g \in DOMAIN files \ ({aim[m]} \ Stuck) |-> files[g]]
  BY DEF Remove, Go
<1>2. cutoff[m] + Retention <= now /\ cutoff[m] \in Int /\ now \in Nat
  BY <1>1 DEF TypeInv, TypeOK, Cutoffs, Clock
<1>3. \A g \in DOMAIN files : files[g].mtime \in Nat
  BY DEF TypeInv, TypeOK, File, Clock
<1>4. \A g \in DOMAIN files \ DOMAIN files' : g = aim[m] /\ files[g].mtime < cutoff[m]
  BY <1>1 DEF TypeInv, Aimed
<1> QED
  BY <1>1, <1>2, <1>3, <1>4, ConstantsType

LEMMA RemoveStep ==
  ASSUME TypeInv, NEW m \in Runs, Remove(m)
  PROVE  TypeInv'
<1>1. /\ UNCHANGED <<now, eta, tries, file, cutoff, todo, aim>>
      /\ pc[m] = "removing" /\ pc' = [pc EXCEPT ![m] = "pruning"]
      /\ DOMAIN files' \subseteq DOMAIN files
      /\ files' = [g \in DOMAIN files' |-> files[g]]
      /\ \A g \in DOMAIN files \ DOMAIN files' : files[g].mtime + Retention < now
  BY RemoveFacts
<1>2. /\ pc \in [Runs -> Stages] /\ file \in [Runs -> Clock] /\ now \in Nat
      /\ files \in [DOMAIN files -> File] /\ DOMAIN files \subseteq Clock
      /\ todo \in [Runs -> SUBSET Clock]
  BY DEF TypeInv, TypeOK, Clock
<1>3. \A g \in DOMAIN files' : files'[g] = files[g] /\ files[g] \in File
  BY <1>1, <1>2
<1>4. files' \in [DOMAIN files' -> File]
  BY <1>1, <1>3
<1>5. TypeOK'
  BY <1>1, <1>2, <1>4 DEF TypeInv, TypeOK, Stages, Ended
<1>6. Past' /\ Cutoffs' /\ Aimed'
  BY <1>1, <1>2, <1>3 DEF TypeInv, Past, Cutoffs, Aimed
<1>7. Dumping'
  <2> SUFFICES ASSUME NEW n \in Runs, pc'[n] = "dumping"
               PROVE  /\ file[n] \in DOMAIN files' /\ now <= file[n] + TimeLimit
                      /\ file[n] <= files'[file[n]].mtime
    BY <1>1 DEF Dumping
  <2>1. pc[n] = "dumping"
    BY <1>1, <1>2
  <2>2. file[n] \in DOMAIN files /\ now <= file[n] + TimeLimit /\ file[n] <= files[file[n]].mtime
    BY <2>1 DEF TypeInv, Dumping
  <2>3. files[file[n]].mtime \in Nat /\ file[n] \in Nat
    BY <1>2, <2>2 DEF File, Clock
  <2>4. ~(files[file[n]].mtime + Retention < now)
    BY <1>2, <2>2, <2>3, ConstantsType
  <2>5. file[n] \in DOMAIN files'
    BY <1>1, <2>2, <2>4
  <2> QED
    BY <1>3, <2>2, <2>5
<1> QED
  BY <1>5, <1>6, <1>7 DEF TypeInv

LEMMA TickStep ==
  ASSUME TypeInv, Tick
  PROVE  TypeInv'
<1>1. /\ now \in Nat /\ now' = now + 1 /\ now' \in Clock
      /\ UNCHANGED <<files, pc, eta, tries, file, cutoff, todo, aim>>
      /\ \A m \in Runs : pc[m] = "dumping" => now < file[m] + TimeLimit
  BY ConstantsType DEF Tick, TypeInv, TypeOK, Clock
<1>2. TypeOK'
  BY <1>1 DEF TypeInv, TypeOK
<1>3. Past'
  <2>1. \A f \in DOMAIN files : files[f].mtime \in Nat
    BY DEF TypeInv, TypeOK, File, Clock
  <2> QED
    BY <1>1, <2>1 DEF TypeInv, Past
<1>4. Cutoffs'
  BY <1>1, ConstantsType DEF TypeInv, TypeOK, Cutoffs
<1>5. Dumping'
  BY <1>1, ConstantsType DEF TypeInv, TypeOK, Dumping, Clock
<1>6. Aimed'
  BY <1>1, ConstantsType DEF TypeInv, TypeOK, Aimed, Clock
<1> QED
  BY <1>2, <1>3, <1>4, <1>5, <1>6 DEF TypeInv

LEMMA TypeStep == TypeInv /\ [Next]_vars => TypeInv'
<1> SUFFICES ASSUME TypeInv, [Next]_vars PROVE TypeInv'
  OBVIOUS
<1>1. ASSUME NEW m \in Runs, Send(m) PROVE TypeInv'
  <2>1. /\ pc' = [pc EXCEPT ![m] = "queued"]
        /\ UNCHANGED <<now, files, eta, tries, file, cutoff, todo, aim>>
    BY <1>1 DEF Send, Go
  <2>2. "queued" \in Stages \ {"dumping", "pruning", "removing"}
    BY DEF Stages
  <2>3. eta' \in [Runs -> Nat] /\ tries' \in [Runs -> 0..MaxRetries]
    BY <2>1 DEF TypeInv, TypeOK
  <2> QED
    BY <2>1, <2>2, <2>3, RunMoves
<1>2. ASSUME NEW m \in Runs, Die(m) PROVE TypeInv'
  <2>1. /\ pc' = [pc EXCEPT ![m] = "lost"]
        /\ UNCHANGED <<now, files, eta, tries, file, cutoff, todo, aim>>
    BY <1>2 DEF Die
  <2>2. "lost" \in Stages \ {"dumping", "pruning", "removing"}
    BY DEF Stages, Ended
  <2>3. eta' \in [Runs -> Nat] /\ tries' \in [Runs -> 0..MaxRetries]
    BY <2>1 DEF TypeInv, TypeOK
  <2> QED
    BY <2>1, <2>2, <2>3, RunMoves
<1>3. ASSUME NEW m \in Runs, Finish(m) PROVE TypeInv'
  <2>1. /\ pc' = [pc EXCEPT ![m] = "done"]
        /\ UNCHANGED <<now, files, eta, tries, file, cutoff, todo, aim>>
    BY <1>3 DEF Finish, Go
  <2>2. "done" \in Stages \ {"dumping", "pruning", "removing"}
    BY DEF Stages, Ended
  <2>3. eta' \in [Runs -> Nat] /\ tries' \in [Runs -> 0..MaxRetries]
    BY <2>1 DEF TypeInv, TypeOK
  <2> QED
    BY <2>1, <2>2, <2>3, RunMoves
<1>4. CASE UNCHANGED vars
  BY <1>4 DEF vars, TypeInv, TypeOK, Dumping, Past, Cutoffs, Aimed
<1> QED
  BY <1>1, <1>2, <1>3, <1>4, StartStep, FinishDumpStep, RetryStep, InspectStep, RemoveStep, TickStep
  DEF Next, Work, FailDump, TimeOut, Over

LEMMA TypeInvariant == Spec => []TypeInv
  BY TypeInit, TypeStep, PTL DEF Spec

(* Every reachable state of the backup is well typed; in particular no run *)
(* is repeated more than max_retries times.                                *)
THEOREM TypeCorrect == Spec => []TypeOK
<1>1. TypeInv => TypeOK
  BY DEF TypeInv
<1> QED
  BY <1>1, TypeInvariant, PTL

-----------------------------------------------------------------------------
(* A run that removes files has its own dump to show, or one as young: if  *)
(* that is removed, the run that removes it has a younger one.             *)

Good(f)   == files[f].whole \/ files[f].shared
Kept(m)   == \E f \in DOMAIN files : Good(f) /\ cutoff[m] + Retention <= files[f].mtime
Witnessed == \A m \in Runs : pc[m] \in {"pruning", "removing"} => Kept(m)

LEMMA WitnessInit == Init => Witnessed
  BY DEF Init, Witnessed

(* Files that only get younger and stay good.                              *)
LEMMA KeptStands ==
  ASSUME TypeInv, NEW m \in Runs, Kept(m), cutoff'[m] = cutoff[m],
         \A f \in DOMAIN files :
           /\ f \in DOMAIN files' /\ files'[f].mtime \in Nat
           /\ files[f].mtime <= files'[f].mtime /\ (Good(f) => Good(f)')
  PROVE  Kept(m)'
<1>1. PICK f \in DOMAIN files : Good(f) /\ cutoff[m] + Retention <= files[f].mtime
  BY DEF Kept
<1>2. cutoff[m] \in Int /\ files[f].mtime \in Nat
  BY DEF TypeInv, TypeOK, File, Clock
<1>3. cutoff'[m] + Retention <= files'[f].mtime
  BY <1>1, <1>2, ConstantsType
<1> QED
  BY <1>1, <1>3 DEF Kept

LEMMA WitnessStep == TypeInv /\ Witnessed /\ [Next]_vars => Witnessed'
<1> SUFFICES ASSUME TypeInv, Witnessed, [Next]_vars,
                    NEW m \in Runs, pc'[m] \in {"pruning", "removing"}
             PROVE  Kept(m)'
  BY DEF Witnessed
<1>0. /\ pc \in [Runs -> Stages] /\ cutoff \in [Runs -> Int] /\ now \in Nat
      /\ files \in [DOMAIN files -> File] /\ \A f \in DOMAIN files : files[f].mtime \in Nat
      /\ \A f \in DOMAIN files : files[f].mtime <= now
  BY DEF TypeInv, TypeOK, Past, File, Clock
<1>1. ASSUME NEW n \in Runs, StartDump(n) PROVE Kept(m)'
  <2> DEFINE entry == [whole |-> FALSE, shared |-> now \in DOMAIN files, mtime |-> now]
  <2>1. /\ pc' = [pc EXCEPT ![n] = "dumping"] /\ UNCHANGED cutoff
        /\ files' = With(files, now, entry)
    BY <1>1 DEF StartDump, Go
  <2>2. pc[m] \in {"pruning", "removing"}
    BY <1>0, <2>1
  <2>3. Kept(m)
    BY <2>2 DEF Witnessed
  <2>4. \A f \in DOMAIN files :
           /\ f \in DOMAIN files' /\ files'[f].mtime \in Nat
           /\ files[f].mtime <= files'[f].mtime /\ (Good(f) => Good(f)')
    <3> SUFFICES ASSUME NEW f \in DOMAIN files
                 PROVE  /\ f \in DOMAIN files' /\ files'[f].mtime \in Nat
                        /\ files[f].mtime <= files'[f].mtime /\ (Good(f) => Good(f)')
      OBVIOUS
    <3>1. f \in DOMAIN files' /\ files'[f] = IF f = now THEN entry ELSE files[f]
      BY <2>1 DEF With
    <3>2. CASE f = now
      <4>1. entry.mtime = now /\ entry.shared
        BY <3>2
      <4> HIDE DEF entry
      <4>2. files'[f] = entry
        BY <3>1, <3>2
      <4> QED
        BY <1>0, <3>1, <4>1, <4>2 DEF Good
    <3>3. CASE f # now
      <4> HIDE DEF entry
      <4> QED
        BY <1>0, <3>1, <3>3 DEF Good
    <3> QED
      BY <3>2, <3>3
  <2> QED
    BY <2>1, <2>3, <2>4, KeptStands
<1>2. ASSUME NEW n \in Runs, FinishDump(n) PROVE Kept(m)'
  <2>1. /\ pc' = [pc EXCEPT ![n] = "pruning"] /\ cutoff' = [cutoff EXCEPT ![n] = now - Retention]
        /\ file[n] \in DOMAIN files /\ DOMAIN files' = DOMAIN files
        /\ files'[file[n]].mtime = now
        /\ files'[file[n]].whole \/ files'[file[n]].shared
        /\ \A f \in DOMAIN files : f # file[n] => files'[f] = files[f]
    BY <1>2, FinishDumpFacts
  <2>2. CASE m = n
    <3>1. cutoff'[m] + Retention <= files'[file[n]].mtime
      BY <1>0, <2>1, <2>2, ConstantsType
    <3> QED
      BY <2>1, <3>1 DEF Kept, Good
  <2>3. CASE m # n
    <3>1. pc[m] \in {"pruning", "removing"} /\ cutoff'[m] = cutoff[m]
      BY <1>0, <2>1, <2>3
    <3>2. Kept(m)
      BY <3>1 DEF Witnessed
    <3>3. \A f \in DOMAIN files :
             /\ f \in DOMAIN files' /\ files'[f].mtime \in Nat
             /\ files[f].mtime <= files'[f].mtime /\ (Good(f) => Good(f)')
      BY <1>0, <2>1 DEF Good
    <3> QED
      BY <3>1, <3>2, <3>3, KeptStands
  <2> QED
    BY <2>2, <2>3
<1>3. ASSUME NEW n \in Runs, Remove(n) PROVE Kept(m)'
  <2>1. /\ UNCHANGED cutoff /\ pc[n] = "removing" /\ pc' = [pc EXCEPT ![n] = "pruning"]
        /\ files' = [g \in DOMAIN files' |-> files[g]]
        /\ \A g \in DOMAIN files \ DOMAIN files' : files[g].mtime < cutoff[n]
    BY <1>3, RemoveFacts
  <2>2. pc[m] \in {"pruning", "removing"}
    BY <1>0, <2>1
  <2>3. PICK g \in DOMAIN files : Good(g) /\ cutoff[m] + Retention <= files[g].mtime
    BY <2>2 DEF Witnessed, Kept
  <2>4. PICK h \in DOMAIN files : Good(h) /\ cutoff[n] + Retention <= files[h].mtime
    BY <2>1 DEF Witnessed, Kept
  <2>5. h \in DOMAIN files'
    BY <1>0, <2>1, <2>4, ConstantsType
  <2>6. CASE g \in DOMAIN files'
    <3>1. files'[g] = files[g]
      BY <2>1, <2>6
    <3> QED
      BY <2>1, <2>3, <2>6, <3>1 DEF Kept, Good
  <2>7. CASE g \notin DOMAIN files'
    <3>1. files'[h] = files[h]
      BY <2>1, <2>5
    <3>2. cutoff[m] + Retention <= files[h].mtime
      BY <1>0, <2>1, <2>3, <2>4, <2>7, ConstantsType
    <3> QED
      BY <2>1, <2>4, <2>5, <3>1, <3>2 DEF Kept, Good
  <2> QED
    BY <2>6, <2>7
<1>4. ASSUME UNCHANGED <<files, cutoff>>, pc[m] \in {"pruning", "removing"} PROVE Kept(m)'
  BY <1>4 DEF Witnessed, Kept, Good
<1>5. ASSUME NEW n \in Runs, Send(n) \/ Retry(n) \/ Finish(n) \/ Die(n) PROVE Kept(m)'
  <2>1. UNCHANGED <<files, cutoff>> /\ pc[m] \in {"pruning", "removing"}
    BY <1>0, <1>5 DEF Send, Retry, Finish, Die, Go
  <2> QED
    BY <2>1, <1>4
<1>6. ASSUME NEW n \in Runs, NEW f \in todo[n], Inspect(n, f) PROVE Kept(m)'
  <2>1. UNCHANGED <<files, cutoff>> /\ pc[m] \in {"pruning", "removing"}
    BY <1>0, <1>6 DEF Inspect, Go
  <2> QED
    BY <2>1, <1>4
<1>7. ASSUME Tick \/ UNCHANGED vars PROVE Kept(m)'
  BY <1>4, <1>7 DEF Tick, vars
<1> QED
  BY <1>1, <1>2, <1>3, <1>5, <1>6, <1>7 DEF Next, Work, FailDump, TimeOut, Over

(* Once a run got through its dump there is one to restore from for good,  *)
(* for every retention and however many runs fail, are killed or remove    *)
(* files afterwards; only a file two runs wrote at once may be all there   *)
(* is.                                                                     *)
THEOREM AlwaysRestorable == Spec => Restorable
<1>1. ASSUME TypeInv, Witnessed, [Next]_vars
      PROVE  [Dumps \/ (\E m \in Runs : pc[m] = "dumping" /\ pc'[m] = "pruning")
                => Dumps']_vars
  <2> SUFFICES ASSUME Next,
                      Dumps \/ \E m \in Runs : pc[m] = "dumping" /\ pc'[m] = "pruning"
               PROVE  Dumps'
    BY <1>1
  <2>0. pc \in [Runs -> Stages]
    BY <1>1 DEF TypeInv, TypeOK
  <2>1. ASSUME NEW n \in Runs, FinishDump(n) PROVE Dumps'
    BY <1>1, <2>1, FinishDumpFacts DEF Dumps
  <2>2. ASSUME NEW n \in Runs, StartDump(n) PROVE Dumps'
    <3>1. Dumps
      BY <2>0, <2>2 DEF StartDump, Go
    <3>2. PICK f \in DOMAIN files : files[f].whole \/ files[f].shared
      BY <3>1 DEF Dumps
    <3> DEFINE entry == [whole |-> FALSE, shared |-> now \in DOMAIN files, mtime |-> now]
    <3>3. f \in DOMAIN files' /\ files'[f] = IF f = now THEN entry ELSE files[f]
      BY <2>2 DEF StartDump, With
    <3>4. f = now => entry.shared
      OBVIOUS
    <3> HIDE DEF entry
    <3> QED
      BY <3>2, <3>3, <3>4 DEF Dumps
  <2>3. ASSUME NEW n \in Runs, Remove(n) PROVE Dumps'
    <3>1. PICK h \in DOMAIN files : Good(h) /\ cutoff[n] + Retention <= files[h].mtime
      BY <1>1, <2>3, RemoveFacts DEF Witnessed, Kept
    <3>2. cutoff[n] \in Int /\ files[h].mtime \in Nat
      BY <1>1 DEF TypeInv, TypeOK, File, Clock
    <3>3. h \in DOMAIN files' /\ files'[h] = files[h]
      BY <1>1, <2>3, <3>1, <3>2, RemoveFacts, ConstantsType
    <3> QED
      BY <3>1, <3>3 DEF Dumps, Good
  <2>4. ASSUME UNCHANGED files, \A m \in Runs : pc[m] = "dumping" => pc'[m] # "pruning"
        PROVE  Dumps'
    BY <2>4 DEF Dumps
  <2>5. ASSUME NEW n \in Runs, Send(n) \/ Retry(n) \/ Finish(n) \/ Die(n) PROVE Dumps'
    BY <2>0, <2>4, <2>5 DEF Send, Retry, Finish, Die, Go
  <2>6. ASSUME NEW n \in Runs, NEW f \in todo[n], Inspect(n, f) PROVE Dumps'
    BY <2>0, <2>4, <2>6 DEF Inspect, Go
  <2>7. ASSUME Tick \/ UNCHANGED vars PROVE Dumps'
    BY <2>4, <2>7 DEF Tick, vars
  <2> QED
    BY <2>1, <2>2, <2>3, <2>5, <2>6, <2>7 DEF Next, Work, FailDump, TimeOut, Over
<1> QED
  BY <1>1, TypeInvariant, WitnessInit, WitnessStep, PTL DEF Spec, Restorable

(* No file is removed before its retention is over.                        *)
THEOREM NothingTooSoon == Spec => KeptForRetention
<1>1. ASSUME TypeInv, [Next]_vars
      PROVE  [\A f \in DOMAIN files :
                f \notin DOMAIN files' => files[f].mtime + Retention < now]_vars
  <2> SUFFICES ASSUME Next, NEW f \in DOMAIN files, f \notin DOMAIN files'
               PROVE  files[f].mtime + Retention < now
    BY <1>1
  <2>1. ASSUME NEW m \in Runs, StartDump(m) PROVE FALSE
    BY <2>1 DEF StartDump, With
  <2>2. ASSUME NEW m \in Runs, FinishDump(m) PROVE FALSE
    BY <1>1, <2>2, FinishDumpFacts
  <2>3. ASSUME NEW m \in Runs, Remove(m) PROVE files[f].mtime + Retention < now
    BY <1>1, <2>3, RemoveFacts
  <2>4. ASSUME UNCHANGED files PROVE FALSE
    BY <2>4
  <2> QED
    BY <2>1, <2>2, <2>3, <2>4
    DEF Next, Work, FailDump, TimeOut, Over, Send, Retry, Inspect, Finish, Die, Tick, vars
<1> QED
  BY <1>1, TypeInvariant, PTL DEF Spec, KeptForRetention

-----------------------------------------------------------------------------
(* A file a run has looked at is not too old for it, or cannot be removed, *)
(* or is the one it is about to remove; nor is one too old that was        *)
(* written since.                                                          *)

Looked == \A m \in Runs : pc[m] \in {"pruning", "removing"} =>
            \A f \in DOMAIN files \ Stuck :
              \/ f \in todo[m]
              \/ ~TooOld(m, f)
              \/ pc[m] = "removing" /\ f = aim[m]

LEMMA LookedInit == Init => Looked
  BY DEF Init, Looked

LEMMA LookedStep == TypeInv /\ Looked /\ [Next]_vars => Looked'
<1> DEFINE Fine(m, f) == \/ f \in todo[m]
                         \/ ~(files[f].mtime < cutoff[m])
                         \/ pc[m] = "removing" /\ f = aim[m]
<1> SUFFICES ASSUME TypeInv, Looked, [Next]_vars,
                    NEW m \in Runs, pc'[m] \in {"pruning", "removing"},
                    NEW f \in DOMAIN files' \ Stuck
             PROVE  Fine(m, f)'
  BY DEF Looked, TooOld
<1>0. /\ pc \in [Runs -> Stages] /\ cutoff \in [Runs -> Int] /\ now \in Nat
      /\ todo \in [Runs -> SUBSET Clock] /\ aim \in [Runs -> Clock]
      /\ pc[m] \in {"pruning", "removing"} => cutoff[m] + Retention <= now
      /\ pc[m] \in {"pruning", "removing"} /\ f \in DOMAIN files => Fine(m, f)
  BY DEF TypeInv, TypeOK, Cutoffs, Clock, Looked, TooOld
<1>1. ASSUME NEW n \in Runs, StartDump(n) PROVE Fine(m, f)'
  <2>1. /\ pc' = [pc EXCEPT ![n] = "dumping"] /\ UNCHANGED <<cutoff, todo, aim>>
        /\ f # now => f \in DOMAIN files /\ files'[f] = files[f]
        /\ f = now => files'[f].mtime = now
    BY <1>1 DEF StartDump, Go, With
  <2>2. pc[m] \in {"pruning", "removing"} /\ pc'[m] = pc[m]
    BY <1>0, <2>1
  <2> QED
    BY <1>0, <2>1, <2>2, ConstantsType
<1>2. ASSUME NEW n \in Runs, FinishDump(n) PROVE Fine(m, f)'
  <2>1. /\ pc' = [pc EXCEPT ![n] = "pruning"] /\ cutoff' = [cutoff EXCEPT ![n] = now - Retention]
        /\ todo' = [todo EXCEPT ![n] = DOMAIN files]
        /\ DOMAIN files' = DOMAIN files /\ files'[file[n]].mtime = now
        /\ \A g \in DOMAIN files : g # file[n] => files'[g] = files[g]
        /\ UNCHANGED aim
    BY <1>2, FinishDumpFacts DEF FinishDump
  <2>2. CASE m = n
    BY <1>0, <2>1, <2>2
  <2>3. CASE m # n
    BY <1>0, <2>1, <2>3, ConstantsType
  <2> QED
    BY <2>2, <2>3
<1>3. ASSUME NEW n \in Runs, NEW g \in todo[n], Inspect(n, g) PROVE Fine(m, f)'
  <2>1. /\ UNCHANGED <<files, cutoff>> /\ todo' = [todo EXCEPT ![n] = @ \ {g}]
        /\ pc[n] = "pruning"
        /\ \/ pc' = [pc EXCEPT ![n] = "broken"] /\ UNCHANGED aim
           \/ /\ pc' = [pc EXCEPT ![n] = "pruning"] /\ UNCHANGED aim
              /\ ~(files[g].mtime < cutoff[n])
           \/ pc' = [pc EXCEPT ![n] = "removing"] /\ aim' = [aim EXCEPT ![n] = g]
    BY <1>3 DEF Inspect, Go, TooOld
  <2>2. CASE m = n
    BY <1>0, <2>1, <2>2
  <2>3. CASE m # n
    BY <1>0, <2>1, <2>3
  <2> QED
    BY <2>2, <2>3
<1>4. ASSUME NEW n \in Runs, Remove(n) PROVE Fine(m, f)'
  <2>1. /\ UNCHANGED <<cutoff, todo, aim>> /\ pc[n] = "removing"
        /\ pc' = [pc EXCEPT ![n] = "pruning"]
        /\ files' = [h \in DOMAIN files \ ({aim[n]} \ Stuck) |-> files[h]]
    BY <1>4 DEF Remove, Go
  <2>2. f \in DOMAIN files /\ files'[f] = files[f] /\ f # aim[n]
    BY <2>1
  <2> QED
    BY <1>0, <2>1, <2>2
<1>5. ASSUME NEW n \in Runs, Send(n) \/ Retry(n) \/ Finish(n) \/ Die(n) PROVE Fine(m, f)'
  <2>1. /\ UNCHANGED <<files, cutoff, todo, aim>> /\ pc'[m] = pc[m]
        /\ pc[m] \in {"pruning", "removing"}
    BY <1>0, <1>5 DEF Send, Retry, Finish, Die, Go
  <2> QED
    BY <1>0, <2>1
<1>6. ASSUME Tick \/ UNCHANGED vars PROVE Fine(m, f)'
  BY <1>0, <1>6 DEF Tick, vars
<1> QED
  BY <1>1, <1>2, <1>3, <1>4, <1>5, <1>6 DEF Next, Work, FailDump, TimeOut, Over

(* A run that is done has left nothing that was too old when its dump was  *)
(* made, for any number of runs that write and remove files meanwhile.     *)
THEOREM NothingTooOldLeft == Spec => OldOnesGone
<1>1. ASSUME TypeInv, Looked, [Next]_vars
      PROVE  [\A m \in Runs :
                pc[m] = "pruning" /\ pc'[m] = "done"
                  => \A f \in DOMAIN files \ Stuck : ~TooOld(m, f)]_vars
  <2> SUFFICES ASSUME Next, NEW m \in Runs, pc[m] = "pruning", pc'[m] = "done",
                      NEW f \in DOMAIN files \ Stuck
               PROVE  ~TooOld(m, f)
    BY <1>1
  <2>1. pc \in [Runs -> Stages]
    BY <1>1 DEF TypeInv, TypeOK
  <2>2. todo[m] = {}
    BY <2>1 DEF Next, Work, FailDump, TimeOut, Over, Send, StartDump, FinishDump, Retry, Inspect,
       Remove, Finish, Die, Tick, Go, vars
  <2> QED
    BY <1>1, <2>2 DEF Looked
<1> QED
  BY <1>1, TypeInvariant, LookedInit, LookedStep, PTL DEF Spec, OldOnesGone
=============================================================================
