------------------------------ MODULE Backup ------------------------------
(***************************************************************************)
(* The daily backup: celery beat sends one message a day, a worker runs    *)
(* pg_dump into a file named after the second it started in and then       *)
(* removes the files that are too old.  Several workers may be at it: the  *)
(* messages of days on which no worker ran are all taken at once.          *)
(***************************************************************************)
EXTENDS Integers

CONSTANTS
  Day,        \* instants in a day; an instant stands for a second
  LastDay,    \* bound: the last day on which beat sends a message
  Retention,  \* BACKUP_RETENTION_DAYS, in instants
  TimeLimit,  \* timeout of the subprocess
  RetryDelay, \* default_retry_delay
  MaxRetries, \* max_retries
  Stuck,      \* names of files that cannot be removed
  MaxClock    \* bound: the last instant of the clock

Runs  == 1..LastDay  \* a run is known by the day of its message
Clock == 0..MaxClock
LastStart == MaxClock - TimeLimit  \* bound: the last instant a dump starts at

ASSUME BackupAssumption ==
  /\ Day \in Nat \ {0}
  /\ LastDay \in Nat
  /\ TimeLimit \in Nat \ {0}
  /\ RetryDelay \in Nat \ {0}
  /\ MaxRetries \in Nat
  /\ Stuck \subseteq Clock
  /\ MaxClock \in Nat

(* Retention is in days, longer than pg_dump may run.  With none, or less, *)
(* a run would remove the dump it has just made.                           *)
ASSUME SomeRetention == Retention \in Nat /\ TimeLimit <= Retention

VARIABLES
  now,
  files,   \* what is in BACKUP_DIR, by name
  pc,      \* where each run is
  eta,     \* the instant it may start at
  tries,   \* retries so far
  file,    \* the name it dumps to, which is the instant it started
  cutoff,  \* what it takes for too old
  todo,    \* the files of its glob it has not looked at yet
  aim      \* the file it found too old and is about to remove

vars == <<now, files, pc, eta, tries, file, cutoff, todo, aim>>

-----------------------------------------------------------------------------
Ended  == {"done", "broken", "lost"}
Stages == {"unsent", "queued", "dumping", "pruning", "removing"} \cup Ended

(* whole: pg_dump wrote it to its end.  shared: it was opened twice.       *)
File == [whole : BOOLEAN, shared : BOOLEAN, mtime : Clock]

With(f, x, v) == [y \in DOMAIN f \cup {x} |-> IF y = x THEN v ELSE f[y]]
Go(m, from, to) == pc[m] = from /\ pc' = [pc EXCEPT ![m] = to]

Init ==
  /\ now = 0
  /\ files = [f \in {} |-> 0]
  /\ pc = [m \in Runs |-> "unsent"]
  /\ eta = [m \in Runs |-> 0]
  /\ tries = [m \in Runs |-> 0]
  /\ file = [m \in Runs |-> 0]
  /\ cutoff = [m \in Runs |-> 0]
  /\ todo = [m \in Runs |-> {}]
  /\ aim = [m \in Runs |-> 0]

(* Beat sends the message of a day on that day, or never if it is down.    *)
Send(m) ==
  /\ now \div Day = m
  /\ Go(m, "unsent", "queued")
  /\ UNCHANGED <<now, files, eta, tries, file, cutoff, todo, aim>>

(* pg_dump opens its file first, and truncates what is there.              *)
StartDump(m) ==
  /\ eta[m] <= now /\ now <= LastStart
  /\ Go(m, "queued", "dumping")
  /\ file' = [file EXCEPT ![m] = now]
  /\ files' = With(files, now,
                [whole |-> FALSE, shared |-> now \in DOMAIN files, mtime |-> now])
  /\ UNCHANGED <<now, eta, tries, cutoff, todo, aim>>

(* Exit code 0.  The cutoff is taken and the directory listed.  What two   *)
(* pg_dumps wrote into one file may be a dump or not.                      *)
FinishDump(m) ==
  LET f == files[file[m]]
  IN /\ Go(m, "dumping", "pruning")
     /\ \E w \in IF f.shared THEN BOOLEAN ELSE {TRUE} :
          files' = [files EXCEPT ![file[m]] = [f EXCEPT !.whole = w, !.mtime = now]]
     /\ cutoff' = [cutoff EXCEPT ![m] = now - Retention]
     /\ todo' = [todo EXCEPT ![m] = DOMAIN files]
     /\ UNCHANGED <<now, eta, tries, file, aim>>

(* self.retry: the message again, later, or the exception at last.  The    *)
(* file stays as it is.                                                    *)
Retry(m) ==
  /\ \/ /\ tries[m] < MaxRetries
        /\ Go(m, "dumping", "queued")
        /\ eta' = [eta EXCEPT ![m] = now + RetryDelay]
        /\ tries' = [tries EXCEPT ![m] = @ + 1]
     \/ /\ tries[m] >= MaxRetries
        /\ Go(m, "dumping", "broken")
        /\ UNCHANGED <<eta, tries>>
  /\ UNCHANGED <<now, files, file, cutoff, todo, aim>>

(* Another exit code. *)
FailDump(m) == Retry(m)

(* Mutant: pg_dump is waited for. *)
TimeOut_Never(m) == now > file[m] + TimeLimit /\ Retry(m)

(* TimeoutExpired: pg_dump is killed when its time is over. *)
TimeOut(m) == now >= file[m] + TimeLimit /\ Retry(m)

(* Mutants: older than the dump just made; at the very limit. *)
TooOld_Reversed(m, f) == files[f].mtime > cutoff[m]
TooOld_Limit(m, f) == files[f].mtime <= cutoff[m]

TooOld(m, f) == files[f].mtime < cutoff[m]

(* The next file of the glob: its time is read.  One that is gone by then  *)
(* has no time, which breaks the run.                                      *)
Inspect(m, f) ==
  /\ f \in todo[m]
  /\ todo' = [todo EXCEPT ![m] = @ \ {f}]
  /\ \/ f \in DOMAIN files /\ ~TooOld(m, f) /\ Go(m, "pruning", "pruning") /\ UNCHANGED aim
     \/ /\ f \in DOMAIN files /\ TooOld(m, f)
        /\ Go(m, "pruning", "removing")
        /\ aim' = [aim EXCEPT ![m] = f]
     \/ f \notin DOMAIN files /\ Go(m, "pruning", "broken") /\ UNCHANGED aim
  /\ UNCHANGED <<now, files, eta, tries, file, cutoff>>

(* Mutant: a file that cannot be removed ends the loop. *)
Remove_Stops(m) ==
  /\ Go(m, "removing", "pruning")
  /\ files' = [g \in DOMAIN files \ ({aim[m]} \ Stuck) |-> files[g]]
  /\ todo' = IF aim[m] \in Stuck THEN [todo EXCEPT ![m] = {}] ELSE todo
  /\ UNCHANGED <<now, eta, tries, file, cutoff, aim>>

(* os.remove: one that fails, or finds another run was faster, is logged   *)
(* and no more.                                                            *)
Remove(m) ==
  /\ Go(m, "removing", "pruning")
  /\ files' = [g \in DOMAIN files \ ({aim[m]} \ Stuck) |-> files[g]]
  /\ UNCHANGED <<now, eta, tries, file, cutoff, todo, aim>>

Finish(m) ==
  /\ todo[m] = {}
  /\ Go(m, "pruning", "done")
  /\ UNCHANGED <<now, files, eta, tries, file, cutoff, todo, aim>>

(* The worker dies, or pg_dump cannot be run: there is no retry.           *)
Die(m) ==
  /\ pc[m] \in {"dumping", "pruning", "removing"}
  /\ pc' = [pc EXCEPT ![m] = "lost"]
  /\ UNCHANGED <<now, files, eta, tries, file, cutoff, todo, aim>>

(* No dump outlives its timeout.                                           *)
Tick ==
  /\ now < MaxClock
  /\ \A m \in Runs : pc[m] = "dumping" => now < file[m] + TimeLimit
  /\ now' = now + 1
  /\ UNCHANGED <<files, pc, eta, tries, file, cutoff, todo, aim>>

(* A run that is left queued when the clock reaches its bound.             *)
Beyond(m) == pc[m] = "queued" /\ (now > LastStart \/ eta[m] > LastStart)

Over == /\ now = MaxClock
        /\ \A m \in Runs : pc[m] \in Ended \cup {"unsent"} \/ Beyond(m)
        /\ UNCHANGED vars

Work(m) == \/ StartDump(m) \/ TimeOut(m) \/ Remove(m) \/ Finish(m)
           \/ \E f \in todo[m] : Inspect(m, f)

Next ==
  \/ \E m \in Runs : Send(m) \/ Work(m) \/ FinishDump(m) \/ FailDump(m) \/ Die(m)
  \/ Tick
  \/ Over

Spec == Init /\ [][Next]_vars

(* Workers consume their queue and time passes.  Nothing is assumed of     *)
(* pg_dump, which may hang.                                                *)
FairSpec == Spec /\ WF_vars(Tick) /\ \A m \in Runs : WF_vars(Work(m))

-----------------------------------------------------------------------------
TypeOK ==
  /\ now \in Clock
  /\ DOMAIN files \subseteq Clock /\ files \in [DOMAIN files -> File]
  /\ pc \in [Runs -> Stages]
  /\ eta \in [Runs -> Nat]
  /\ tries \in [Runs -> 0..MaxRetries]
  /\ file \in [Runs -> Clock]
  /\ cutoff \in [Runs -> Int]
  /\ todo \in [Runs -> SUBSET Clock]
  /\ aim \in [Runs -> Clock]

(* Once a run got through its dump there is a dump to restore from, ever   *)
(* after: whatever fails later and however many runs remove files at a     *)
(* time, with cutoffs of different age, what a run removes is older than   *)
(* what it has just made.  Only two runs that start in the same second,    *)
(* and write to the same file, can break this.                             *)
Dumps == \E f \in DOMAIN files : files[f].whole \/ files[f].shared
Restorable ==
  [][Dumps \/ (\E m \in Runs : pc[m] = "dumping" /\ pc'[m] = "pruning") => Dumps']_vars

(* No file goes before its time, also when a slow run removes files with a *)
(* cutoff it took long ago.                                                *)
KeptForRetention ==
  [][\A f \in DOMAIN files : f \notin DOMAIN files' => files[f].mtime + Retention < now]_vars

(* When a run is done no file is left that was too old when it began to    *)
(* remove them, whatever other runs do meanwhile, but those that cannot be *)
(* removed.                                                                *)
OldOnesGone ==
  [][\A m \in Runs :
       pc[m] = "pruning" /\ pc'[m] = "done"
         => \A f \in DOMAIN files \ Stuck : ~TooOld(m, f)]_vars

(* Every run that was taken up ends, also when pg_dump hangs every time,   *)
(* unless its retry is due after the bound of the clock.                   *)
Ends ==
  \A m \in Runs : pc[m] = "dumping" ~> pc[m] \in Ended \/ Beyond(m)
=============================================================================
