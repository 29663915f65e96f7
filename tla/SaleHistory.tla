---------------------------- MODULE SaleHistory ----------------------------
(***************************************************************************)
(* SaleLifecycle with history variables, which no action reads: what a     *)
(* creation found on record when it looked for overlapping sales, and how  *)
(* reads and removals of a counter followed each other.  They say when two *)
(* sales of a product may overlap, and when the units of a sale may come   *)
(* back to its product twice.                                              *)
(***************************************************************************)
EXTENDS SaleLifecycle

VARIABLES
  found,    \* the sales on record when a creation passed its check
  cleared,  \* the sales whose counter a task or a DELETE has removed
  late,     \* those of them to which a refused purchase gave units after that
  raced     \* the deliveries that had read the counter, but not removed it,
            \* when a delivery read it too

history == <<found, cleared, late, raced>>

Reads(d)     == at[d] = "waiting" /\ at'[d] = "read"
Removes(x)   == at[x] \in {"read", "loaded"} /\ at'[x] = "dropped"
GivesBack(r) == pc[r] = "short" /\ pc'[r] = "refused"
Reading(s)   == {d \in DOMAIN mail : mail[d].sale = s /\ at[d] = "read"}
Cleared      == {mail[d].sale : d \in {e \in DOMAIN mail : Removes(e)}}
                  \cup {visit[v].sale : v \in {w \in Visits : Removes(w)}}

HistoryInit ==
  /\ SaleInit
  /\ found = [s \in Sales |-> {}]
  /\ cleared = {} /\ late = {}
  /\ raced = [d \in Deliveries |-> {}]

HistoryNext ==
  /\ SaleNext
  /\ found' = [s \in Sales |-> IF at[s] = "priced" /\ at'[s] = "clear"
                               THEN {t \in Sales : sale[t].live} ELSE found[s]]
  /\ cleared' = cleared \cup Cleared
  /\ late' = late \cup (cleared \cap {ask[r].sale : r \in {q \in Buys : GivesBack(q)}})
  /\ raced' = [d \in Deliveries |-> IF Reads(d) THEN Reading(mail[d].sale)
                                    ELSE {e \in raced[d] : ~Reads(e)}]

HistorySpec == HistoryInit /\ [][HistoryNext]_<<all, history>>

-----------------------------------------------------------------------------
(* Two sales of a product whose windows meet, and a sale whose window a    *)
(* PATCH has set.                                                          *)
Meet(s, t) == /\ sale[s].live /\ sale[t].live /\ ProductOf[s] = ProductOf[t]
              /\ sale[s].opens < sale[t].closes /\ sale[t].opens < sale[s].closes
Moved(s) == \E v \in Visits : /\ visit[v].sale = s /\ at[v] = "done"
                              /\ DOMAIN visit[v].change \cap {"opens", "closes"} # {}

(* Two sales of a product are on at a time only if their creations ran at  *)
(* once, so that neither found the other on record, or if a PATCH moved    *)
(* the window of one: no creation that comes later is let through,         *)
(* whatever its window, and nothing checks a PATCH.                        *)
OverlapNeedsRace ==
  \A s, t \in Sales :
    s # t /\ Meet(s, t) /\ ~Moved(s) /\ ~Moved(t) => s \notin found[t] /\ t \notin found[s]

(* Two tasks of one sale that both gave units back, and the two ways to    *)
(* come to that: one read the counter before the other had removed it, or  *)
(* a purchase in flight filled the counter again after it was removed.     *)
GivenTwice(d, e) == /\ d # e /\ mail[d].sale = mail[e].sale
                    /\ seen[d].count > 0 /\ seen[e].count > 0
Explained(d, e) == d \in raced[e] \/ e \in raced[d] \/ mail[d].sale \in late

(* What the tasks give back: the stock of a product is a value it was set  *)
(* to and the units of some of the tasks that are done, each once; several *)
(* tasks of one sale, sent for its old and new end, retried or delivered   *)
(* again, give nothing back twice but by the race of GET and DEL or after  *)
(* a purchase that was compensated late.                                   *)
ShelfAccounts ==
  \A p \in Products :
    \E n \in {Stocked[p]} \cup Restocks, D \in SUBSET GivenBack(p) :
      /\ shelf[p] = n + Returned(D)
      /\ \A d, e \in D : GivenTwice(d, e) => Explained(d, e)
=============================================================================
