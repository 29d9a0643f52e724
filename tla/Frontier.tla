------------------------------ MODULE Frontier ------------------------------
(***************************************************************************)
(* What a crawl promises about each address, whatever the workers, queues  *)
(* and counters behind it do: an address is found at most once and within  *)
(* the budget, tried by one task at a time and so often at most, and       *)
(* settled once; the crawl ends when nothing is pending, unless it was     *)
(* interrupted.  Crawl implements it.                                      *)
(***************************************************************************)
EXTENDS Integers, FiniteSets

CONSTANTS
    Addrs,
    Budget,       \* addresses the crawl may know
    MaxAttempts,  \* tries of one address
    Limit,        \* tries in all, or NoLimit
    NoLimit,
    Reasons,
    None

VARIABLES
    status,    \* of each address
    verdict,   \* of each settled address, with the reason
    tries,     \* of each address
    started,   \* tries in all
    limited,   \* somebody was refused a try
    cut,       \* the crawl was interrupted
    over

vars == <<status, verdict, tries, started, limited, cut, over>>

Failures == {"HandshakeFailed", "Unreachable"}
Verdict == [outcome : Failures \cup {"Reachable", "BudgetDiscarded"}, reason : Reasons \cup {None}]

Known == {a \in Addrs : status[a] # "unknown"}
Open == {a \in Addrs : status[a] \in {"pending", "taken"}}

Init ==
    /\ status = [a \in Addrs |-> "unknown"]
    /\ verdict = [a \in Addrs |-> None]
    /\ tries = [a \in Addrs |-> 0]
    /\ started = 0
    /\ limited = FALSE /\ cut = FALSE /\ over = FALSE

Find(a) ==
    /\ status[a] = "unknown"
    /\ Cardinality(Known) < Budget
    /\ \E s \in {"stale", "pending"} : status' = [status EXCEPT ![a] = s]
    /\ UNCHANGED <<verdict, tries, started, limited, cut>>

(* A fresher claim about an address shelved as stale. *)
Revive(a) ==
    /\ status[a] = "stale"
    /\ status' = [status EXCEPT ![a] = "pending"]
    /\ UNCHANGED <<verdict, tries, started, limited, cut>>

Take(a) ==
    /\ status[a] = "pending"
    /\ Limit # NoLimit => started < Limit
    /\ status' = [status EXCEPT ![a] = "taken"]
    /\ tries' = [tries EXCEPT ![a] = @ + 1]
    /\ started' = started + 1
    /\ UNCHANGED <<verdict, limited, cut>>

Return(a) ==
    /\ status[a] = "taken"
    /\ tries[a] < MaxAttempts
    /\ status' = [status EXCEPT ![a] = "pending"]
    /\ UNCHANGED <<verdict, tries, started, limited, cut>>

Settled(a, v) ==
    /\ status' = [status EXCEPT ![a] = "settled"]
    /\ verdict' = [verdict EXCEPT ![a] = v]
    /\ UNCHANGED <<tries, started, limited, cut>>

(* The last try decides: nobody is unreachable before it. *)
Settle(a) ==
    /\ status[a] = "taken"
    /\ \E v \in Verdict :
          /\ v.outcome # "BudgetDiscarded"
          /\ v.outcome = "Unreachable" => tries[a] >= MaxAttempts
          /\ Settled(a, v)

(* At the limit, or interrupted, a pending address may be given up, and    *)
(* one that waits for its next try keeps the verdict of the last.          *)
GiveUp(a) ==
    /\ status[a] = "pending"
    /\ limited \/ cut
    /\ \E v \in Verdict :
          /\ v.outcome = "BudgetDiscarded" \/ (v.outcome \in Failures /\ tries[a] > 0)
          /\ Settled(a, v)

Refuse ==
    /\ Limit # NoLimit /\ started >= Limit
    /\ limited' = TRUE
    /\ UNCHANGED <<status, verdict, tries, started, cut>>

Interrupt ==
    /\ cut' = TRUE
    /\ UNCHANGED <<status, verdict, tries, started, limited>>

End ==
    /\ cut \/ Open = {}
    /\ over' = TRUE
    /\ UNCHANGED <<status, verdict, tries, started, limited, cut>>

Next ==
    /\ ~over
    /\ \/ /\ UNCHANGED over
          /\ \/ \E a \in Addrs : \/ Find(a) \/ Revive(a) \/ Take(a) \/ Return(a)
                                 \/ Settle(a) \/ GiveUp(a)
             \/ Refuse
             \/ Interrupt
       \/ End

Spec == Init /\ [][Next]_vars
=============================================================================
