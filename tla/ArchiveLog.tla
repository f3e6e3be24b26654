----------------------------- MODULE ArchiveLog -----------------------------
(***************************************************************************)
(* What the security event archive promises its callers: events stay in    *)
(* the order in which they were appended and keep their numbers, and only  *)
(* the oldest are given up, when each of them is older than the retention. *)
(***************************************************************************)
EXTENDS Integers, Sequences

CONSTANTS RetentionDays,  \* how many whole days an event is kept
          Events          \* the events there are to append

VARIABLES day,      \* the day by the clock
          dropped,  \* how many events retention has taken off the front
          log       \* the events kept, as records of an event and its day

vars == <<day, dropped, log>>

Init == /\ day \in Nat
        /\ dropped = 0
        /\ log = << >>

NextDay == /\ day' = day + 1
           /\ UNCHANGED <<dropped, log>>

\* The event is appended with the day it is filed under, never an earlier
\* one than that of the event before it.
Put(event, on) ==
  /\ \A i \in DOMAIN log : log[i].event # event /\ log[i].day <= on
  /\ log' = Append(log, [event |-> event, day |-> on])
  /\ UNCHANGED <<day, dropped>>

Drop(n) ==
  /\ \A i \in 1..n : log[i].day + RetentionDays < day
  /\ dropped' = dropped + n
  /\ log' = SubSeq(log, n + 1, Len(log))
  /\ UNCHANGED day

Next == \/ NextDay
        \/ \E event \in Events, on \in 1..day : Put(event, on)
        \/ \E n \in 1..Len(log) : Drop(n)

Spec == Init /\ [][Next]_vars
=============================================================================
