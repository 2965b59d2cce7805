---------------------------- MODULE TokenBucket ----------------------------
(***************************************************************************)
(* What the rate limit on public comments promises: a token bucket for       *)
(* every client that ever was or will be, filled by one unit per tick up to   *)
(* Cap; a comment is let through if it finds Cost units and takes them.       *)
(***************************************************************************)
EXTENDS Integers

CONSTANTS IP, Cap, Cost, MaxNow

VARIABLES now, level, granted

vars == <<now, level, granted>>

Init ==
  /\ now = 0
  /\ level = [ip \in IP |-> Cap]
  /\ granted = [ip \in IP |-> 0]

Tick ==
  /\ now < MaxNow
  /\ now' = now + 1
  /\ level' = [ip \in IP |-> IF level[ip] < Cap THEN level[ip] + 1 ELSE Cap]
  /\ UNCHANGED granted

Grant(ip) ==
  /\ level[ip] >= Cost
  /\ level' = [level EXCEPT ![ip] = @ - Cost]
  /\ granted' = [granted EXCEPT ![ip] = @ + 1]
  /\ UNCHANGED now

Next == Tick \/ \E ip \in IP : Grant(ip)

Spec == Init /\ [][Next]_vars

=============================================================================
