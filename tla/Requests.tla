------------------------------ MODULE Requests ------------------------------
(***************************************************************************)
(* Requests that load a row in one statement and save it in another, with  *)
(* no transaction around the two: the settings leave ATOMIC_REQUESTS off,  *)
(* so every save commits by itself.                                        *)
(*                                                                         *)
(* A running request is a job: what it does next (do), the row it works on *)
(* (on), what it has loaded (row), and whether that row was saved by       *)
(* someone else since it was loaded (old, a history field).                *)
(***************************************************************************)
CONSTANTS
  Call,   \* the requests that may be running at one time
  Idle    \* what a call that is not running does

VARIABLE calls   \* calls[c]: the job of call c, or Idle

Does(c, what) == calls[c] # Idle /\ calls[c].do = what

Job(what, on, row) == [do |-> what, on |-> on, row |-> row, old |-> FALSE]

Begin(c, job) == calls[c] = Idle /\ calls' = [calls EXCEPT ![c] = job]
Goes(c, next) == calls' = [calls EXCEPT ![c] = next]
End(c) == Goes(c, Idle)

\* Call c saved row k and goes on to next: what others loaded of k is old now.
Saved(c, k, next) ==
  calls' = [d \in Call |->
    IF d = c THEN next
    ELSE IF calls[d] # Idle /\ calls[d].on = k THEN [calls[d] EXCEPT !.old = TRUE]
    ELSE calls[d]]

\* Row k was saved by a request that loads and saves at once.
SavedAtOnce(k) ==
  calls' = [d \in Call |->
    IF calls[d] # Idle /\ calls[d].on = k THEN [calls[d] EXCEPT !.old = TRUE] ELSE calls[d]]

=============================================================================
