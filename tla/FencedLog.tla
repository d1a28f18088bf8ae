----------------------------- MODULE FencedLog ------------------------------
(***************************************************************************)
(* What the session store promises, without tables, tokens or clocks: one   *)
(* append-only log per session, written in tenures.  A tenure begins when   *)
(* write ownership is granted and ends when it is given up or granted       *)
(* again; every entry carries the tenure it was written in, and a closed    *)
(* tenure never writes again.                                              *)
(***************************************************************************)
EXTENDS Naturals, Sequences

CONSTANTS Key, Body

VARIABLES
  log,     \* [Key -> Seq of entries]
  tenure,  \* [Key -> Nat]: number of the current tenure
  held     \* [Key -> BOOLEAN]: somebody owns the current tenure

vars == <<log, tenure, held>>

Init ==
  /\ log = [k \in Key |-> << >>]
  /\ tenure \in [Key -> {0, 1}]
  /\ held = [k \in Key |-> FALSE]

\* Ownership is granted: the previous tenure, if any, is fenced.
Acquire(k) ==
  /\ tenure' = [tenure EXCEPT ![k] = @ + 1]
  /\ held' = [held EXCEPT ![k] = TRUE]
  /\ UNCHANGED log

\* The owner gives the session up.
Relinquish(k) ==
  /\ held[k]
  /\ tenure' = [tenure EXCEPT ![k] = @ + 1]
  /\ held' = [held EXCEPT ![k] = FALSE]
  /\ UNCHANGED log

\* The owner of the current tenure extends the log by a non-empty batch.
Extend(k) ==
  /\ held[k]
  /\ Len(log'[k]) > Len(log[k])
  /\ \A i \in 1..Len(log'[k]) :
       IF i <= Len(log[k]) THEN log'[k][i] = log[k][i]
       ELSE log'[k][i] \in [tenure : {tenure[k]}, body : Body]
  /\ \A j \in Key \ {k} : log'[j] = log[j]
  /\ DOMAIN log' = Key
  /\ UNCHANGED <<tenure, held>>

Next == \E k \in Key : Acquire(k) \/ Relinquish(k) \/ Extend(k)

Spec == Init /\ [][Next]_vars

=============================================================================
