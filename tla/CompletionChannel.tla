-------------------------- MODULE CompletionChannel --------------------------
(***************************************************************************)
(* What a completion queue promises its user, with nothing said of rings,  *)
(* owner bits or doorbell records: every request that was submitted is     *)
(* completed at most once, in order, and the user is told of a completion  *)
(* exactly once and never before it happened.  The user keeps at most      *)
(* Capacity requests outstanding, as pp_common.h sizes the queue for.      *)
(***************************************************************************)
EXTENDS Naturals

CONSTANT Capacity

VARIABLES asked, \* requests submitted so far
          done,  \* requests the device has completed so far
          told   \* completions the user has been told of so far

vars == <<asked, done, told>>

Init == asked = 0 /\ done = 0 /\ told = 0

Ask == \E n \in 1..Capacity :
         /\ asked + n - told <= Capacity
         /\ asked' = asked + n
         /\ UNCHANGED <<done, told>>

Finish == /\ done < asked
          /\ done' = done + 1
          /\ UNCHANGED <<asked, told>>

Tell == \E n \in 1..Capacity :
          /\ told + n <= done
          /\ told' = told + n
          /\ UNCHANGED <<asked, done>>

Next == Ask \/ Finish \/ Tell

Spec == Init /\ [][Next]_vars
==============================================================================
