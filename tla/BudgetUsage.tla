---------------------------- MODULE BudgetUsage ----------------------------
(***************************************************************************)
(* Usage vectors and caps (domain/models.py), and the arithmetic that the  *)
(* event store, the replay and the budget authority share.                 *)
(*                                                                         *)
(* "input" stands for the three disjoint input-token fields, "calls" for   *)
(* every field with a cap of its own.  A cap of None is a dimension that   *)
(* is not in the domain of the limits.                                     *)
(***************************************************************************)
EXTENDS Integers

BudgetUsage == [input : Nat, output : Nat, calls : Nat]

NoUsage == [input |-> 0, output |-> 0, calls |-> 0]

Dimensions == {"input", "output", "total", "calls"}

IsBudgetLimits(limits) ==
    DOMAIN limits \subseteq Dimensions /\ \A d \in DOMAIN limits : limits[d] \in Nat

AddUsage(u, v) ==
    [input |-> u.input + v.input, output |-> u.output + v.output, calls |-> u.calls + v.calls]

SubtractUsage(u, v) ==
    [input |-> u.input - v.input, output |-> u.output - v.output, calls |-> u.calls - v.calls]

UsageAtMost(u, ceiling) ==
    u.input <= ceiling.input /\ u.output <= ceiling.output /\ u.calls <= ceiling.calls

Amount(u, d) ==
    CASE d = "input"  -> u.input
      [] d = "output" -> u.output
      [] d = "total"  -> u.input + u.output
      [] d = "calls"  -> u.calls

\* exceeded_limits is empty: total_tokens is capped next to its two parts.
WithinLimits(u, limits) == \A d \in DOMAIN limits : Amount(u, d) <= limits[d]

=============================================================================
