------------------------------- MODULE Fallback -------------------------------
(***************************************************************************)
(* What LLMFactory.generate promises its callers, whatever the settings do *)
(* while a call is under way: it takes up the providers of the selection   *)
(* one after the other, each at most once and for at most two runs, and    *)
(* ends with one answer or, when all that is selected was taken up, fails. *)
(***************************************************************************)
EXTENDS Naturals

CONSTANTS Calls, Providers

VARIABLES
  chain,   \* the providers selected for each call at present
  tried,   \* the providers a call has taken up
  runs,    \* how often a call ran the provider it took up last
  result   \* "open", "answered" or "failed"

vars == <<chain, tried, runs, result>>

Init ==
  /\ chain \in [Calls -> SUBSET Providers]
  /\ tried = [c \in Calls |-> {}]
  /\ runs = [c \in Calls |-> 0]
  /\ result = [c \in Calls |-> "open"]

Select ==
  /\ chain' \in [Calls -> SUBSET Providers]
  /\ UNCHANGED <<tried, runs, result>>

TakeUp(c, p) ==
  /\ result[c] = "open"
  /\ p \in chain[c] \ tried[c]
  /\ tried' = [tried EXCEPT ![c] = @ \cup {p}]
  /\ runs' = [runs EXCEPT ![c] = 0]
  /\ UNCHANGED <<chain, result>>

Run(c) ==
  /\ result[c] = "open" /\ tried[c] # {}
  /\ runs[c] < 2
  /\ runs' = [runs EXCEPT ![c] = @ + 1]
  /\ UNCHANGED <<chain, tried, result>>

Answer(c) ==
  /\ result[c] = "open" /\ runs[c] > 0
  /\ result' = [result EXCEPT ![c] = "answered"]
  /\ UNCHANGED <<chain, tried, runs>>

Fail(c) ==
  /\ result[c] = "open" /\ chain[c] \subseteq tried[c]
  /\ result' = [result EXCEPT ![c] = "failed"]
  /\ UNCHANGED <<chain, tried, runs>>

Next ==
  \/ Select
  \/ \E c \in Calls : Run(c) \/ Answer(c) \/ Fail(c)
  \/ \E c \in Calls, p \in Providers : TakeUp(c, p)

Spec == Init /\ [][Next]_vars
=============================================================================
