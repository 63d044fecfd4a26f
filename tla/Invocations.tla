------------------------------ MODULE Invocations ------------------------------
(* What the provider layer promises to the cells that call it, with no HTTP,  *)
(* back-off or retry counter in sight (lexstab/providers/base.py, invoke, and *)
(* the caller in lexstab/runner.py, _invoke):                                 *)
(*   - an invocation tries at most MaxTries times;                            *)
(*   - it comes to one end: an answer, a failure for good, or an exception;   *)
(*   - behind a failure or an exception the cell calls nobody any more;       *)
(*   - a failure is not declared before the provider was tried.               *)
(* Transport refines this module.                                             *)
EXTENDS Naturals, Sequences

CONSTANTS Cells,      \* the cells that call, each in a thread of its own
          MaxTries    \* how often one invocation may reach out

VARIABLES tries,      \* attempts of the invocation a cell is in
          ends,       \* how the cell's invocations ended, in order
          over        \* the cell makes no more invocations

invocationVars == <<tries, ends, over>>

Ends == {"answer", "failure", "exception"}

Init ==
    /\ tries = [c \in Cells |-> 0]
    /\ ends = [c \in Cells |-> <<>>]
    /\ over = [c \in Cells |-> FALSE]

Try(c) ==
    /\ ~over[c]
    /\ tries[c] < MaxTries
    /\ tries' = [tries EXCEPT ![c] = @ + 1]
    /\ UNCHANGED <<ends, over>>

End(c) ==
    /\ ~over[c]
    /\ tries[c] > 0
    /\ \E e \in Ends :
          /\ ends' = [ends EXCEPT ![c] = Append(@, e)]
          /\ over' = [over EXCEPT ![c] = e # "answer"]
    /\ tries' = [tries EXCEPT ![c] = 0]

Finish(c) ==
    /\ ~over[c]
    /\ tries[c] = 0
    /\ over' = [over EXCEPT ![c] = TRUE]
    /\ UNCHANGED <<tries, ends>>

Next == \E c \in Cells : Try(c) \/ End(c) \/ Finish(c)

Spec == Init /\ [][Next]_invocationVars
================================================================================
