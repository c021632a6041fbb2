------------------------------ MODULE CallStack ------------------------------
(***************************************************************************)
(* What running a program promises, whatever the interpreter does to get   *)
(* there: a call the program comes to is made, left out, or handed to the  *)
(* user, and the program goes on behind it; what a function returns        *)
(* becomes the value of the call its caller stands behind, and no other.   *)
(***************************************************************************)
EXTENDS Integers, Sequences

CONSTANTS Function, Value, Register, Blank

VARIABLE stack  \* the active calls, innermost last

Frame(f) == [fn |-> f, at |-> 1, got |-> [r \in Register |-> Blank]]

Got(frame, i, x) == [frame EXCEPT !.got[i] = x]

Below == SubSeq(stack, 1, Len(stack) - 1)
Innermost == stack[Len(stack)]
Become(frame) == stack' = Append(Below, frame)

Init == stack = << >>

\* The user runs f.
Enter == stack = << >> /\ \E f \in Function : stack' = << Frame(f) >>

\* An instruction that is no call, or a call without a value.
Move == stack # << >> /\ \E i \in Register : Become([Innermost EXCEPT !.at = i])

Call ==
  /\ stack # << >>
  /\ \E f \in Function :
       stack' = Append(Append(Below, [Innermost EXCEPT !.at = @ + 1]), Frame(f))

\* A call that gets its value without a frame of its own.
Resolve ==
  /\ stack # << >>
  /\ \E x \in Value :
       Become(Got([Innermost EXCEPT !.at = @ + 1], Innermost.at, x))

Return ==
  /\ stack # << >>
  /\ \/ Below = << >> /\ stack' = << >>
     \/ /\ Below # << >>
        /\ LET caller == Below[Len(Below)]
           IN  \E x \in Value :
                 /\ caller.at - 1 \in Register
                 /\ stack' = Append(SubSeq(Below, 1, Len(Below) - 1),
                                    Got(caller, caller.at - 1, x))

\* The user gives the call the program stands behind its value.
Answer ==
  /\ stack # << >> /\ Innermost.at - 1 \in Register
  /\ \E x \in Value : Become(Got(Innermost, Innermost.at - 1, x))

Clear == stack' = << >>

Next == Enter \/ Move \/ Call \/ Resolve \/ Return \/ Answer \/ Clear

Spec == Init /\ [][Next]_stack

=============================================================================
