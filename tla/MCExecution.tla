----------------------------- MODULE MCExecution -----------------------------
EXTENDS Execution, TLC

CONSTANTS main, f, g, ext  \* functions; ext is a declaration
CONSTANT p                 \* a cell

MCFunction == {main, f, g, ext}
MCDefined == {main, f, g}
MCCell == {p}
MCRegister == 1 .. 5
MCWritten == {AddressOf(f), AddressOf(g), AddressOf(ext), Null, NoCode}
MCFlowList == {{}, {f}, {g, ext}}

call(x) == [op |-> "call", fn |-> x]
icall(r) == [op |-> "icall", reg |-> r]
debug == [op |-> "debug"]
br(to) == [op |-> "br", to |-> to]
load == [op |-> "load", cell |-> p, typed |-> TRUE]
loadptr == [op |-> "load", cell |-> p, typed |-> FALSE]
castfn(r) == [op |-> "cast", reg |-> r, typed |-> TRUE]
castptr(r) == [op |-> "cast", reg |-> r, typed |-> FALSE]
store(r) == [op |-> "store", cell |-> p, reg |-> r]
storefn(x) == [op |-> "storefn", cell |-> p, fn |-> x]
ret == [op |-> "ret"]

\* A register that is called through twice, stored in between, or called
\* again after a jump back; calls of a declared function; calls that leave
\* SF.Caller behind before one that stops or returns.  A pointer of another type
\* cast to one to a function, called through and stored; and the reverse, whose
\* host address gets into memory, to be loaded when main runs again.
MainBodies ==
  { << load, icall(1), store(1), icall(1), ret >>,
    << load, debug, icall(1), br({2, 5}), ret >>,
    << call(ext), call(f), br({1, 4}), ret >>,
    << load, icall(1), storefn(g), call(f), ret >>,
    << storefn(ext), load, icall(2), call(g), ret >>,
    << loadptr, castfn(1), icall(2), store(2), ret >>,
    << load, icall(1), castptr(1), store(3), ret >> }
FBodies == {<< ret >>, << call(ext), ret >>}
GBody == << debug, call(f), ret >>

MCProgram ==
  {[body |-> (main :> m @@ f :> b @@ g :> GBody), image |-> (p :> AddressOf(g))] :
     m \in MainBodies, b \in FBodies}
=============================================================================
