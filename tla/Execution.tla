------------------------------ MODULE Execution ------------------------------
(***************************************************************************)
(* Running a program: MyInterpreter::run with its flow control, and what a *)
(* user of IRModuleInterpreter does while it is not running                *)
(* (irinterpreter2-interpreter.cc).  One step executes one instruction.    *)
(* The program is `code`: instructions in a line, with jumps.  Values are  *)
(* function pointers or the results of calls; a value remembers (`of`) the *)
(* function it is about, which the code does not.                          *)
(***************************************************************************)
EXTENDS Integers, Sequences

CONSTANTS
  Function,    \* the functions of the module
  Defined,     \* those that have a body; the others are declarations
  Cell,        \* pieces of memory that hold a function pointer
  Register,    \* places in a body: an instruction's value has its place's name
  Program,     \* the programs to run: [body |-> ..., image |-> ...]
  FlowList,    \* the lists the user passes to stop() and skip()
  Written,     \* the function pointers the user writes into memory
  NoFunction,
  Wide,        \* are the program's pointers as wide as the host's?
  MayNest,     \* may the user run a function while another one is stopped?
  MaxDepth     \* bound: frames on the stack

VARIABLES
  code,                \* the program
  ECStack,             \* Interpreter::ECStack
  runningInstruction,  \* MyInterpreter::runningInstruction: function and place
  memory,              \* what the cells hold
  stop, skip,          \* IRXFlowControl::stop and skip
  ExitValue,           \* Interpreter::ExitValue
  mode                 \* "running" inside run(), "idle" when the user has control

vars == <<code, ECStack, runningInstruction, memory, stop, skip, ExitValue, mode>>

Instruction ==
  [op : {"call"}, fn : Function] \cup [op : {"icall"}, reg : Nat] \cup
  [op : {"debug", "ret"}] \cup [op : {"br"}, to : SUBSET Nat] \cup
  [op : {"load"}, cell : Cell, typed : BOOLEAN] \cup
  [op : {"cast"}, reg : Nat, typed : BOOLEAN] \cup
  [op : {"store"}, cell : Cell, reg : Nat] \cup [op : {"storefn"}, cell : Cell, fn : Function]

Value ==
  [kind : {"vv", "host", "cut", "null", "result", "python", "zero"},
   of : Function \cup {NoFunction}]

\* &f as the program computes it: only functions with a body have an address
\* (updateGlobalMappings), all others are null to vptr2vvptr.
AddressOf(f) == [kind |-> IF f \in Defined THEN "vv" ELSE "null", of |-> f]
Null == [kind |-> "null", of |-> NoFunction]
NoCode == [kind |-> "vv", of |-> NoFunction]
Pointers == {AddressOf(f) : f \in Function} \cup {Null, NoCode}

Result(f) == [kind |-> "result", of |-> f]
Python == [kind |-> "python", of |-> NoFunction]
Zero == [kind |-> "zero", of |-> NoFunction]

\* The instructions whose value is a pointer; `typed` tells that its static type
\* is pointer to function.  (Functions do not return function pointers here.)
HasPointer(i) == i.op \in {"load", "cast"}

\* A body ends in a return and jumps within itself; what is called through,
\* cast or stored is an earlier pointer, and LLVM calls only what is typed.
WellFormed(body) ==
  /\ body # << >> /\ body[Len(body)].op = "ret"
  /\ 1 .. Len(body) \subseteq Register
  /\ \A i \in 1 .. Len(body) :
       /\ body[i].op = "br" => body[i].to \subseteq 1 .. Len(body) /\ body[i].to # {}
       /\ body[i].op \in {"icall", "cast", "store"} =>
            body[i].reg \in 1 .. i - 1 /\ HasPointer(body[body[i].reg])
       /\ body[i].op = "icall" => body[body[i].reg].typed

ASSUME FunctionAssumption == Defined \subseteq Function /\ NoFunction \notin Function
ASSUME ProgramAssumption ==
  \A p \in Program :
    /\ p.body \in [Defined -> Seq(Instruction)]
    /\ \A f \in Defined : WellFormed(p.body[f])
    /\ p.image \in [Cell -> Pointers]
ASSUME FlowAssumption == FlowList \subseteq SUBSET Function /\ Written \subseteq Pointers
ASSUME WidthAssumption == Wide \in BOOLEAN
ASSUME BoundAssumption == MayNest \in BOOLEAN /\ MaxDepth \in Nat

-----------------------------------------------------------------------------
\* Frames.  A register that was never set reads as a GenericValue() does,
\* null.  LLVM's ExecutionContext() leaves Caller uninitialised.

NULL == 0
Uninitialised == -1

Frame ==
  [CurFunction : Defined, CurInst : Nat, Caller : Int, Values : [Register -> Value]]

NewFrame(f) ==
  [CurFunction |-> f, CurInst |-> 1, Caller |-> Uninitialised,
   Values |-> [r \in Register |-> Null]]

SetValue(frame, i, x) == [frame EXCEPT !.Values[i] = x]
getOperandValue(frame, i) == frame.Values[i]

Below == SubSeq(ECStack, 1, Len(ECStack) - 1)
SF == ECStack[Len(ECStack)]
CodeAt(frame, i) == code.body[frame.CurFunction][i]
I == CodeAt(SF, SF.CurInst)
Past == [SF EXCEPT !.CurInst = @ + 1]

\* Variant: fills in the last call of the frame that was executed.
popStackAndReturnValueToCaller_Last(frames, x) ==
  IF frames = << >> THEN frames
  ELSE LET frame == frames[Len(frames)]
       IN  Append(SubSeq(frames, 1, Len(frames) - 1),
                  [SetValue(frame, frame.CurInst, x) EXCEPT !.Caller = NULL])

\* The frames under the one that returns x: the call that waits gets x.
popStackAndReturnValueToCaller(frames, x) ==
  IF frames = << >> \/ frames[Len(frames)].Caller = NULL THEN frames
  ELSE LET frame == frames[Len(frames)]
           isVoid == CodeAt(frame, frame.Caller).op = "debug"
       IN  Append(SubSeq(frames, 1, Len(frames) - 1),
                  [(IF isVoid THEN frame ELSE SetValue(frame, frame.Caller, x))
                     EXCEPT !.Caller = NULL])

ReadsUninitialised(frames) ==
  frames # << >> /\ frames[Len(frames)].Caller = Uninitialised

\* A declared function runs on the host and is back at once.
callFunction(frames, f) ==
  IF f \in Defined THEN Append(frames, NewFrame(f))
  ELSE popStackAndReturnValueToCaller(frames, Result(f))

-----------------------------------------------------------------------------
\* Function pointers: addresses the map knows, or host addresses in the registers
\* an indirect call went through.  What is left of a host address in a narrower
\* pointer ("cut") is the address of nothing.

vvptr2vptr(v) == IF v.kind = "vv" /\ v.of # NoFunction THEN [v EXCEPT !.kind = "host"] ELSE v
vptr2vvptr(v) == IF v.kind = "host" THEN [v EXCEPT !.kind = "vv"] ELSE v
findFunctionByVPtr(v) == IF v.kind = "host" THEN {v.of} ELSE {}

\* Variant: does not look through pointers.
getFunctionWithPtr_Direct(frame, call) == IF call.op = "call" THEN {call.fn} ELSE {}

\* The function a call is about to call, if the code finds one.
getFunctionWithPtr(frame, call) ==
  CASE call.op = "call"  -> {call.fn}
    [] call.op = "icall" -> findFunctionByVPtr(vvptr2vptr(getOperandValue(frame, call.reg)))
    [] OTHER             -> {}

IsCall(i) == i.op \in {"call", "icall", "debug"}

-----------------------------------------------------------------------------
\* MyInterpreter::run: it ends when the stack is empty or a call stops it.

Executing ==
  /\ mode = "running"
  /\ runningInstruction' = [fn |-> SF.CurFunction, at |-> SF.CurInst]

Continue(frame) == ECStack' = Append(Below, frame) /\ mode' = "running"
Settings == <<code, stop, skip>>

\* Variant: the running instruction is not updated.
VisitStop_Stale ==
  /\ mode = "running"
  /\ getFunctionWithPtr(SF, I) \cap stop # {}
  /\ ECStack' = Append(Below, Past)
  /\ mode' = "idle"
  /\ UNCHANGED <<Settings, runningInstruction, memory, ExitValue>>

VisitStop ==
  /\ Executing
  /\ getFunctionWithPtr(SF, I) \cap stop # {}
  /\ ECStack' = Append(Below, Past)
  /\ mode' = "idle"
  /\ UNCHANGED <<Settings, memory, ExitValue>>

\* Variant: the instruction pointer stays.
VisitSkip_Stay ==
  /\ Executing
  /\ getFunctionWithPtr(SF, I) \cap stop = {}
  /\ getFunctionWithPtr(SF, I) \cap skip # {}
  /\ UNCHANGED <<Settings, ECStack, mode, memory, ExitValue>>

\* The value of a call that is skipped is whatever it was.
VisitSkip ==
  /\ Executing
  /\ getFunctionWithPtr(SF, I) \cap stop = {}
  /\ getFunctionWithPtr(SF, I) \cap skip # {}
  /\ Continue(Past)
  /\ UNCHANGED <<Settings, memory, ExitValue>>

Visits(call) ==
  IsCall(call) /\ getFunctionWithPtr(SF, call) \cap (stop \cup skip) = {}

\* visitCallBase leaves the register of an indirect call's pointer with the
\* host address.
Called(call) ==
  LET frame == [Past EXCEPT !.Caller = SF.CurInst]
      V == vvptr2vptr(getOperandValue(SF, call.reg))
  IN  IF call.op = "icall" /\ V.kind # "null" THEN SetValue(frame, call.reg, V) ELSE frame

\* A direct call, or one through a pointer to a function that has a body.
VisitCall ==
  /\ Executing
  /\ Visits(I)
  /\ \E f \in getFunctionWithPtr(SF, I) :
       /\ f \in Defined => Len(ECStack) < MaxDepth
       /\ ECStack' = callFunction(Append(Below, Called(I)), f)
       /\ mode' = "running"
  /\ UNCHANGED <<Settings, memory, ExitValue>>

\* A call through null: its value is zero.
VisitNullCall ==
  /\ Executing
  /\ I.op = "icall" /\ getOperandValue(SF, I.reg).kind = "null"
  /\ Continue(SetValue(Called(I), SF.CurInst, Zero))
  /\ UNCHANGED <<Settings, memory, ExitValue>>

\* llvm.dbg.*, and a call through a pointer to no function: no value.
VisitIgnored ==
  /\ Executing
  /\ Visits(I) /\ getFunctionWithPtr(SF, I) = {}
  /\ I.op = "icall" => getOperandValue(SF, I.reg).kind # "null"
  /\ Continue(Called(I))
  /\ UNCHANGED <<Settings, memory, ExitValue>>

VisitLoad ==
  /\ Executing /\ I.op = "load"
  /\ Continue(SetValue(Past, SF.CurInst, memory[I.cell]))
  /\ UNCHANGED <<Settings, memory, ExitValue>>

\* A bitcast copies the pointer.
VisitCast ==
  /\ Executing /\ I.op = "cast"
  /\ Continue(SetValue(Past, SF.CurInst, getOperandValue(SF, I.reg)))
  /\ UNCHANGED <<Settings, memory, ExitValue>>

\* As many bytes as the program's pointers have.
StoreValueToMemory(v) == IF v.kind = "host" /\ ~Wide THEN [v EXCEPT !.kind = "cut"] ELSE v

\* Variant: stores what the register holds.
VisitStore_Host ==
  /\ Executing /\ I.op \in {"store", "storefn"}
  /\ memory' = [memory EXCEPT ![I.cell] =
                  StoreValueToMemory(IF I.op = "storefn" THEN AddressOf(I.fn)
                                     ELSE getOperandValue(SF, I.reg))]
  /\ Continue(Past)
  /\ UNCHANGED <<Settings, ExitValue>>

\* What visitStoreInst stores: a pointer whose static type is pointer to function
\* as the program's address of the function, any other as it is.
Stored(frame, i) ==
  LET v == getOperandValue(frame, i.reg)
  IN  CASE i.op = "storefn" -> AddressOf(i.fn)
        [] i.op = "store" /\ CodeAt(frame, i.reg).typed -> vptr2vvptr(v)
        [] OTHER -> v

VisitStore ==
  /\ Executing /\ I.op \in {"store", "storefn"}
  /\ memory' = [memory EXCEPT ![I.cell] = StoreValueToMemory(Stored(SF, I))]
  /\ Continue(Past)
  /\ UNCHANGED <<Settings, ExitValue>>

VisitBranch ==
  /\ Executing /\ I.op = "br"
  /\ \E i \in I.to : Continue([SF EXCEPT !.CurInst = i])
  /\ UNCHANGED <<Settings, memory, ExitValue>>

\* Variant: run() does not look whether the stack is empty.
VisitRet_Running ==
  /\ Executing /\ I.op = "ret"
  /\ ECStack' = popStackAndReturnValueToCaller(Below, Result(SF.CurFunction))
  /\ ExitValue' = IF Below = << >> THEN Result(SF.CurFunction) ELSE ExitValue
  /\ mode' = "running"
  /\ UNCHANGED <<Settings, memory>>

VisitRet ==
  /\ Executing /\ I.op = "ret"
  /\ \/ /\ ReadsUninitialised(Below)
        /\ mode' = "undefined"
        /\ UNCHANGED <<ECStack, ExitValue>>
     \/ /\ ~ReadsUninitialised(Below)
        /\ ECStack' = popStackAndReturnValueToCaller(Below, Result(SF.CurFunction))
        /\ ExitValue' = IF Below = << >> THEN Result(SF.CurFunction) ELSE ExitValue
        /\ mode' = IF Below = << >> THEN "idle" ELSE "running"
  /\ UNCHANGED <<Settings, memory>>

Run ==
  \/ VisitStop \/ VisitSkip \/ VisitCall \/ VisitNullCall \/ VisitIgnored
  \/ VisitLoad \/ VisitCast \/ VisitStore \/ VisitBranch \/ VisitRet

-----------------------------------------------------------------------------
\* The user: IRModuleInterpreter.

Stopped == mode = "idle" /\ ECStack # << >>

\* runFunction, and the resume() it ends with.
RunFunction ==
  /\ mode = "idle"
  /\ ECStack = << >> \/ MayNest
  /\ \E f \in Function :
       \/ /\ f \notin Defined /\ ReadsUninitialised(ECStack)
          /\ mode' = "undefined"
          /\ UNCHANGED <<ECStack, ExitValue>>
       \/ /\ f \in Defined => Len(ECStack) < MaxDepth
          /\ ~(f \notin Defined /\ ReadsUninitialised(ECStack))
          /\ ECStack' = callFunction(ECStack, f)
          /\ ExitValue' = IF ECStack' = << >> THEN Result(f) ELSE ExitValue
          /\ mode' = IF ECStack' = << >> THEN "idle" ELSE "running"
  /\ UNCHANGED <<Settings, runningInstruction, memory>>

Resume ==
  /\ Stopped
  /\ mode' = "running"
  /\ UNCHANGED <<Settings, ECStack, runningInstruction, memory, ExitValue>>

SetStop ==
  /\ mode = "idle"
  /\ stop' \in FlowList
  /\ UNCHANGED <<code, ECStack, runningInstruction, memory, skip, ExitValue, mode>>

SetSkip ==
  /\ mode = "idle"
  /\ skip' \in FlowList
  /\ UNCHANGED <<code, ECStack, runningInstruction, memory, stop, ExitValue, mode>>

\* The code takes the running instruction to be the stopped call of the last
\* frame; the user is expected to call it only then.
putReturnValue ==
  /\ Stopped
  /\ ECStack' = Append(Below, SetValue(SF, runningInstruction.at, Python))
  /\ UNCHANGED <<Settings, runningInstruction, memory, ExitValue, mode>>

\* The user writes a function pointer (irx_struct_set).
WriteMemory ==
  /\ mode = "idle"
  /\ \E c \in Cell, v \in Written : memory' = [memory EXCEPT ![c] = v]
  /\ UNCHANGED <<Settings, ECStack, runningInstruction, ExitValue, mode>>

\* resetExtraAllocations, the part of it that is about execution.  The
\* running instruction and the lists stay.
Reset ==
  /\ mode = "idle"
  /\ ECStack' = << >>
  /\ ExitValue' = Zero
  /\ memory' = code.image
  /\ UNCHANGED <<Settings, runningInstruction, mode>>

Init ==
  /\ code \in Program
  /\ ECStack = << >>
  /\ runningInstruction = [fn |-> NoFunction, at |-> 0]
  /\ memory = code.image
  /\ stop = {} /\ skip = {}
  /\ ExitValue = Zero
  /\ mode = "idle"

Next ==
  \/ VisitStop \/ VisitSkip \/ VisitCall \/ VisitNullCall \/ VisitIgnored
  \/ VisitLoad \/ VisitCast \/ VisitStore \/ VisitBranch \/ VisitRet
  \/ RunFunction \/ Resume \/ SetStop \/ SetSkip
  \/ putReturnValue \/ WriteMemory \/ Reset

\* run() has the only thread and keeps looping.
Fairness == WF_vars(Run)

Spec == Init /\ [][Next]_vars
FairSpec == Spec /\ Fairness

-----------------------------------------------------------------------------
\* Each frame stands in the body of its function, and run() is active only
\* while there is a frame to execute.  (ExecutionContext, MyInterpreter::run.)
TypeOK ==
  /\ code \in Program
  /\ ECStack \in Seq(Frame)
  /\ \A d \in 1 .. Len(ECStack) :
       LET size == Len(code.body[ECStack[d].CurFunction])
       IN  /\ ECStack[d].CurInst \in 1 .. size
           /\ ECStack[d].Caller \in {Uninitialised, NULL} \cup 1 .. size
  /\ runningInstruction \in [fn : Defined, at : Nat] \cup [fn : {NoFunction}, at : {0}]
  /\ memory \in [Cell -> Value]
  /\ stop \subseteq Function /\ skip \subseteq Function
  /\ ExitValue \in Value
  /\ mode \in {"idle", "running", "undefined"}
  /\ mode = "running" => ECStack # << >>

\* A call's value is what the function it calls returned, a zero for a null
\* pointer, or the user's.  (visitCallBase, popStackAndReturnValueToCaller and
\* putReturnValue, through stops, skips, jumps back and calls in between.)
ResultsFromCallee ==
  \A d \in 1 .. Len(ECStack) : \A i \in 1 .. Len(code.body[ECStack[d].CurFunction]) :
    LET c == CodeAt(ECStack[d], i)
        x == ECStack[d].Values[i]
    IN  /\ c.op = "call"  => x \in {Null, Python, Result(c.fn)}
        /\ c.op = "icall" => x \in {Null, Zero, Python} \cup {Result(f) : f \in Defined}
        /\ c.op = "debug" => x = Null

\* Where the user has control, the program stands right behind a call that has
\* not been made, the running instruction is that call, and its function has a
\* name: what putReturnValue ("assumes that the call was stopped before a new
\* stack frame was allocated") and getCurrentCallFunctionName rely on.
StoppedAtCall ==
  Stopped =>
    /\ runningInstruction = [fn |-> SF.CurFunction, at |-> SF.CurInst - 1]
    /\ LET call == CodeAt(SF, SF.CurInst - 1)
       IN  IsCall(call) /\ getFunctionWithPtr(SF, call) # {}

\* Every pointer the program stores is typed as a pointer to function, or comes
\* straight from memory: visitStoreInst translates only the former.
TypedStores ==
  \A f \in Defined : \A i \in 1 .. Len(code.body[f]) :
    LET body == code.body[f]
    IN  body[i].op = "store" => body[body[i].reg].typed \/ body[body[i].reg].op = "load"

\* The host addresses that calls leave in registers do not get into the memory of
\* a program whose stores visitStoreInst (interpreter.cc:303-306) can translate,
\* through casts, repeated calls and reloads.  In one that casts such a register
\* to another type and stores that, they do, cut to the pointer's width.
MemoryHoldsAddresses == TypedStores => \A c \in Cell : memory[c] \in Pointers

\* The function a call means, whatever its pointer has become, unless it was cut.
Target(call) ==
  CASE call.op = "call" -> call.fn
    [] call.op = "icall" /\ getOperandValue(SF, call.reg).kind # "cut" ->
         getOperandValue(SF, call.reg).of
    [] OTHER -> NoFunction

\* A call to a function that has a body does what the lists say of it, also
\* through a pointer, and through one that has been called before: it stops
\* before the call, passes it by, or enters that function.
CallsReachTarget ==
  [][ mode = "running" /\ Target(I) \in Defined =>
        \/ /\ Target(I) \in stop
           /\ mode' = "idle" /\ Len(ECStack') = Len(ECStack)
        \/ /\ Target(I) \in skip \ stop
           /\ mode' = "running" /\ SF' = Past
        \/ /\ Target(I) \notin stop \cup skip
           /\ SF' = NewFrame(Target(I)) /\ Len(ECStack') = Len(ECStack) + 1 ]_vars

\* The interpreter runs the program: its stack is that of the abstract machine.
Abstract(frame) ==
  [fn |-> frame.CurFunction, at |-> frame.CurInst,
   got |-> [r \in Register |->
              IF r \in 1 .. Len(code.body[frame.CurFunction]) /\ IsCall(CodeAt(frame, r))
              THEN frame.Values[r] ELSE Null]]

Machine == INSTANCE CallStack
             WITH stack <- [d \in 1 .. Len(ECStack) |-> Abstract(ECStack[d])],
                  Blank <- Null

\* Every instruction and every command is a step of the abstract machine: a
\* call is made once, and its value goes to the call the caller stands behind.
ImplementsCallStack == Machine!Spec

\* A program without a jump back comes to its end or to a stop.
Straight ==
  \A f \in Defined : \A i \in 1 .. Len(code.body[f]) :
    code.body[f][i].op = "br" => \A j \in code.body[f][i].to : i < j
RunReturns == Straight /\ mode = "running" ~> mode = "idle"

\* getCurrentCallArgs evaluates the operands of SF.Caller; they are those of
\* the call the program is stopped at.  (run_test_zephyr.py:228-231.)
ArgsOfStoppedCall ==
  Stopped => SF.Caller = runningInstruction.at

\* A call of a function the user wants to stop at stops, defined or not.
\* (pyirinterpreter.pyx:372, "at which the interpreter should stop".)
StopHonoured ==
  [][ mode = "running" /\ Target(I) \in stop => mode' = "idle" ]_vars

\* "NULL if main func or debugger invoked fn" (llvm-internal/Interpreter.h:64):
\* when the user runs a function, the stopped frame does not wait for a value
\* on behalf of a call it has executed before.
DebuggerInvokedFn ==
  [][ mode = "idle" /\ Len(ECStack') > Len(ECStack) /\ ECStack # << >> =>
        SF.Caller \in {NULL, Uninitialised} ]_vars

=============================================================================
