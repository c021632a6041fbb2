-------------------------- MODULE ExecutionProofs --------------------------
(***************************************************************************)
(* Proofs about Execution, for every set of functions, every program and   *)
(* everything a user may do with it.                                       *)
(***************************************************************************)
EXTENDS Execution, DataLemmas, TLAPS

\* Every pointer program p stores is typed, or comes straight from memory.
Typed(p) ==
  \A f \in Defined : \A i \in 1 .. Len(p.body[f]) :
    p.body[f][i].op = "store" =>
      p.body[f][p.body[f][i].reg].typed \/ p.body[f][p.body[f][i].reg].op = "load"

\* What the registers of loads and casts hold: function pointers, as they are in
\* memory or as an indirect call has left them, and what was cut of the latter.
Resolvable == Pointers \cup {[kind |-> "host", of |-> f] : f \in Defined}
Remains == Resolvable \cup {[kind |-> "cut", of |-> f] : f \in Defined}
Loaded(p) == IF Typed(p) THEN Resolvable ELSE Remains

\* What the program's memory holds.
Kept(p) == IF Typed(p) THEN Pointers ELSE Remains

\* What the register of a call may hold, as in ResultsFromCallee.
Answers(c, x) ==
  /\ c.op = "call"  => x \in {Null, Python, Result(c.fn)}
  /\ c.op = "icall" => x \in {Null, Zero, Python} \cup {Result(f) : f \in Defined}
  /\ c.op = "debug" => x = Null

\* When a user runs functions while another is stopped a call may get the
\* value of one of those.
Holds(p, c, x) ==
  /\ HasPointer(c) => x \in Loaded(p)
  /\ c.op = "load" /\ ~ c.typed => x \in Kept(p)
  /\ MayNest \/ Answers(c, x)

\* A frame of program p.
Good(p, frame) ==
  LET body == p.body[frame.CurFunction]
  IN  /\ frame \in Frame
      /\ frame.CurInst \in 1 .. Len(body)
      /\ frame.Caller \in {Uninitialised, NULL} \cup 1 .. Len(body)
      /\ frame.Caller >= 1 => IsCall(body[frame.Caller])
      /\ \A i \in 1 .. Len(body) : Holds(p, body[i], frame.Values[i])

\* The frame waits for the value of f, right behind the call.
Waits(p, frame, f) ==
  LET c == p.body[frame.CurFunction][frame.Caller]
  IN  /\ frame.Caller >= 1 /\ frame.CurInst = frame.Caller + 1
      /\ (c.op = "call" /\ c.fn = f) \/ (c.op = "icall" /\ f \in Defined)

Chain(p, frames) ==
  MayNest \/ \A d \in 1 .. Len(frames) - 1 : Waits(p, frames[d], frames[d + 1].CurFunction)

GoodStack(p, frames) ==
  /\ frames \in Seq(Frame)
  /\ \A d \in 1 .. Len(frames) : Good(p, frames[d])
  /\ Chain(p, frames)

IInv ==
  /\ code \in Program
  /\ GoodStack(code, ECStack)
  /\ runningInstruction \in [fn : Defined, at : Nat] \cup [fn : {NoFunction}, at : {0}]
  /\ memory \in [Cell -> Kept(code)]
  /\ stop \subseteq Function /\ skip \subseteq Function
  /\ ExitValue \in Value
  /\ mode \in {"idle", "running", "undefined"}
  /\ mode = "running" => ECStack # << >>
  /\ StoppedAtCall
  /\ Stopped => runningInstruction.at >= 1

-----------------------------------------------------------------------------
\* Programs, values and single frames.

LEMMA Bodies ==
  ASSUME NEW p \in Program, NEW f \in Defined
  PROVE  /\ p.body[f] \in Seq(Instruction) /\ WellFormed(p.body[f])
         /\ Len(p.body[f]) \in Nat /\ 1 \in 1 .. Len(p.body[f])
         /\ 1 .. Len(p.body[f]) \subseteq Register
BY ProgramAssumption DEF WellFormed

LEMMA Values ==
  /\ Pointers \subseteq Value
  /\ \A p : Pointers \subseteq Kept(p) /\ Kept(p) \subseteq Loaded(p) /\ Loaded(p) \subseteq Value
  /\ Null \in Pointers /\ Null \in Value /\ Zero \in Value /\ Python \in Value
  /\ \A f \in Function : Result(f) \in Value /\ AddressOf(f) \in Pointers
BY FunctionAssumption
DEF Pointers, Loaded, Kept, Resolvable, Remains, Value, AddressOf, Null, NoCode, Zero, Python,
    Result

\* An instruction that is no return has another one behind it.
LEMMA NotLast ==
  ASSUME NEW p \in Program, NEW f \in Defined, NEW i \in 1 .. Len(p.body[f]),
         p.body[f][i].op # "ret"
  PROVE  i + 1 \in 1 .. Len(p.body[f])
BY Bodies DEF WellFormed

LEMMA Moved ==
  ASSUME NEW p \in Program, NEW frame, Good(p, frame),
         NEW i \in 1 .. Len(p.body[frame.CurFunction])
  PROVE  /\ Good(p, [frame EXCEPT !.CurInst = i])
         /\ [frame EXCEPT !.CurInst = i].CurFunction = frame.CurFunction
BY Bodies DEF Good, Frame

LEMMA Filled ==
  ASSUME NEW p \in Program, NEW frame, Good(p, frame),
         NEW i \in 1 .. Len(p.body[frame.CurFunction]), NEW x \in Value,
         Holds(p, p.body[frame.CurFunction][i], x)
  PROVE  /\ Good(p, SetValue(frame, i, x))
         /\ SetValue(frame, i, x).CurFunction = frame.CurFunction
         /\ SetValue(frame, i, x).CurInst = frame.CurInst
         /\ SetValue(frame, i, x).Caller = frame.Caller
BY Bodies DEF Good, Frame, SetValue

LEMMA Cleared ==
  ASSUME NEW p \in Program, NEW frame, Good(p, frame)
  PROVE  /\ Good(p, [frame EXCEPT !.Caller = NULL])
         /\ [frame EXCEPT !.Caller = NULL].CurFunction = frame.CurFunction
         /\ [frame EXCEPT !.Caller = NULL].CurInst = frame.CurInst
         /\ [frame EXCEPT !.Caller = NULL].Values = frame.Values
BY Bodies DEF Good, Frame, NULL

LEMMA Calling ==
  ASSUME NEW p \in Program, NEW frame, Good(p, frame),
         NEW i \in 1 .. Len(p.body[frame.CurFunction]),
         IsCall(p.body[frame.CurFunction][i])
  PROVE  /\ Good(p, [frame EXCEPT !.Caller = i])
         /\ [frame EXCEPT !.Caller = i].CurFunction = frame.CurFunction
         /\ [frame EXCEPT !.Caller = i].Values = frame.Values
         /\ [frame EXCEPT !.Caller = i].Caller = i
BY Bodies DEF Good, Frame

LEMMA Fresh ==
  ASSUME NEW p \in Program, NEW f \in Defined
  PROVE  Good(p, NewFrame(f)) /\ NewFrame(f).CurFunction = f
<1>1. NewFrame(f) \in Frame
  BY Bodies, Values DEF NewFrame, Frame, Uninitialised
<1>2. ASSUME NEW i \in 1 .. Len(p.body[f])
      PROVE  Holds(p, p.body[f][i], NewFrame(f).Values[i])
  BY Bodies, Values DEF NewFrame, Holds, Answers
<1> QED BY <1>1, <1>2, Bodies DEF Good, NewFrame, Uninitialised, NULL

-----------------------------------------------------------------------------
\* Stacks of frames.

\* The topmost frame replaced by another state of it.
LEMMA Replaced ==
  ASSUME NEW p \in Program, NEW frames, GoodStack(p, frames), frames # << >>,
         NEW frame, Good(p, frame),
         frame.CurFunction = frames[Len(frames)].CurFunction
  PROVE  /\ GoodStack(p, Append(SubSeq(frames, 1, Len(frames) - 1), frame))
         /\ Len(Append(SubSeq(frames, 1, Len(frames) - 1), frame)) = Len(frames)
         /\ Append(SubSeq(frames, 1, Len(frames) - 1), frame)[Len(frames)] = frame
         /\ Append(SubSeq(frames, 1, Len(frames) - 1), frame) # << >>
<1> DEFINE n == Len(frames)
           new == Append(SubSeq(frames, 1, n - 1), frame)
<1>1. frames \in Seq(Frame) /\ n \in Nat /\ n >= 1 /\ frame \in Frame
  BY DEF GoodStack, Good
<1>2. /\ new \in Seq(Frame) /\ new # << >> /\ Len(new) = n /\ new[n] = frame
      /\ \A d \in 1 .. n - 1 : new[d] = frames[d]
  BY <1>1, OtherTop
<1>3. \A d \in 1 .. n : Good(p, new[d])
  BY <1>1, <1>2 DEF GoodStack
<1>4. Chain(p, new)
  <2>1. ASSUME NEW d \in 1 .. n - 1
        PROVE  new[d] = frames[d] /\ new[d + 1].CurFunction = frames[d + 1].CurFunction
    BY <1>1, <1>2
  <2> HIDE DEF new
  <2> QED BY <1>2, <2>1 DEF Chain, GoodStack
<1> HIDE DEF new
<1>5. GoodStack(p, new)
  BY <1>2, <1>3, <1>4 DEF GoodStack
<1> QED BY <1>2, <1>5 DEF new

\* A frame put on top of one that waits for it.
LEMMA Pushed ==
  ASSUME NEW p \in Program, NEW frames, GoodStack(p, frames), NEW frame, Good(p, frame),
         MayNest \/ frames = << >> \/ Waits(p, frames[Len(frames)], frame.CurFunction)
  PROVE  /\ GoodStack(p, Append(frames, frame)) /\ Append(frames, frame) # << >>
         /\ Len(Append(frames, frame)) = Len(frames) + 1
         /\ Append(frames, frame)[Len(frames) + 1] = frame
<1> DEFINE n == Len(frames)
           new == Append(frames, frame)
<1>1. frames \in Seq(Frame) /\ n \in Nat /\ frame \in Frame
  BY DEF GoodStack, Good
<1>2. /\ new \in Seq(Frame) /\ Len(new) = n + 1 /\ new[n + 1] = frame
      /\ \A d \in 1 .. n : new[d] = frames[d]
  BY <1>1
<1> HIDE DEF new
<1>3. \A d \in 1 .. n + 1 : Good(p, new[d])
  BY <1>1, <1>2 DEF GoodStack
<1>4. ASSUME ~ MayNest, NEW d \in 1 .. n
      PROVE  Waits(p, new[d], new[d + 1].CurFunction)
  <2>1. CASE d = n
    BY <1>1, <1>2, <1>4, <2>1
  <2>2. CASE d < n
    BY <1>1, <1>2, <1>4, <2>2 DEF GoodStack, Chain
  <2> QED BY <1>1, <2>1, <2>2
<1>5. Chain(p, new)
  BY <1>1, <1>2, <1>4 DEF Chain
<1> QED BY <1>1, <1>2, <1>3, <1>5 DEF GoodStack, new

\* The stack without its topmost frame.
LEMMA Popped ==
  ASSUME NEW p \in Program, NEW frames, GoodStack(p, frames), frames # << >>
  PROVE  /\ GoodStack(p, SubSeq(frames, 1, Len(frames) - 1))
         /\ LET below == SubSeq(frames, 1, Len(frames) - 1)
            IN  MayNest \/ below = << >> \/
                Waits(p, below[Len(below)], frames[Len(frames)].CurFunction)
<1> DEFINE n == Len(frames)
           below == SubSeq(frames, 1, n - 1)
<1>1. frames \in Seq(Frame) /\ n \in Nat /\ n >= 1
  BY DEF GoodStack
<1>2. /\ below \in Seq(Frame) /\ Len(below) = n - 1
      /\ \A d \in 1 .. n - 1 : below[d] = frames[d]
  BY <1>1, Underneath
<1> HIDE DEF below
<1>3. Chain(p, below)
  BY <1>1, <1>2 DEF GoodStack, Chain
<1>4. MayNest \/ below = << >> \/ Waits(p, below[Len(below)], frames[n].CurFunction)
  <2>1. CASE n = 1
    BY <1>2, <2>1
  <2>2. CASE n > 1
    <3>1. n - 1 \in 1 .. n - 1 /\ (n - 1) + 1 = n
      BY <1>1, <2>2
    <3>2. below[Len(below)] = frames[n - 1]
      BY <1>2, <3>1
    <3>3. SUFFICES ASSUME ~ MayNest
                   PROVE  Waits(p, frames[n - 1], frames[n].CurFunction)
      BY <3>2
    <3>4. Waits(p, frames[n - 1], frames[(n - 1) + 1].CurFunction)
      BY <3>1, <3>3 DEF GoodStack, Chain
    <3> HIDE DEF n
    <3> QED BY <3>1, <3>4
  <2>3. n = 1 \/ n > 1
    <3> HIDE DEF n
    <3> QED BY <1>1
  <2> QED BY <2>1, <2>2, <2>3, Zenon
<1>5. GoodStack(p, below)
  BY <1>1, <1>2, <1>3 DEF GoodStack
<1> QED BY <1>4, <1>5 DEF below

\* popStackAndReturnValueToCaller, to a frame that waits for f or waits for
\* nothing.
LEMMA Returned ==
  ASSUME code \in Program, NEW frames, GoodStack(code, frames), ~ ReadsUninitialised(frames),
         NEW f \in Function,
         MayNest \/ frames = << >> \/ Waits(code, frames[Len(frames)], f)
  PROVE  LET new == popStackAndReturnValueToCaller(frames, Result(f))
         IN  /\ GoodStack(code, new) /\ Len(new) = Len(frames)
             /\ frames = << >> <=> new = << >>
<1>1. CASE frames = << >>
  BY <1>1 DEF popStackAndReturnValueToCaller
<1>2. CASE frames # << >>
  <2> DEFINE top == frames[Len(frames)]
             i == top.Caller
             c == code.body[top.CurFunction][i]
  <2>1. Good(code, top) /\ Len(frames) \in Nat /\ frames \in Seq(Frame)
    BY <1>2 DEF GoodStack
  <2>2. CASE i = NULL
    BY <1>2, <2>1, <2>2 DEF popStackAndReturnValueToCaller
  <2>3. CASE i # NULL
    <3>1. i \in 1 .. Len(code.body[top.CurFunction]) /\ IsCall(c) /\ top.CurFunction \in Defined
      <4> top.CurFunction \in Defined
        BY <2>1 DEF Good, Frame
      <4> QED BY <1>2, <2>1, <2>3, Bodies DEF Good, ReadsUninitialised, NULL, Uninitialised
    <3> DEFINE filled == IF c.op = "debug" THEN top ELSE SetValue(top, i, Result(f))
               new == [filled EXCEPT !.Caller = NULL]
    <3>2. popStackAndReturnValueToCaller(frames, Result(f))
            = Append(SubSeq(frames, 1, Len(frames) - 1), new)
      BY <1>2, <2>3 DEF popStackAndReturnValueToCaller, CodeAt
    <3>3. c.op # "debug" => Holds(code, c, Result(f))
      BY <1>2, <3>1 DEF Holds, Answers, IsCall, HasPointer, Waits
    <3>4. Good(code, filled) /\ filled.CurFunction = top.CurFunction
      <4>1. CASE c.op = "debug"
        BY <2>1, <4>1
      <4>2. CASE c.op # "debug"
        BY <2>1, <3>1, <3>3, <4>2, Filled, Values
      <4> QED BY <4>1, <4>2
    <3>5. Good(code, new) /\ new.CurFunction = top.CurFunction
      <4> HIDE DEF filled
      <4> QED BY <3>4, Cleared
    <3> HIDE DEF new
    <3> QED BY <1>2, <3>2, <3>5, Replaced
  <2> QED BY <2>2, <2>3
<1> QED BY <1>1, <1>2

-----------------------------------------------------------------------------
\* The frame that runs.

\* Values of loads, seen from either side of the address map.
LEMMA Resolved ==
  ASSUME NEW p, NEW x \in Loaded(p)
  PROVE  /\ vvptr2vptr(x) \in Loaded(p)
         /\ findFunctionByVPtr(vvptr2vptr(x)) \subseteq Defined
BY FunctionAssumption
DEF Loaded, Resolvable, Remains, Pointers, AddressOf, Null, NoCode, vvptr2vptr,
    findFunctionByVPtr

\* What StoreValueToMemory leaves in memory: of a translated pointer, of one that
\* memory held before, and of any.
LEMMA Stores ==
  ASSUME NEW p, NEW x \in Loaded(p)
  PROVE  /\ StoreValueToMemory(vptr2vvptr(x)) \in Kept(p)
         /\ x \in Kept(p) => StoreValueToMemory(x) \in Kept(p)
         /\ ~ Typed(p) => StoreValueToMemory(x) \in Kept(p)
<1>1. CASE Typed(p)
  BY <1>1, FunctionAssumption
  DEF Loaded, Kept, Resolvable, Pointers, AddressOf, Null, NoCode, vptr2vvptr, StoreValueToMemory
<1>2. CASE ~ Typed(p)
  BY <1>2, FunctionAssumption
  DEF Loaded, Kept, Resolvable, Remains, Pointers, AddressOf, Null, NoCode, vptr2vvptr,
      StoreValueToMemory
<1> QED BY <1>1, <1>2

LEMMA Top ==
  ASSUME IInv, ECStack # << >>
  PROVE  /\ Good(code, SF) /\ Len(ECStack) \in Nat /\ Len(ECStack) >= 1
         /\ SF.CurFunction \in Defined /\ SF.CurInst \in Nat
         /\ SF.CurInst \in 1 .. Len(code.body[SF.CurFunction])
         /\ I = code.body[SF.CurFunction][SF.CurInst] /\ I \in Instruction
<1>1. /\ GoodStack(code, ECStack) /\ code \in Program /\ ECStack \in Seq(Frame)
      /\ Len(ECStack) \in Nat /\ Len(ECStack) >= 1
  BY DEF IInv, GoodStack
<1>2. Good(code, SF)
  BY <1>1 DEF GoodStack, SF
<1>3. SF.CurFunction \in Defined /\ SF.CurInst \in 1 .. Len(code.body[SF.CurFunction])
  BY <1>2 DEF Good, Frame
<1>4. I = code.body[SF.CurFunction][SF.CurInst]
  BY DEF I, CodeAt
<1> QED BY <1>1, <1>2, <1>3, <1>4, Bodies, ElementOfSeq

\* The frame behind an instruction that does not return.
LEMMA PastGood ==
  ASSUME IInv, ECStack # << >>, I.op # "ret"
  PROVE  /\ Good(code, Past) /\ Past.CurFunction = SF.CurFunction
         /\ Past.CurInst = SF.CurInst + 1 /\ Past.Values = SF.Values
<1>1. code \in Program /\ Good(code, SF)
  BY Top DEF IInv
<1>2. SF.CurInst + 1 \in 1 .. Len(code.body[SF.CurFunction])
  BY <1>1, Top, NotLast
<1>3. SF \in Frame
  BY <1>1 DEF Good
<1> QED BY <1>1, <1>2, <1>3, Moved DEF Past, Frame

\* What an indirect call goes through, and what is cast or stored.
LEMMA Callee ==
  ASSUME NEW p \in Program, NEW frame, Good(p, frame),
         NEW i \in 1 .. Len(p.body[frame.CurFunction]),
         p.body[frame.CurFunction][i].op \in {"icall", "cast", "store"}
  PROVE  LET c == p.body[frame.CurFunction][i]
             source == p.body[frame.CurFunction][c.reg]
         IN  /\ c.reg \in 1 .. Len(p.body[frame.CurFunction]) /\ c.reg # i
             /\ HasPointer(source) /\ (c.op = "icall" => source.typed)
             /\ c.op = "store" /\ Typed(p) => source.typed \/ source.op = "load"
             /\ source.op = "load" /\ ~ source.typed => frame.Values[c.reg] \in Kept(p)
             /\ frame.Values[c.reg] \in Loaded(p)
<1> DEFINE body == p.body[frame.CurFunction]
           reg == body[i].reg
<1>1. frame.CurFunction \in Defined
  BY DEF Good, Frame
<1>2. WellFormed(body) /\ Len(body) \in Nat
  BY <1>1, Bodies
<1>3. /\ reg \in 1 .. i - 1 /\ HasPointer(body[reg])
      /\ body[i].op = "icall" => body[reg].typed
  BY <1>2 DEF WellFormed
<1>4. reg \in 1 .. Len(body) /\ reg # i
  BY <1>2, <1>3
<1>5. Holds(p, body[reg], frame.Values[reg])
  BY <1>4 DEF Good
<1>6. body[i].op = "store" /\ Typed(p) => body[reg].typed \/ body[reg].op = "load"
  BY <1>1 DEF Typed
<1> QED BY <1>3, <1>4, <1>5, <1>6 DEF Holds

LEMMA Through ==
  ASSUME IInv, ECStack # << >>, I.op \in {"icall", "cast", "store"}
  PROVE  LET source == code.body[SF.CurFunction][I.reg]
         IN  /\ I.reg \in 1 .. Len(code.body[SF.CurFunction])
             /\ HasPointer(source) /\ (I.op = "icall" => source.typed)
             /\ I.op = "store" /\ Typed(code) => source.typed \/ source.op = "load"
             /\ source.op = "load" /\ ~ source.typed => SF.Values[I.reg] \in Kept(code)
             /\ SF.Values[I.reg] \in Loaded(code)
<1> DEFINE i == SF.CurInst
<1>1. /\ code \in Program /\ Good(code, SF) /\ i \in 1 .. Len(code.body[SF.CurFunction])
      /\ code.body[SF.CurFunction][i] = I
  BY Top DEF IInv
<1> HIDE DEF i
<1>2. code.body[SF.CurFunction][i].op \in {"icall", "cast", "store"}
  BY <1>1
<1> QED BY <1>1, <1>2, Callee

\* The functions a call may call.
LEMMA Callees ==
  ASSUME IInv, ECStack # << >>, NEW f \in getFunctionWithPtr(SF, I)
  PROVE  /\ f \in Function /\ I.op \in {"call", "icall"} /\ IsCall(I)
         /\ I.op = "call" => I.fn = f
         /\ I.op = "icall" => f \in Defined
<1>1. I.op \in {"call", "icall"}
  BY DEF getFunctionWithPtr
<1>2. CASE I.op = "call"
  BY <1>2, Top DEF getFunctionWithPtr, Instruction, IsCall
<1>3. CASE I.op = "icall"
  <2>1. SF.Values[I.reg] \in Loaded(code)
    BY <1>3, Through
  <2>2. f \in findFunctionByVPtr(vvptr2vptr(SF.Values[I.reg]))
    BY <1>3 DEF getFunctionWithPtr, getOperandValue
  <2> QED BY <1>3, <2>1, <2>2, Resolved, FunctionAssumption DEF IsCall
<1> QED BY <1>1, <1>2, <1>3

\* visitCallBase's frame.
LEMMA CalledGood ==
  ASSUME IInv, ECStack # << >>, IsCall(I)
  PROVE  /\ Good(code, Called(I)) /\ Called(I).CurFunction = SF.CurFunction
         /\ Called(I).Caller = SF.CurInst /\ Called(I).CurInst = SF.CurInst + 1
         /\ \A i \in 1 .. Len(code.body[SF.CurFunction]) :
              Called(I).Values[i] = SF.Values[i] \/ HasPointer(code.body[SF.CurFunction][i])
<1>1. code \in Program /\ Good(code, SF)
  BY Top DEF IInv
<1>2. /\ Good(code, Past) /\ Past.CurFunction = SF.CurFunction /\ Past.Values = SF.Values
      /\ Past.CurInst = SF.CurInst + 1 /\ Past \in Frame
  BY PastGood DEF IsCall, Good
<1> DEFINE frame == [Past EXCEPT !.Caller = SF.CurInst]
           V == vvptr2vptr(getOperandValue(SF, I.reg))
<1>3. /\ Good(code, frame) /\ frame.CurFunction = SF.CurFunction /\ frame.Caller = SF.CurInst
      /\ frame.CurInst = SF.CurInst + 1 /\ frame.Values = SF.Values /\ frame \in Frame
  BY <1>1, <1>2, Top, Calling DEF Frame, Good
<1>4. CASE I.op = "icall"
  <2> HIDE DEF frame
  <2>1. /\ I.reg \in 1 .. Len(code.body[SF.CurFunction])
        /\ HasPointer(code.body[SF.CurFunction][I.reg]) /\ SF.Values[I.reg] \in Loaded(code)
        /\ code.body[SF.CurFunction][I.reg].typed
    BY <1>4, Through
  <2>2. V \in Loaded(code) /\ V \in Value
    BY <2>1, Resolved, Values DEF getOperandValue
  <2>3. Holds(code, code.body[SF.CurFunction][I.reg], V)
    <3> HIDE DEF V
    <3> QED BY <2>1, <2>2 DEF Holds, Answers, HasPointer
  <2>4. /\ Good(code, SetValue(frame, I.reg, V))
        /\ SetValue(frame, I.reg, V).CurFunction = SF.CurFunction
        /\ SetValue(frame, I.reg, V).Caller = SF.CurInst
        /\ SetValue(frame, I.reg, V).CurInst = SF.CurInst + 1
    <3> HIDE DEF V
    <3> QED BY <1>1, <1>3, <2>1, <2>2, <2>3, Filled
  <2>5. Called(I) = SetValue(frame, I.reg, V) \/ Called(I) = frame
    BY DEF Called, frame
  <2>6. ASSUME NEW i \in 1 .. Len(code.body[SF.CurFunction]), i # I.reg
        PROVE  SetValue(frame, I.reg, V).Values[i] = SF.Values[i]
    <3> HIDE DEF V
    <3> QED BY <1>3, <2>6, Top, Bodies DEF SetValue, Frame, Good, IInv
  <2> QED BY <1>3, <2>1, <2>4, <2>5, <2>6
<1>5. CASE I.op # "icall"
  BY <1>3, <1>5 DEF Called
<1> QED BY <1>4, <1>5

-----------------------------------------------------------------------------
\* The instructions.

LEMMA Executed ==
  ASSUME IInv, Executing
  PROVE  /\ ECStack # << >> /\ mode = "running" /\ code \in Program
         /\ runningInstruction' \in [fn : Defined, at : Nat]
         /\ runningInstruction'.fn = SF.CurFunction /\ runningInstruction'.at = SF.CurInst
BY Top DEF IInv, Executing

\* A step that goes on running.
LEMMA Running ==
  ASSUME IInv, Executing, GoodStack(code, ECStack'), ECStack' # << >>, mode' = "running",
         UNCHANGED <<Settings, ExitValue>>, memory' \in [Cell -> Kept(code)]
  PROVE  IInv'
BY Executed DEF IInv, Settings, StoppedAtCall, Stopped

LEMMA Continued ==
  ASSUME IInv, Executing, NEW frame, Good(code, frame),
         frame.CurFunction = SF.CurFunction, Continue(frame),
         UNCHANGED <<Settings, ExitValue>>, memory' \in [Cell -> Kept(code)]
  PROVE  IInv'
<1>1. GoodStack(code, ECStack) /\ ECStack # << >> /\ code \in Program
  BY Executed DEF IInv
<1>2. ECStack' = Append(SubSeq(ECStack, 1, Len(ECStack) - 1), frame) /\ mode' = "running"
  BY DEF Continue, Below
<1>3. GoodStack(code, ECStack') /\ ECStack' # << >>
  BY <1>1, <1>2, Replaced DEF SF
<1> QED BY <1>2, <1>3, Running

LEMMA StepVisitStop == IInv /\ VisitStop => IInv'
<1> SUFFICES ASSUME IInv, VisitStop PROVE IInv'
  OBVIOUS
<1>1. /\ GoodStack(code, ECStack) /\ ECStack # << >> /\ code \in Program
      /\ UNCHANGED <<Settings, memory, ExitValue>> /\ mode' = "idle"
  BY Executed DEF IInv, VisitStop
<1>2. PICK f \in getFunctionWithPtr(SF, I) : f \in stop
  BY DEF VisitStop
<1>3. IsCall(I) /\ I.op # "ret"
  BY <1>1, <1>2, Callees
<1>4. /\ Good(code, Past) /\ Past.CurFunction = SF.CurFunction
      /\ Past.CurInst = SF.CurInst + 1 /\ Past.Values = SF.Values
  BY <1>1, <1>3, PastGood
<1>5. /\ GoodStack(code, ECStack') /\ ECStack' # << >> /\ Len(ECStack') = Len(ECStack)
      /\ ECStack'[Len(ECStack)] = Past
  <2>1. ECStack' = Append(SubSeq(ECStack, 1, Len(ECStack) - 1), Past)
    BY DEF VisitStop, Below
  <2> QED BY <1>1, <1>4, <2>1, Replaced DEF SF
<1>6. /\ runningInstruction' \in [fn : Defined, at : Nat]
      /\ runningInstruction' = [fn |-> SF.CurFunction, at |-> SF.CurInst]
      /\ SF.CurInst \in Nat /\ SF.CurInst >= 1
  BY <1>1, Executed, Top DEF VisitStop, Executing
<1>7. SF' = Past
  BY <1>5 DEF SF
<1>8. StoppedAtCall'
  <2>1. runningInstruction' = [fn |-> SF'.CurFunction, at |-> SF'.CurInst - 1]
    BY <1>4, <1>6, <1>7
  <2>2. CodeAt(SF, SF.CurInst - 1)' = I
    <3>1. code' = code /\ Past.CurInst - 1 = SF.CurInst
      BY <1>1, <1>4, <1>6 DEF Settings
    <3>2. I = code.body[SF.CurFunction][SF.CurInst]
      BY <1>1, Top
    <3> QED BY <1>4, <1>7, <3>1, <3>2 DEF CodeAt
  <2>3. getFunctionWithPtr(Past, I) = getFunctionWithPtr(SF, I)
    BY <1>4 DEF getFunctionWithPtr, getOperandValue
  <2> QED BY <1>2, <1>3, <1>7, <2>1, <2>2, <2>3 DEF StoppedAtCall
<1> QED BY <1>1, <1>5, <1>6, <1>8 DEF IInv, Settings, Stopped

LEMMA StepVisitSkip == IInv /\ VisitSkip => IInv'
<1> SUFFICES ASSUME IInv, VisitSkip PROVE IInv'
  OBVIOUS
<1>1. Executing /\ ECStack # << >> /\ Continue(Past) /\ UNCHANGED <<Settings, ExitValue>>
  BY Executed DEF VisitSkip
<1>2. I.op # "ret"
  BY <1>1, Callees DEF VisitSkip
<1>3. memory' \in [Cell -> Kept(code)]
  BY DEF IInv, VisitSkip
<1> QED BY <1>1, <1>2, <1>3, PastGood, Continued

LEMMA StepVisitCall == IInv /\ VisitCall => IInv'
<1> SUFFICES ASSUME IInv, VisitCall PROVE IInv'
  OBVIOUS
<1>1. /\ Executing /\ ECStack # << >> /\ GoodStack(code, ECStack) /\ code \in Program
      /\ UNCHANGED <<Settings, ExitValue>> /\ mode' = "running" /\ IsCall(I)
      /\ memory' \in [Cell -> Kept(code)]
  BY Executed DEF IInv, VisitCall, Visits
<1>2. PICK f \in getFunctionWithPtr(SF, I) :
        ECStack' = callFunction(Append(Below, Called(I)), f)
  BY DEF VisitCall
<1>3. /\ f \in Function /\ I.op \in {"call", "icall"}
      /\ I.op = "call" => I.fn = f
      /\ I.op = "icall" => f \in Defined
  BY <1>1, <1>2, Callees
<1> DEFINE frames == Append(Below, Called(I))
<1>4. /\ Good(code, Called(I)) /\ Called(I).CurFunction = SF.CurFunction
      /\ Called(I).Caller = SF.CurInst /\ Called(I).CurInst = SF.CurInst + 1
  BY <1>1, CalledGood
<1>5. /\ GoodStack(code, frames) /\ frames # << >> /\ Len(frames) = Len(ECStack)
      /\ frames[Len(frames)] = Called(I)
  BY <1>1, <1>4, Replaced DEF Below, SF
<1>6. Waits(code, Called(I), f) /\ Called(I).Caller >= 1
  BY <1>1, <1>3, <1>4, Top DEF Waits
<1> HIDE DEF frames
<1>7. GoodStack(code, ECStack') /\ ECStack' # << >>
  <2>1. CASE f \in Defined
    <3>1. ECStack' = Append(frames, NewFrame(f))
      BY <1>2, <2>1 DEF callFunction, frames
    <3> QED BY <1>1, <1>5, <1>6, <2>1, <3>1, Fresh, Pushed
  <2>2. CASE f \notin Defined
    <3>1. ECStack' = popStackAndReturnValueToCaller(frames, Result(f))
      BY <1>2, <2>2 DEF callFunction, frames
    <3>2. ~ ReadsUninitialised(frames)
      BY <1>5, <1>6 DEF ReadsUninitialised, Uninitialised
    <3> QED BY <1>1, <1>3, <1>5, <1>6, <3>1, <3>2, Returned
  <2> QED BY <2>1, <2>2
<1> QED BY <1>1, <1>7, Running

LEMMA StepVisitNullCall == IInv /\ VisitNullCall => IInv'
<1> SUFFICES ASSUME IInv, VisitNullCall PROVE IInv'
  OBVIOUS
<1>1. /\ Executing /\ ECStack # << >> /\ UNCHANGED <<Settings, ExitValue>>
      /\ memory' \in [Cell -> Kept(code)] /\ I.op = "icall" /\ code \in Program
      /\ Continue(SetValue(Called(I), SF.CurInst, Zero))
  BY Executed DEF IInv, VisitNullCall
<1>2. Good(code, Called(I)) /\ Called(I).CurFunction = SF.CurFunction
  BY <1>1, CalledGood DEF IsCall
<1>3. Holds(code, I, Zero)
  BY <1>1 DEF Holds, Answers, HasPointer
<1>4. /\ Good(code, SetValue(Called(I), SF.CurInst, Zero))
      /\ SetValue(Called(I), SF.CurInst, Zero).CurFunction = SF.CurFunction
  BY <1>1, <1>2, <1>3, Top, Filled, Values
<1> QED BY <1>1, <1>4, Continued

LEMMA StepVisitIgnored == IInv /\ VisitIgnored => IInv'
<1> SUFFICES ASSUME IInv, VisitIgnored PROVE IInv'
  OBVIOUS
<1>1. /\ Executing /\ ECStack # << >> /\ UNCHANGED <<Settings, ExitValue>>
      /\ memory' \in [Cell -> Kept(code)] /\ IsCall(I) /\ Continue(Called(I))
  BY Executed DEF IInv, VisitIgnored, Visits
<1> QED BY <1>1, CalledGood, Continued

LEMMA StepVisitLoad == IInv /\ VisitLoad => IInv'
<1> SUFFICES ASSUME IInv, VisitLoad PROVE IInv'
  OBVIOUS
<1>1. /\ Executing /\ ECStack # << >> /\ UNCHANGED <<Settings, ExitValue, memory>>
      /\ memory \in [Cell -> Kept(code)] /\ I.op = "load" /\ code \in Program
      /\ Continue(SetValue(Past, SF.CurInst, memory[I.cell]))
  BY Executed DEF IInv, VisitLoad
<1>2. Good(code, Past) /\ Past.CurFunction = SF.CurFunction
  BY <1>1, PastGood
<1>3. I.cell \in Cell
  BY <1>1, Top DEF Instruction
<1>4. /\ memory[I.cell] \in Kept(code) /\ memory[I.cell] \in Loaded(code)
      /\ memory[I.cell] \in Value
  BY <1>1, <1>3, Values
<1>5. Holds(code, I, memory[I.cell])
  BY <1>1, <1>4 DEF Holds, Answers
<1>6. /\ Good(code, SetValue(Past, SF.CurInst, memory[I.cell]))
      /\ SetValue(Past, SF.CurInst, memory[I.cell]).CurFunction = SF.CurFunction
  BY <1>1, <1>2, <1>4, <1>5, Top, Filled
<1> QED BY <1>1, <1>6, Continued

LEMMA StepVisitCast == IInv /\ VisitCast => IInv'
<1> SUFFICES ASSUME IInv, VisitCast PROVE IInv'
  OBVIOUS
<1>1. /\ Executing /\ ECStack # << >> /\ UNCHANGED <<Settings, ExitValue>>
      /\ memory' \in [Cell -> Kept(code)] /\ I.op = "cast" /\ code \in Program
      /\ Continue(SetValue(Past, SF.CurInst, SF.Values[I.reg]))
  BY Executed DEF IInv, VisitCast, getOperandValue
<1>2. Good(code, Past) /\ Past.CurFunction = SF.CurFunction
  BY <1>1, PastGood
<1>3. SF.Values[I.reg] \in Loaded(code) /\ SF.Values[I.reg] \in Value
  BY <1>1, Through, Values
<1>4. Holds(code, I, SF.Values[I.reg])
  BY <1>1, <1>3 DEF Holds, Answers
<1>5. /\ Good(code, SetValue(Past, SF.CurInst, SF.Values[I.reg]))
      /\ SetValue(Past, SF.CurInst, SF.Values[I.reg]).CurFunction = SF.CurFunction
  BY <1>1, <1>2, <1>3, <1>4, Top, Filled
<1> QED BY <1>1, <1>5, Continued

LEMMA StepVisitStore == IInv /\ VisitStore => IInv'
<1> SUFFICES ASSUME IInv, VisitStore PROVE IInv'
  OBVIOUS
<1>1. /\ Executing /\ ECStack # << >> /\ UNCHANGED <<Settings, ExitValue>>
      /\ memory \in [Cell -> Kept(code)] /\ I.op \in {"store", "storefn"}
      /\ Continue(Past) /\ code \in Program
      /\ memory' = [memory EXCEPT ![I.cell] = StoreValueToMemory(Stored(SF, I))]
  BY Executed DEF IInv, VisitStore
<1>2. StoreValueToMemory(Stored(SF, I)) \in Kept(code)
  <2>1. CASE I.op = "storefn"
    <3>1. Stored(SF, I) = AddressOf(I.fn) /\ I.fn \in Function
      BY <1>1, <2>1, Top DEF Instruction, Stored
    <3>2. StoreValueToMemory(AddressOf(I.fn)) = AddressOf(I.fn)
      BY DEF StoreValueToMemory, AddressOf
    <3> QED BY <3>1, <3>2, Values
  <2>2. CASE I.op = "store"
    <3> DEFINE x == SF.Values[I.reg]
               source == code.body[SF.CurFunction][I.reg]
    <3>1. /\ x \in Loaded(code) /\ (Typed(code) => source.typed \/ source.op = "load")
          /\ source.op = "load" /\ ~ source.typed => x \in Kept(code)
      BY <1>1, <2>2, Through
    <3>2. Stored(SF, I) = IF source.typed THEN vptr2vvptr(x) ELSE x
      BY <2>2 DEF Stored, getOperandValue, CodeAt
    <3> HIDE DEF x, source
    <3> QED BY <3>1, <3>2, Stores
  <2> QED BY <1>1, <2>1, <2>2
<1>3. memory' \in [Cell -> Kept(code)]
  BY <1>1, <1>2
<1> QED BY <1>1, <1>3, PastGood, Continued

LEMMA StepVisitBranch == IInv /\ VisitBranch => IInv'
<1> SUFFICES ASSUME IInv, VisitBranch PROVE IInv'
  OBVIOUS
<1>1. /\ Executing /\ ECStack # << >> /\ UNCHANGED <<Settings, ExitValue>>
      /\ memory' \in [Cell -> Kept(code)] /\ I.op = "br" /\ code \in Program
  BY Executed DEF IInv, VisitBranch
<1>2. PICK i \in I.to : Continue([SF EXCEPT !.CurInst = i])
  BY DEF VisitBranch
<1>3. i \in 1 .. Len(code.body[SF.CurFunction])
  BY <1>1, Top, Bodies DEF WellFormed
<1>4. /\ Good(code, [SF EXCEPT !.CurInst = i])
      /\ [SF EXCEPT !.CurInst = i].CurFunction = SF.CurFunction
  BY <1>1, <1>3, Top, Moved
<1> QED BY <1>1, <1>2, <1>4, Continued

LEMMA StepVisitRet == IInv /\ VisitRet => IInv'
<1> SUFFICES ASSUME IInv, VisitRet PROVE IInv'
  OBVIOUS
<1>1. /\ Executing /\ ECStack # << >> /\ UNCHANGED <<Settings, memory>>
      /\ GoodStack(code, ECStack) /\ code \in Program
      /\ runningInstruction' \in [fn : Defined, at : Nat]
  BY Executed DEF IInv, VisitRet
<1>2. CASE ReadsUninitialised(Below)
  BY <1>1, <1>2 DEF VisitRet, IInv, Settings, StoppedAtCall, Stopped
<1>3. CASE ~ ReadsUninitialised(Below)
  <2> DEFINE f == SF.CurFunction
  <2>1. f \in Function /\ Result(f) \in Value
    BY <1>1, Top, Values, FunctionAssumption
  <2>2. /\ ECStack' = popStackAndReturnValueToCaller(Below, Result(f))
        /\ ExitValue' = IF Below = << >> THEN Result(f) ELSE ExitValue
        /\ mode' = IF Below = << >> THEN "idle" ELSE "running"
    BY <1>3 DEF VisitRet
  <2>3. GoodStack(code, Below) /\ (MayNest \/ Below = << >> \/ Waits(code, Below[Len(Below)], f))
    BY <1>1, Popped DEF Below, SF
  <2>4. GoodStack(code, ECStack') /\ (Below = << >> <=> ECStack' = << >>)
    BY <1>1, <1>3, <2>1, <2>2, <2>3, Returned
  <2>5. ExitValue' \in Value
    BY <2>1, <2>2 DEF IInv
  <2>6. /\ mode' \in {"idle", "running"} /\ (mode' = "running" => ECStack' # << >>)
        /\ ~ Stopped'
    BY <2>2, <2>4 DEF Stopped
  <2> HIDE DEF f
  <2> QED BY <1>1, <2>4, <2>5, <2>6 DEF IInv, Settings, StoppedAtCall
<1> QED BY <1>2, <1>3

-----------------------------------------------------------------------------
\* The user's commands.

LEMMA StepRunFunction == IInv /\ RunFunction => IInv'
<1> SUFFICES ASSUME IInv, RunFunction PROVE IInv'
  OBVIOUS
<1>1. /\ GoodStack(code, ECStack) /\ code \in Program /\ UNCHANGED <<code, stop, skip>>
      /\ UNCHANGED <<runningInstruction, memory>> /\ (MayNest \/ ECStack = << >>)
  BY DEF IInv, RunFunction, Settings
<1>2. PICK f \in Function :
        \/ mode' = "undefined" /\ UNCHANGED <<ECStack, ExitValue>>
        \/ /\ ~ (f \notin Defined /\ ReadsUninitialised(ECStack))
           /\ ECStack' = callFunction(ECStack, f)
           /\ ExitValue' = IF ECStack' = << >> THEN Result(f) ELSE ExitValue
           /\ mode' = IF ECStack' = << >> THEN "idle" ELSE "running"
  BY DEF RunFunction
<1>3. CASE mode' = "undefined" /\ UNCHANGED <<ECStack, ExitValue>>
  BY <1>1, <1>3 DEF IInv, StoppedAtCall, Stopped
<1>4. CASE /\ ~ (f \notin Defined /\ ReadsUninitialised(ECStack))
           /\ ECStack' = callFunction(ECStack, f)
           /\ ExitValue' = IF ECStack' = << >> THEN Result(f) ELSE ExitValue
           /\ mode' = IF ECStack' = << >> THEN "idle" ELSE "running"
  <2>1. GoodStack(code, ECStack')
    <3>1. CASE f \in Defined
      BY <1>1, <1>4, <3>1, Fresh, Pushed DEF callFunction
    <3>2. CASE f \notin Defined
      BY <1>1, <1>4, <3>2, Returned DEF callFunction
    <3> QED BY <3>1, <3>2
  <2>2. ExitValue' \in Value
    BY <1>4, Values DEF IInv
  <2>3. /\ mode' \in {"idle", "running"} /\ (mode' = "running" => ECStack' # << >>)
        /\ ~ Stopped'
    BY <1>4 DEF Stopped
  <2> QED BY <1>1, <2>1, <2>2, <2>3 DEF IInv, StoppedAtCall
<1> QED BY <1>2, <1>3, <1>4

\* putReturnValue fills the register of the call the program is stopped at.
LEMMA StepPutReturnValue == IInv /\ putReturnValue => IInv'
<1> SUFFICES ASSUME IInv, putReturnValue PROVE IInv'
  OBVIOUS
<1>1. /\ Stopped /\ ECStack # << >> /\ GoodStack(code, ECStack) /\ code \in Program
      /\ UNCHANGED <<code, stop, skip, runningInstruction, memory, ExitValue, mode>>
  BY DEF IInv, putReturnValue, Stopped, Settings
<1> DEFINE at == runningInstruction.at
           body == code.body[SF.CurFunction]
           frame == SetValue(SF, at, Python)
<1>2. /\ Good(code, SF) /\ SF.CurFunction \in Defined
      /\ SF.CurInst \in 1 .. Len(body) /\ Len(body) \in Nat
  BY <1>1, Top, Bodies
<1>3. /\ runningInstruction = [fn |-> SF.CurFunction, at |-> SF.CurInst - 1] /\ at >= 1
      /\ IsCall(CodeAt(SF, SF.CurInst - 1))
      /\ getFunctionWithPtr(SF, CodeAt(SF, SF.CurInst - 1)) # {}
  BY <1>1 DEF IInv, StoppedAtCall
<1>4. at = SF.CurInst - 1 /\ at \in 1 .. Len(body) /\ CodeAt(SF, SF.CurInst - 1) = body[at]
  BY <1>2, <1>3 DEF CodeAt
<1>5. body[at].op \in {"call", "icall"}
  BY <1>3, <1>4 DEF getFunctionWithPtr
<1>6. Holds(code, body[at], Python)
  BY <1>5 DEF Holds, Answers, HasPointer
<1>7. /\ Good(code, frame) /\ frame.CurFunction = SF.CurFunction
      /\ frame.CurInst = SF.CurInst
  BY <1>1, <1>2, <1>4, <1>6, Filled, Values
<1>8. /\ GoodStack(code, ECStack') /\ ECStack' # << >> /\ Len(ECStack') = Len(ECStack)
      /\ ECStack'[Len(ECStack)] = frame
  <2>1. ECStack' = Append(SubSeq(ECStack, 1, Len(ECStack) - 1), frame)
    BY DEF putReturnValue, Below
  <2> DEFINE new == Append(SubSeq(ECStack, 1, Len(ECStack) - 1), frame)
  <2> HIDE DEF frame
  <2>2. code \in Program /\ GoodStack(code, ECStack) /\ ECStack # << >>
        /\ frame.CurFunction = ECStack[Len(ECStack)].CurFunction
    BY <1>1, <1>7 DEF SF
  <2>3. /\ GoodStack(code, new) /\ new # << >> /\ Len(new) = Len(ECStack)
        /\ new[Len(ECStack)] = frame
    BY <1>7, <2>2, Replaced
  <2> HIDE DEF new
  <2>4. ECStack' = new
    BY <2>1 DEF new
  <2> QED BY <2>3, <2>4
<1>9. SF' = frame
  BY <1>8 DEF SF
<1>10. getFunctionWithPtr(frame, body[at]) = getFunctionWithPtr(SF, body[at])
  <2>1. CASE body[at].op = "icall"
    <3>1. body[at].reg # at
      <4>1. /\ code \in Program /\ Good(code, SF) /\ at \in 1 .. Len(code.body[SF.CurFunction])
            /\ code.body[SF.CurFunction][at].op \in {"icall", "cast", "store"}
        BY <1>1, <1>2, <1>4, <2>1
      <4> HIDE DEF at
      <4> QED BY <4>1, Callee
    <3>2. frame.Values[body[at].reg] = SF.Values[body[at].reg]
      BY <1>2, <3>1 DEF Good, Frame, SetValue
    <3> HIDE DEF frame
    <3> QED BY <2>1, <3>2 DEF getFunctionWithPtr, getOperandValue
  <2>2. CASE body[at].op = "call"
    BY <2>2 DEF getFunctionWithPtr
  <2> QED BY <1>5, <2>1, <2>2
<1> HIDE DEF frame
<1>11. CodeAt(SF, SF.CurInst - 1)' = body[at]
  BY <1>1, <1>4, <1>7, <1>9 DEF CodeAt
<1>12. StoppedAtCall'
  BY <1>1, <1>3, <1>4, <1>7, <1>9, <1>10, <1>11 DEF StoppedAtCall
<1> QED BY <1>1, <1>8, <1>12 DEF IInv, Stopped

\* Commands that leave the stack alone.
LEMMA StepCommand ==
  ASSUME IInv, Resume \/ SetStop \/ SetSkip \/ WriteMemory
  PROVE  IInv'
<1>1. CASE Resume
  BY <1>1 DEF IInv, Resume, Settings, Stopped, StoppedAtCall
<1>2. CASE SetStop
  <2>1. StoppedAtCall' /\ (Stopped => runningInstruction.at >= 1)'
    BY <1>2 DEF IInv, SetStop, StoppedAtCall, Stopped, SF, CodeAt
  <2> QED BY <1>2, <2>1, FlowAssumption DEF IInv, SetStop
<1>3. CASE SetSkip
  <2>1. StoppedAtCall' /\ (Stopped => runningInstruction.at >= 1)'
    BY <1>3 DEF IInv, SetSkip, StoppedAtCall, Stopped, SF, CodeAt
  <2> QED BY <1>3, <2>1, FlowAssumption DEF IInv, SetSkip
<1>4. CASE WriteMemory
  <2>1. StoppedAtCall' /\ (Stopped => runningInstruction.at >= 1)'
    BY <1>4 DEF IInv, WriteMemory, Settings, StoppedAtCall, Stopped, SF, CodeAt
  <2>2. memory' \in [Cell -> Kept(code)]
    BY <1>4, FlowAssumption, Values DEF IInv, WriteMemory
  <2> QED BY <1>4, <2>1, <2>2 DEF IInv, WriteMemory, Settings
<1> QED BY <1>1, <1>2, <1>3, <1>4

LEMMA Empty == ASSUME NEW p PROVE GoodStack(p, << >>)
BY DEF GoodStack, Chain

LEMMA StepReset == IInv /\ Reset => IInv'
<1> SUFFICES ASSUME IInv, Reset PROVE IInv'
  OBVIOUS
<1>1. /\ ECStack' = << >> /\ UNCHANGED <<code, stop, skip, runningInstruction, mode>>
      /\ mode = "idle" /\ ExitValue' \in Value /\ code \in Program
  BY Values DEF IInv, Reset, Settings
<1>2. memory' \in [Cell -> Kept(code)]
  BY ProgramAssumption, Values DEF IInv, Reset
<1> QED BY <1>1, <1>2, Empty DEF IInv, StoppedAtCall, Stopped

LEMMA Started == Init => IInv
<1> SUFFICES ASSUME Init PROVE IInv
  OBVIOUS
<1>1. memory \in [Cell -> Kept(code)]
  BY ProgramAssumption, Values DEF Init
<1> QED BY <1>1, Empty, Values DEF Init, IInv, StoppedAtCall, Stopped

LEMMA Stepped == IInv /\ [Next]_vars => IInv'
<1> SUFFICES ASSUME IInv, [Next]_vars PROVE IInv'
  OBVIOUS
<1>1. CASE Next
  BY <1>1, StepVisitStop, StepVisitSkip, StepVisitCall, StepVisitNullCall, StepVisitIgnored,
     StepVisitLoad, StepVisitCast, StepVisitStore, StepVisitBranch, StepVisitRet, StepRunFunction,
     StepPutReturnValue, StepCommand, StepReset DEF Next
<1>2. CASE UNCHANGED vars
  BY <1>2 DEF vars, IInv, StoppedAtCall, Stopped, SF, CodeAt
<1> QED BY <1>1, <1>2

\* The invariant the theorems below rest on.
THEOREM Inductive == Spec => []IInv
BY Started, Stepped, PTL DEF Spec

-----------------------------------------------------------------------------
\* Each frame stands in the body of its function, and run() is active only
\* while there is a frame (ExecutionContext, MyInterpreter::run).
THEOREM TypeCorrect == Spec => []TypeOK
<1>1. IInv => TypeOK
  <2> SUFFICES ASSUME IInv PROVE TypeOK
    OBVIOUS
  <2>1. /\ ECStack \in Seq(Frame)
        /\ \A d \in 1 .. Len(ECStack) :
             LET size == Len(code.body[ECStack[d].CurFunction])
             IN  /\ ECStack[d].CurInst \in 1 .. size
                 /\ ECStack[d].Caller \in {Uninitialised, NULL} \cup 1 .. size
    BY DEF IInv, GoodStack, Good
  <2>2. memory \in [Cell -> Value]
    BY Values DEF IInv
  <2> QED BY <2>1, <2>2 DEF IInv, TypeOK
<1> QED BY <1>1, Inductive, PTL

\* Whenever the user has control of a stopped program, it stands right behind
\* a call of a known function that has not been made, and that call is the
\* running instruction: putReturnValue fills in the right one.
THEOREM StopsAtCall == Spec => []StoppedAtCall
<1>1. IInv => StoppedAtCall
  BY DEF IInv
<1> QED BY <1>1, Inductive, PTL

\* In a program that stores typed pointers to functions, or pointers as it loaded
\* them, no host address gets into memory, whatever is called through, cast and
\* stored (visitStoreInst, visitCallBase).
THEOREM MemoryIsAddresses == Spec => []MemoryHoldsAddresses
<1>1. IInv => MemoryHoldsAddresses
  <2>1. TypedStores => Typed(code)
    BY DEF TypedStores, Typed
  <2> QED BY <2>1 DEF IInv, MemoryHoldsAddresses, Kept
<1> QED BY <1>1, Inductive, PTL

\* A call's value is that of the function it calls, as long as the user runs no
\* function while another is stopped (popStackAndReturnValueToCaller).
THEOREM ResultsReachCalls == ASSUME ~ MayNest PROVE Spec => []ResultsFromCallee
<1>1. IInv => ResultsFromCallee
  <2> SUFFICES ASSUME IInv,
                      NEW d \in 1 .. Len(ECStack),
                      NEW i \in 1 .. Len(code.body[ECStack[d].CurFunction])
               PROVE  Answers(CodeAt(ECStack[d], i), ECStack[d].Values[i])
    BY DEF ResultsFromCallee, Answers
  <2>1. Good(code, ECStack[d])
    BY DEF IInv, GoodStack
  <2> QED BY <2>1 DEF Good, Holds, CodeAt
<1> QED BY <1>1, Inductive, PTL

-----------------------------------------------------------------------------
\* What a call means is what the interpreter finds, also in a register that
\* holds a host address or a copy of one.
LEMMA TargetFound ==
  ASSUME IInv, ECStack # << >>, Target(I) \in Defined
  PROVE  /\ I.op \in {"call", "icall"} /\ getFunctionWithPtr(SF, I) = {Target(I)}
         /\ I.op = "icall" => getOperandValue(SF, I.reg).kind # "null"
<1>1. I.op \in {"call", "icall"}
  BY FunctionAssumption DEF Target
<1>2. CASE I.op = "call"
  BY <1>2 DEF Target, getFunctionWithPtr
<1>3. CASE I.op = "icall"
  <2> DEFINE x == getOperandValue(SF, I.reg)
  <2>1. x \in Remains
    BY <1>3, Through DEF getOperandValue, Loaded, Remains
  <2>2. x.of \in Defined /\ x.kind # "cut"
    BY <1>3, FunctionAssumption DEF Target
  <2>3. x.kind # "null" /\ findFunctionByVPtr(vvptr2vptr(x)) = {x.of}
    <3> HIDE DEF x
    <3> QED BY <2>1, <2>2, FunctionAssumption
        DEF Remains, Resolvable, Pointers, AddressOf, Null, NoCode, findFunctionByVPtr,
            vvptr2vptr
  <2> QED BY <1>3, <2>2, <2>3 DEF Target, getFunctionWithPtr
<1> QED BY <1>1, <1>2, <1>3

\* A call to a function that has a body stops, is passed by, or enters that
\* function, as the lists say (MyInterpreter::run, getFunctionWithPtr,
\* visitCallBase).
THEOREM CallsReach == Spec => CallsReachTarget
<1> DEFINE Reach ==
      mode = "running" /\ Target(I) \in Defined =>
        \/ Target(I) \in stop /\ mode' = "idle" /\ Len(ECStack') = Len(ECStack)
        \/ Target(I) \in skip \ stop /\ mode' = "running" /\ SF' = Past
        \/ /\ Target(I) \notin stop \cup skip
           /\ SF' = NewFrame(Target(I)) /\ Len(ECStack') = Len(ECStack) + 1
<1>1. IInv /\ [Next]_vars => [Reach]_vars
  <2> SUFFICES ASSUME IInv, Next, mode = "running", Target(I) \in Defined
               PROVE  Reach
    OBVIOUS
  <2>1. /\ ECStack # << >> /\ GoodStack(code, ECStack) /\ code \in Program
        /\ getFunctionWithPtr(SF, I) = {Target(I)} /\ I.op \in {"call", "icall"}
        /\ I.op = "icall" => getOperandValue(SF, I.reg).kind # "null"
        /\ IsCall(I) /\ I.op # "ret"
    BY TargetFound DEF IInv, IsCall
  <2>2. Good(code, Past) /\ Past.CurFunction = SF.CurFunction
    BY <2>1, PastGood
  <2>3. ASSUME ECStack' = Append(Below, Past)
        PROVE  Len(ECStack') = Len(ECStack) /\ SF' = Past
    BY <2>1, <2>2, <2>3, Replaced DEF Below, SF
  <2>4. CASE VisitStop
    BY <2>1, <2>3, <2>4 DEF VisitStop
  <2>5. CASE VisitSkip
    BY <2>1, <2>3, <2>5 DEF VisitSkip, Continue
  <2>6. CASE VisitCall
    <3>1. ECStack' = Append(Append(Below, Called(I)), NewFrame(Target(I)))
      BY <2>1, <2>6 DEF VisitCall, callFunction
    <3>2. Good(code, Called(I)) /\ Called(I).CurFunction = SF.CurFunction
      BY <2>1, CalledGood
    <3>3. /\ Append(Below, Called(I)) \in Seq(Frame)
          /\ Len(Append(Below, Called(I))) = Len(ECStack)
      BY <2>1, <3>2, Replaced DEF Below, SF, GoodStack
    <3>4. NewFrame(Target(I)) \in Frame
      BY <2>1, Fresh DEF Good
    <3>5. SF' = NewFrame(Target(I)) /\ Len(ECStack') = Len(ECStack) + 1
      BY <3>1, <3>3, <3>4, AppendProperties DEF SF
    <3> QED BY <2>1, <2>6, <3>5 DEF VisitCall, Visits
  <2>7. CASE \/ VisitNullCall \/ VisitIgnored \/ VisitLoad \/ VisitCast
             \/ VisitStore \/ VisitBranch \/ VisitRet
    BY <2>1, <2>7
    DEF VisitNullCall, VisitIgnored, VisitLoad, VisitCast, VisitStore, VisitBranch,
        VisitRet
  <2>8. CASE \/ RunFunction \/ Resume \/ SetStop \/ SetSkip
             \/ putReturnValue \/ WriteMemory \/ Reset
    BY <2>8 DEF RunFunction, Resume, SetStop, SetSkip, putReturnValue, WriteMemory, Reset, Stopped
  <2> QED BY <2>4, <2>5, <2>6, <2>7, <2>8 DEF Next
<1> QED BY <1>1, Inductive, PTL DEF Spec, CallsReachTarget

-----------------------------------------------------------------------------
\* The stack of the abstract machine.  View and Seen are Abstract and the
\* mapped stack for any program and stack.

View(p, frame) ==
  LET body == p.body[frame.CurFunction]
  IN  [fn |-> frame.CurFunction, at |-> frame.CurInst,
       got |-> [r \in Register |->
                  IF r \in 1 .. Len(body) /\ IsCall(body[r]) THEN frame.Values[r] ELSE Null]]

Seen(p, frames) == [d \in 1 .. Len(frames) |-> View(p, frames[d])]

Mapped == Seen(code, ECStack)

LEMMA MappedStack ==
  /\ [d \in 1 .. Len(ECStack) |-> Abstract(ECStack[d])] = Mapped
  /\ [d \in 1 .. Len(ECStack) |-> Abstract(ECStack[d])]' = Mapped'
BY DEF Mapped, Seen, View, Abstract, CodeAt

Views(p) == {View(p, frame) : frame \in Frame}

LEMMA SeenStack ==
  ASSUME NEW p, NEW frames \in Seq(Frame)
  PROVE  /\ Seen(p, frames) \in Seq(Views(p))
         /\ Len(Seen(p, frames)) = Len(frames) /\ Len(frames) \in Nat
         /\ \A d \in 1 .. Len(frames) : Seen(p, frames)[d] = View(p, frames[d])
         /\ Seen(p, frames) = << >> <=> frames = << >>
<1> DEFINE S == Views(p)
<1>1. Len(frames) \in Nat /\ \A d \in 1 .. Len(frames) : frames[d] \in Frame
  OBVIOUS
<1>2. \A d \in 1 .. Len(frames) : View(p, frames[d]) \in S
  BY <1>1 DEF Views
<1> HIDE DEF S
<1>3. Seen(p, frames) \in Seq(S) /\ Len(Seen(p, frames)) = Len(frames)
  BY <1>1, <1>2 DEF Seen
<1>4. \A d \in 1 .. Len(frames) : Seen(p, frames)[d] = View(p, frames[d])
  BY DEF Seen
<1>5. Seen(p, frames) = << >> <=> frames = << >>
  BY <1>1, <1>3
<1> QED BY <1>1, <1>3, <1>4, <1>5 DEF S

LEMMA SeenAppend ==
  ASSUME NEW p, NEW frames \in Seq(Frame), NEW frame \in Frame
  PROVE  Seen(p, Append(frames, frame)) = Append(Seen(p, frames), View(p, frame))
<1> DEFINE S == Views(p)
           new == Append(frames, frame)
           one == Seen(p, frames)
           two == Append(one, View(p, frame))
<1>1. /\ new \in Seq(Frame) /\ Len(new) = Len(frames) + 1 /\ new[Len(frames) + 1] = frame
      /\ \A d \in 1 .. Len(frames) : new[d] = frames[d]
  OBVIOUS
<1>2. View(p, frame) \in S
  BY DEF Views
<1>3. /\ one \in Seq(S) /\ Len(one) = Len(frames) /\ Len(frames) \in Nat
      /\ \A d \in 1 .. Len(frames) : one[d] = View(p, frames[d])
  BY SeenStack
<1> HIDE DEF S, one, new
<1>4. /\ two \in Seq(S) /\ Len(two) = Len(frames) + 1 /\ two[Len(frames) + 1] = View(p, frame)
      /\ \A d \in 1 .. Len(frames) : two[d] = View(p, frames[d])
  BY <1>2, <1>3, AppendProperties
<1>5. /\ Seen(p, new) \in Seq(S) /\ Len(Seen(p, new)) = Len(frames) + 1
      /\ \A d \in 1 .. Len(frames) + 1 : Seen(p, new)[d] = View(p, new[d])
  BY <1>1, SeenStack DEF S
<1> HIDE DEF two
<1>6. \A d \in 1 .. Len(frames) + 1 : Seen(p, new)[d] = two[d]
  BY <1>1, <1>3, <1>4, <1>5
<1>7. Seen(p, new) = two
  BY <1>4, <1>5, <1>6, SeqEqual
<1> QED BY <1>7 DEF new, two, one

LEMMA SeenBelow ==
  ASSUME NEW p, NEW frames \in Seq(Frame), frames # << >>
  PROVE  Seen(p, SubSeq(frames, 1, Len(frames) - 1))
           = SubSeq(Seen(p, frames), 1, Len(Seen(p, frames)) - 1)
<1> DEFINE S == Views(p)
           n == Len(frames)
           below == SubSeq(frames, 1, n - 1)
           one == Seen(p, frames)
           two == SubSeq(one, 1, Len(one) - 1)
<1>1. /\ n \in Nat /\ n >= 1 /\ below \in Seq(Frame) /\ Len(below) = n - 1
      /\ \A d \in 1 .. n - 1 : below[d] = frames[d]
  BY Underneath
<1>2. /\ one \in Seq(S) /\ one # << >> /\ Len(one) = n
      /\ \A d \in 1 .. n : one[d] = View(p, frames[d])
  BY SeenStack
<1> HIDE DEF S, one, below, n
<1>3. /\ two \in Seq(S) /\ Len(two) = n - 1
      /\ \A d \in 1 .. n - 1 : two[d] = one[d]
  <2>1. /\ two \in Seq(S) /\ Len(two) = Len(one) - 1
        /\ \A d \in 1 .. Len(one) - 1 : two[d] = one[d]
    BY <1>2, Underneath
  <2> HIDE DEF two
  <2> QED BY <1>2, <2>1
<1>4. /\ Seen(p, below) \in Seq(S) /\ Len(Seen(p, below)) = n - 1
      /\ \A d \in 1 .. n - 1 : Seen(p, below)[d] = View(p, below[d])
  BY <1>1, SeenStack DEF S
<1> HIDE DEF two
<1>5. \A d \in 1 .. n - 1 : Seen(p, below)[d] = two[d]
  BY <1>1, <1>2, <1>3, <1>4
<1>6. Seen(p, below) = two
  BY <1>3, <1>4, <1>5, SeqEqual
<1> QED BY <1>6 DEF below, two, one, n

LEMMA ViewParts ==
  ASSUME NEW p, NEW frame
  PROVE  View(p, frame) = [fn |-> frame.CurFunction, at |-> frame.CurInst,
                           got |-> View(p, frame).got]
BY DEF View

\* Frames that differ in nothing the abstract machine sees but the place.
LEMMA ViewMoved ==
  ASSUME NEW p \in Program, NEW frame \in Frame, NEW new \in Frame,
         new.CurFunction = frame.CurFunction,
         \A r \in 1 .. Len(p.body[frame.CurFunction]) :
           IsCall(p.body[frame.CurFunction][r]) => new.Values[r] = frame.Values[r]
  PROVE  View(p, new) = [View(p, frame) EXCEPT !.at = new.CurInst]
<1>1. View(p, new).got = View(p, frame).got
  BY DEF View
<1> QED BY <1>1, ViewParts

LEMMA ViewGot ==
  ASSUME NEW p \in Program, NEW frame \in Frame, NEW x,
         NEW i \in 1 .. Len(p.body[frame.CurFunction]),
         IsCall(p.body[frame.CurFunction][i])
  PROVE  /\ i \in Register
         /\ View(p, SetValue(frame, i, x)) = [View(p, frame) EXCEPT !.got[i] = x]
<1> DEFINE new == SetValue(frame, i, x)
           body == p.body[frame.CurFunction]
<1>1. 1 .. Len(body) \subseteq Register
  BY Bodies DEF Frame
<1>2. /\ new.CurFunction = frame.CurFunction /\ new.CurInst = frame.CurInst
      /\ new.Values = [frame.Values EXCEPT ![i] = x]
  BY DEF SetValue, Frame
<1>3. frame.Values \in [Register -> Value]
  BY DEF Frame
<1> HIDE DEF new
<1>4. View(p, new).got = [View(p, frame).got EXCEPT ![i] = x]
  BY <1>1, <1>2, <1>3 DEF View
<1>5. View(p, new) = [View(p, frame) EXCEPT !.got[i] = x]
  BY <1>2, <1>4, ViewParts
<1> QED BY <1>1, <1>5 DEF new

-----------------------------------------------------------------------------
\* Steps of the abstract machine.

UnderMapped == SubSeq(Mapped, 1, Len(Mapped) - 1)
TopMapped == Mapped[Len(Mapped)]

LEMMA AsMove ==
  ASSUME Mapped # << >>, NEW i \in Register,
         Mapped' = Append(UnderMapped, [TopMapped EXCEPT !.at = i])
  PROVE  Machine!Next
BY MappedStack DEF Machine!Next, Machine!Move, Machine!Become, Machine!Below,
   Machine!Innermost, UnderMapped, TopMapped

LEMMA AsResolve ==
  ASSUME Mapped # << >>, NEW x \in Value,
         Mapped' = Append(UnderMapped, [[TopMapped EXCEPT !.at = @ + 1]
                                          EXCEPT !.got[TopMapped.at] = x])
  PROVE  Machine!Next
BY MappedStack DEF Machine!Next, Machine!Resolve, Machine!Become, Machine!Below,
   Machine!Innermost, Machine!Got, UnderMapped, TopMapped

LEMMA AsCall ==
  ASSUME Mapped # << >>, NEW f \in Function,
         Mapped' = Append(Append(UnderMapped, [TopMapped EXCEPT !.at = @ + 1]),
                          [fn |-> f, at |-> 1, got |-> [r \in Register |-> Null]])
  PROVE  Machine!Next
BY MappedStack DEF Machine!Next, Machine!Call, Machine!Below, Machine!Innermost,
   Machine!Frame, UnderMapped, TopMapped

LEMMA AsAnswer ==
  ASSUME Mapped # << >>, TopMapped.at - 1 \in Register, NEW x \in Value,
         Mapped' = Append(UnderMapped, [TopMapped EXCEPT !.got[TopMapped.at - 1] = x])
  PROVE  Machine!Next
BY MappedStack DEF Machine!Next, Machine!Answer, Machine!Become, Machine!Below,
   Machine!Innermost, Machine!Got, UnderMapped, TopMapped

LEMMA AsReturn ==
  ASSUME Mapped # << >>, UnderMapped # << >>, NEW x \in Value, NEW caller,
         caller = UnderMapped[Len(UnderMapped)], caller.at - 1 \in Register,
         Mapped' = Append(SubSeq(UnderMapped, 1, Len(UnderMapped) - 1),
                          [caller EXCEPT !.got[caller.at - 1] = x])
  PROVE  Machine!Next
BY MappedStack DEF Machine!Next, Machine!Return, Machine!Got, Machine!Below, UnderMapped

LEMMA AsEnd ==
  ASSUME Mapped # << >>, UnderMapped = << >>, Mapped' = << >>
  PROVE  Machine!Next
BY MappedStack DEF Machine!Next, Machine!Return, Machine!Below, UnderMapped

LEMMA AsEnter ==
  ASSUME Mapped = << >>, NEW f \in Function,
         Mapped' = << [fn |-> f, at |-> 1, got |-> [r \in Register |-> Null]] >>
  PROVE  Machine!Next
BY MappedStack DEF Machine!Next, Machine!Enter, Machine!Frame

LEMMA AsClear == ASSUME Mapped' = << >> PROVE Machine!Next
BY MappedStack DEF Machine!Next, Machine!Clear

LEMMA MappedTop ==
  ASSUME IInv, ECStack # << >>
  PROVE  /\ Mapped # << >> /\ TopMapped = View(code, SF)
         /\ UnderMapped = Seen(code, Below) /\ Below \in Seq(Frame)
<1>1. /\ ECStack \in Seq(Frame) /\ Below \in Seq(Frame)
      /\ Len(ECStack) \in 1 .. Len(ECStack)
  BY Underneath DEF IInv, GoodStack, Below
<1>2. /\ Len(Mapped) = Len(ECStack) /\ Mapped # << >>
      /\ \A d \in 1 .. Len(ECStack) : Mapped[d] = View(code, ECStack[d])
  BY <1>1, SeenStack DEF Mapped
<1>3. TopMapped = View(code, SF)
  BY <1>1, <1>2 DEF TopMapped, SF
<1>4. UnderMapped = Seen(code, Below)
  BY <1>1, SeenBelow DEF Mapped, UnderMapped, Below
<1> QED BY <1>1, <1>2, <1>3, <1>4

\* What the abstract machine sees of a new topmost frame.
LEMMA Becomes ==
  ASSUME IInv, ECStack # << >>, UNCHANGED code, NEW frame \in Frame,
         ECStack' = Append(Below, frame)
  PROVE  /\ Mapped # << >> /\ TopMapped = View(code, SF)
         /\ Mapped' = Append(UnderMapped, View(code, frame))
<1>1. Mapped' = Seen(code, Append(Below, frame))
  BY DEF Mapped
<1> QED BY <1>1, MappedTop, SeenAppend

\* An instruction that moves the topmost frame.
LEMMA MoveStep ==
  ASSUME IInv, ECStack # << >>, UNCHANGED code, NEW frame, Good(code, frame),
         frame.CurFunction = SF.CurFunction, ECStack' = Append(Below, frame),
         \A r \in 1 .. Len(code.body[SF.CurFunction]) :
           IsCall(code.body[SF.CurFunction][r]) => frame.Values[r] = SF.Values[r]
  PROVE  Machine!Next
<1>1. frame \in Frame /\ SF \in Frame /\ code \in Program
  BY Top DEF Good, IInv
<1>2. frame.CurInst \in Register
  BY <1>1, Bodies DEF Good, Frame
<1>3. View(code, frame) = [View(code, SF) EXCEPT !.at = frame.CurInst]
  BY <1>1, ViewMoved
<1> QED BY <1>1, <1>2, <1>3, Becomes, AsMove

LEMMA ViewCalled ==
  ASSUME IInv, ECStack # << >>, IsCall(I)
  PROVE  /\ View(code, Called(I)) = [View(code, SF) EXCEPT !.at = @ + 1]
         /\ Called(I) \in Frame /\ View(code, SF).at = SF.CurInst
<1>1. Called(I) \in Frame /\ SF \in Frame /\ code \in Program
  BY Top, CalledGood DEF Good, IInv
<1>2. View(code, Called(I)) = [View(code, SF) EXCEPT !.at = SF.CurInst + 1]
  BY <1>1, CalledGood, ViewMoved DEF IsCall, HasPointer
<1> QED BY <1>1, <1>2 DEF View

LEMMA ViewCaller ==
  ASSUME NEW p, NEW frame \in Frame, NEW c \in Int
  PROVE  View(p, [frame EXCEPT !.Caller = c]) = View(p, frame)
BY DEF View, Frame

\* The call at place i gets x, and its frame waits no more.
Answered(frame, i, x) == [SetValue(frame, i, x) EXCEPT !.Caller = NULL]

LEMMA ViewAnswered ==
  ASSUME NEW p \in Program, NEW frame \in Frame, NEW x \in Value,
         NEW i \in 1 .. Len(p.body[frame.CurFunction]),
         IsCall(p.body[frame.CurFunction][i])
  PROVE  /\ i \in Register
         /\ Answered(frame, i, x) \in Frame
         /\ View(p, Answered(frame, i, x)) = [View(p, frame) EXCEPT !.got[i] = x]
<1>1. SetValue(frame, i, x) \in Frame
  BY DEF SetValue, Frame
<1>2. Answered(frame, i, x) \in Frame
  BY <1>1 DEF Frame, NULL, Answered
<1>3. View(p, Answered(frame, i, x)) = View(p, SetValue(frame, i, x))
  BY <1>1, ViewCaller DEF NULL, Answered
<1> QED BY <1>2, <1>3, ViewGot

LEMMA ImplVisitCall == IInv /\ VisitCall => Machine!Next
<1> SUFFICES ASSUME IInv, VisitCall PROVE Machine!Next
  OBVIOUS
<1>1. /\ ECStack # << >> /\ code \in Program /\ UNCHANGED code /\ IsCall(I)
      /\ Below \in Seq(Frame)
  BY Executed, Underneath DEF IInv, VisitCall, Visits, Settings, GoodStack, Below
<1>2. PICK f \in getFunctionWithPtr(SF, I) :
        ECStack' = callFunction(Append(Below, Called(I)), f)
  BY DEF VisitCall
<1>3. /\ f \in Function /\ I.op \in {"call", "icall"}
      /\ I.op = "icall" => f \in Defined
  BY <1>1, <1>2, Callees
<1>4. /\ View(code, Called(I)) = [View(code, SF) EXCEPT !.at = @ + 1]
      /\ Called(I) \in Frame /\ View(code, SF).at = SF.CurInst
      /\ Called(I).Caller = SF.CurInst /\ Called(I).CurFunction = SF.CurFunction
  BY <1>1, ViewCalled, CalledGood
<1> DEFINE frames == Append(Below, Called(I))
<1>5. /\ frames \in Seq(Frame) /\ frames # << >> /\ frames[Len(frames)] = Called(I)
  BY <1>1, <1>4
<1>6. /\ Mapped # << >> /\ TopMapped = View(code, SF) /\ UnderMapped = Seen(code, Below)
  BY <1>1, MappedTop
<1>7. CASE f \in Defined
  <2>1. ECStack' = Append(frames, NewFrame(f))
    BY <1>2, <1>7 DEF callFunction
  <2>2. NewFrame(f) \in Frame
    BY <1>1, <1>7, Fresh DEF Good
  <2>3. View(code, NewFrame(f)) = [fn |-> f, at |-> 1, got |-> [r \in Register |-> Null]]
    <3>1. 1 .. Len(code.body[f]) \subseteq Register
      BY <1>1, <1>7, Bodies
    <3> QED BY <3>1 DEF View, NewFrame
  <2>4. Mapped' = Seen(code, Append(frames, NewFrame(f)))
    BY <1>1, <2>1 DEF Mapped
  <2>5. Mapped' = Append(Seen(code, frames), View(code, NewFrame(f)))
    <3> HIDE DEF frames
    <3> QED BY <1>5, <2>2, <2>4, SeenAppend
  <2>6. Seen(code, frames) = Append(UnderMapped, View(code, Called(I)))
    BY <1>1, <1>4, <1>6, SeenAppend
  <2> HIDE DEF frames
  <2> QED BY <1>3, <1>4, <1>6, <2>3, <2>5, <2>6, AsCall
<1>8. CASE f \notin Defined
  <2> DEFINE new == Answered(Called(I), SF.CurInst, Result(f))
  <2>1. /\ SF.CurInst \in 1 .. Len(code.body[Called(I).CurFunction]) /\ SF.CurInst # NULL
        /\ I = code.body[Called(I).CurFunction][SF.CurInst] /\ Result(f) \in Value
        /\ IsCall(code.body[Called(I).CurFunction][SF.CurInst])
    BY <1>1, <1>3, <1>4, Top, Values DEF NULL
  <2>2. ECStack' = Append(Below, new)
    <3>1. ECStack' = popStackAndReturnValueToCaller(frames, Result(f))
      BY <1>2, <1>8 DEF callFunction
    <3>2. CodeAt(Called(I), Called(I).Caller).op # "debug"
      BY <1>3, <1>4, <1>8, <2>1 DEF CodeAt
    <3>3. SubSeq(frames, 1, Len(frames) - 1) = Below
      BY <1>1, <1>4, FrontOfAppend
    <3> HIDE DEF frames
    <3> QED BY <1>4, <1>5, <2>1, <3>1, <3>2, <3>3 DEF popStackAndReturnValueToCaller, Answered
  <2>3. /\ new \in Frame
        /\ View(code, new) = [View(code, Called(I)) EXCEPT !.got[SF.CurInst] = Result(f)]
    <3>1. /\ code \in Program /\ Called(I) \in Frame /\ Result(f) \in Value
          /\ SF.CurInst \in 1 .. Len(code.body[Called(I).CurFunction])
          /\ IsCall(code.body[Called(I).CurFunction][SF.CurInst])
      BY <1>1, <1>4, <2>1
    <3> QED BY <3>1, ViewAnswered
  <2> HIDE DEF new
  <2>4. Mapped' = Append(UnderMapped, View(code, new))
    BY <1>1, <2>2, <2>3, Becomes
  <2> QED BY <1>4, <1>6, <2>1, <2>3, <2>4, AsResolve
<1> QED BY <1>7, <1>8

LEMMA ImplVisitNullCall == IInv /\ VisitNullCall => Machine!Next
<1> SUFFICES ASSUME IInv, VisitNullCall PROVE Machine!Next
  OBVIOUS
<1> DEFINE new == SetValue(Called(I), SF.CurInst, Zero)
<1>1. /\ ECStack # << >> /\ code \in Program /\ UNCHANGED code /\ IsCall(I)
      /\ ECStack' = Append(Below, new)
  BY Executed DEF IInv, VisitNullCall, Settings, Continue, IsCall
<1>2. /\ View(code, Called(I)) = [View(code, SF) EXCEPT !.at = @ + 1]
      /\ Called(I) \in Frame /\ View(code, SF).at = SF.CurInst
      /\ Called(I).CurFunction = SF.CurFunction
  BY <1>1, ViewCalled, CalledGood
<1>3. /\ SF.CurInst \in 1 .. Len(code.body[Called(I).CurFunction])
      /\ IsCall(code.body[Called(I).CurFunction][SF.CurInst])
  BY <1>1, <1>2, Top
<1>4. new \in Frame
  BY <1>2, Values DEF SetValue, Frame
<1>5. View(code, new) = [View(code, Called(I)) EXCEPT !.got[SF.CurInst] = Zero]
  <2> DEFINE frame == Called(I)
             i == SF.CurInst
  <2>1. /\ frame \in Frame /\ i \in 1 .. Len(code.body[frame.CurFunction])
        /\ IsCall(code.body[frame.CurFunction][i]) /\ code \in Program
    BY <1>1, <1>2, <1>3
  <2> HIDE DEF frame, i
  <2>2. View(code, SetValue(frame, i, Zero)) = [View(code, frame) EXCEPT !.got[i] = Zero]
    BY <2>1, ViewGot
  <2> QED BY <2>2 DEF frame, i
<1> HIDE DEF new
<1>6. /\ Mapped # << >> /\ TopMapped = View(code, SF)
      /\ Mapped' = Append(UnderMapped, View(code, new))
  BY <1>1, <1>4, Becomes, MappedTop
<1> QED BY <1>2, <1>5, <1>6, Values, AsResolve

\* The instructions that are no call, and calls without a frame or a value.
LEMMA ImplMove ==
  ASSUME IInv, \/ VisitStop \/ VisitSkip \/ VisitIgnored \/ VisitLoad \/ VisitCast
               \/ VisitStore \/ VisitBranch
  PROVE  Machine!Next
<1>1. ECStack # << >> /\ code \in Program /\ UNCHANGED code
  BY Executed DEF IInv, Settings, VisitStop, VisitSkip, VisitIgnored, VisitLoad, VisitCast,
     VisitStore, VisitBranch
<1>2. ASSUME I.op # "ret", ECStack' = Append(Below, Past) PROVE Machine!Next
  BY <1>1, <1>2, PastGood, MoveStep
<1>3. CASE VisitStop \/ VisitSkip
  <2>1. ECStack' = Append(Below, Past) /\ getFunctionWithPtr(SF, I) # {}
    BY <1>3 DEF VisitStop, VisitSkip, Continue
  <2> QED BY <1>1, <1>2, <2>1, Callees
<1>4. CASE VisitStore
  BY <1>2, <1>4 DEF VisitStore, Continue
<1>5. CASE VisitIgnored
  <2>1. ECStack' = Append(Below, Called(I)) /\ IsCall(I)
    BY <1>5 DEF VisitIgnored, Continue, Visits
  <2> QED BY <1>1, <2>1, CalledGood, MoveStep DEF IsCall, HasPointer
<1>6. ASSUME NEW x \in Value, HasPointer(I), Holds(code, I, x),
             ECStack' = Append(Below, SetValue(Past, SF.CurInst, x))
      PROVE  Machine!Next
  <2> DEFINE new == SetValue(Past, SF.CurInst, x)
  <2>1. /\ Good(code, Past) /\ Past.CurFunction = SF.CurFunction /\ Past.Values = SF.Values
        /\ Past \in Frame
    BY <1>1, <1>6, PastGood DEF Good, HasPointer
  <2>2. Good(code, new) /\ new.CurFunction = SF.CurFunction
    BY <1>1, <1>6, <2>1, Top, Filled
  <2>3. ASSUME NEW r \in 1 .. Len(code.body[SF.CurFunction]),
               IsCall(code.body[SF.CurFunction][r])
        PROVE  new.Values[r] = SF.Values[r]
    <3>1. r # SF.CurInst
      BY <1>1, <1>6, <2>3, Top DEF IsCall, HasPointer
    <3>2. r \in Register
      BY <1>1, Top, Bodies
    <3> QED BY <2>1, <3>1, <3>2 DEF SetValue, Frame
  <2> HIDE DEF new
  <2>4. ECStack' = Append(Below, new)
    BY <1>6 DEF new
  <2> QED BY <1>1, <2>2, <2>3, <2>4, MoveStep
<1>7. CASE VisitLoad
  <2>1. /\ ECStack' = Append(Below, SetValue(Past, SF.CurInst, memory[I.cell]))
        /\ I.op = "load" /\ I.cell \in Cell
    BY <1>1, <1>7, Top DEF VisitLoad, Continue, Instruction
  <2>2. /\ memory[I.cell] \in Kept(code) /\ memory[I.cell] \in Loaded(code)
        /\ memory[I.cell] \in Value
    BY <2>1, Values DEF IInv
  <2>3. Holds(code, I, memory[I.cell]) /\ HasPointer(I)
    BY <2>1, <2>2 DEF Holds, Answers, HasPointer
  <2> QED BY <1>6, <2>1, <2>2, <2>3
<1>8. CASE VisitCast
  <2>1. /\ ECStack' = Append(Below, SetValue(Past, SF.CurInst, SF.Values[I.reg]))
        /\ I.op = "cast"
    BY <1>8 DEF VisitCast, Continue, getOperandValue
  <2>2. SF.Values[I.reg] \in Loaded(code) /\ SF.Values[I.reg] \in Value
    BY <1>1, <2>1, Through, Values
  <2>3. Holds(code, I, SF.Values[I.reg]) /\ HasPointer(I)
    BY <2>1, <2>2 DEF Holds, Answers, HasPointer
  <2> QED BY <1>6, <2>1, <2>2, <2>3
<1>9. CASE VisitBranch
  <2>1. PICK i \in I.to : ECStack' = Append(Below, [SF EXCEPT !.CurInst = i])
    BY <1>9 DEF VisitBranch, Continue
  <2>2. i \in 1 .. Len(code.body[SF.CurFunction])
    BY <1>1, <1>9, Top, Bodies DEF WellFormed, VisitBranch
  <2> DEFINE new == [SF EXCEPT !.CurInst = i]
  <2>3. Good(code, new) /\ new.CurFunction = SF.CurFunction /\ new.Values = SF.Values
    <3>1. SF \in Frame
      BY <1>1, Top DEF Good
    <3> QED BY <1>1, <2>2, <3>1, Top, Moved DEF Frame
  <2> HIDE DEF new
  <2> QED BY <1>1, <2>1, <2>3, MoveStep DEF new
<1> QED BY <1>3, <1>4, <1>5, <1>7, <1>8, <1>9

LEMMA ImplVisitRet == ASSUME ~ MayNest, IInv, VisitRet PROVE Machine!Next \/ Mapped' = Mapped
<1> DEFINE f == SF.CurFunction
<1>1. /\ ECStack # << >> /\ code \in Program /\ UNCHANGED code /\ Below \in Seq(Frame)
      /\ GoodStack(code, ECStack) /\ Mapped # << >> /\ UnderMapped = Seen(code, Below)
  BY Executed, MappedTop DEF IInv, VisitRet, Settings
<1>2. /\ GoodStack(code, Below)
      /\ Below = << >> \/ Waits(code, Below[Len(Below)], f)
  BY <1>1, Popped DEF Below, SF
<1>3. f \in Function /\ Result(f) \in Value
  BY <1>1, Top, Values, FunctionAssumption
<1> HIDE DEF f
<1>4. CASE ReadsUninitialised(Below)
  BY <1>1, <1>2, <1>4 DEF ReadsUninitialised, Waits, Uninitialised
<1>5. CASE ~ ReadsUninitialised(Below) /\ Below = << >>
  <2>1. ECStack' = << >>
    BY <1>5 DEF VisitRet, popStackAndReturnValueToCaller
  <2>2. Mapped' = << >> /\ UnderMapped = << >>
    BY <1>1, <1>5, <2>1 DEF Mapped, Seen
  <2> QED BY <1>1, <2>2, AsEnd
<1>6. CASE ~ ReadsUninitialised(Below) /\ Below # << >>
  <2> DEFINE frame == Below[Len(Below)]
             i == frame.Caller
             under == SubSeq(Below, 1, Len(Below) - 1)
             new == Answered(frame, i, Result(f))
  <2>1. /\ Good(code, frame) /\ frame \in Frame /\ i >= 1 /\ frame.CurInst = i + 1
        /\ code.body[frame.CurFunction][i].op \in {"call", "icall"}
    <3>1. Len(Below) \in 1 .. Len(Below)
      BY <1>1, <1>6, Underneath
    <3> QED BY <1>2, <1>6, <3>1 DEF GoodStack, Good, Waits
  <2>2. /\ i \in 1 .. Len(code.body[frame.CurFunction]) /\ i \in Nat /\ i # NULL
        /\ IsCall(code.body[frame.CurFunction][i])
    <3>1. i \in {Uninitialised, NULL} \cup 1 .. Len(code.body[frame.CurFunction])
      BY <2>1 DEF Good
    <3> QED BY <2>1, <3>1 DEF NULL, Uninitialised, IsCall
  <2>3. ECStack' = Append(under, new)
    <3>1. ECStack' = popStackAndReturnValueToCaller(Below, Result(f))
      BY <1>6 DEF VisitRet, f
    <3> QED BY <1>6, <2>1, <2>2, <3>1 DEF popStackAndReturnValueToCaller, CodeAt, Answered
  <2>4. /\ i \in Register /\ new \in Frame
        /\ View(code, new) = [View(code, frame) EXCEPT !.got[i] = Result(f)]
    <3> HIDE DEF frame
    <3> QED BY <1>1, <1>3, <2>1, <2>2, ViewAnswered
  <2>5. View(code, frame).at = i + 1
    BY <2>1 DEF View
  <2>6. /\ UnderMapped # << >> /\ View(code, frame) = UnderMapped[Len(UnderMapped)]
        /\ under \in Seq(Frame)
        /\ Seen(code, under) = SubSeq(UnderMapped, 1, Len(UnderMapped) - 1)
    <3>1. Len(Below) \in 1 .. Len(Below) /\ under \in Seq(Frame)
      BY <1>1, <1>6, Underneath
    <3>2. /\ UnderMapped # << >> /\ Len(UnderMapped) = Len(Below)
          /\ \A d \in 1 .. Len(Below) : UnderMapped[d] = View(code, Below[d])
      BY <1>1, <1>6, SeenStack
    <3>3. Seen(code, under) = SubSeq(UnderMapped, 1, Len(UnderMapped) - 1)
      BY <1>1, <1>6, SeenBelow
    <3> QED BY <3>1, <3>2, <3>3
  <2> HIDE DEF new, under, frame
  <2>7. Mapped' = Append(SubSeq(UnderMapped, 1, Len(UnderMapped) - 1),
                         [View(code, frame) EXCEPT !.got[i] = Result(f)])
    <3>1. Mapped' = Seen(code, Append(under, new))
      BY <1>1, <2>3 DEF Mapped
    <3>2. Seen(code, Append(under, new)) = Append(Seen(code, under), View(code, new))
      BY <2>4, <2>6, SeenAppend
    <3> HIDE DEF Mapped
    <3> QED BY <2>4, <2>6, <3>1, <3>2
  <2>8. View(code, frame).at - 1 = i
    BY <2>2, <2>5
  <2> DEFINE caller == UnderMapped[Len(UnderMapped)]
  <2>9. /\ Mapped # << >> /\ UnderMapped # << >> /\ Result(f) \in Value
        /\ caller.at - 1 \in Register
        /\ Mapped' = Append(SubSeq(UnderMapped, 1, Len(UnderMapped) - 1),
                            [caller EXCEPT !.got[caller.at - 1] = Result(f)])
    BY <1>1, <1>3, <2>4, <2>6, <2>7, <2>8
  <2>10. caller = UnderMapped[Len(UnderMapped)]
    OBVIOUS
  <2> DEFINE x == Result(f)
  <2> HIDE DEF caller, x, Mapped, UnderMapped
  <2> QED BY <2>9, <2>10, AsReturn DEF x
<1> QED BY <1>4, <1>5, <1>6

LEMMA ImplRunFunction ==
  ASSUME ~ MayNest, IInv, RunFunction
  PROVE  Machine!Next \/ Mapped' = Mapped
<1>1. ECStack = << >> /\ UNCHANGED code /\ code \in Program
  BY DEF RunFunction, Settings, IInv
<1>2. PICK f \in Function : UNCHANGED ECStack \/ ECStack' = callFunction(ECStack, f)
  BY DEF RunFunction
<1>3. CASE UNCHANGED ECStack
  BY <1>1, <1>3 DEF Mapped
<1>4. CASE ECStack' = callFunction(ECStack, f) /\ f \notin Defined
  BY <1>1, <1>4 DEF callFunction, popStackAndReturnValueToCaller, Mapped
<1>5. CASE ECStack' = callFunction(ECStack, f) /\ f \in Defined
  <2>1. ECStack' = Append(<< >>, NewFrame(f))
    BY <1>1, <1>5 DEF callFunction
  <2>2. NewFrame(f) \in Frame /\ << >> \in Seq(Frame)
    BY <1>1, <1>5, Fresh DEF Good
  <2>3. View(code, NewFrame(f)) = [fn |-> f, at |-> 1, got |-> [r \in Register |-> Null]]
    <3>1. 1 .. Len(code.body[f]) \subseteq Register
      BY <1>1, <1>5, Bodies
    <3> QED BY <3>1 DEF View, NewFrame
  <2>4. Mapped' = Seen(code, Append(<< >>, NewFrame(f))) /\ Mapped = << >>
    BY <1>1, <2>1 DEF Mapped, Seen
  <2>5. Seen(code, << >>) = << >>
    BY DEF Seen
  <2>6. Mapped' = Append(<< >>, View(code, NewFrame(f)))
    BY <2>2, <2>4, <2>5, SeenAppend
  <2>7. Mapped' = << View(code, NewFrame(f)) >>
    BY <2>6
  <2> QED BY <2>3, <2>4, <2>7, AsEnter
<1> QED BY <1>2, <1>3, <1>4, <1>5

LEMMA ImplPutReturnValue == IInv /\ putReturnValue => Machine!Next
<1> SUFFICES ASSUME IInv, putReturnValue PROVE Machine!Next
  OBVIOUS
<1> DEFINE at == runningInstruction.at
           new == SetValue(SF, at, Python)
<1>1. /\ ECStack # << >> /\ code \in Program /\ UNCHANGED code
      /\ ECStack' = Append(Below, new)
  BY DEF IInv, putReturnValue, Stopped, Settings
<1>2. /\ Good(code, SF) /\ SF \in Frame /\ at = SF.CurInst - 1 /\ at >= 1
      /\ IsCall(code.body[SF.CurFunction][at])
  BY <1>1, Top DEF IInv, StoppedAtCall, CodeAt, Good, putReturnValue
<1>3. at \in 1 .. Len(code.body[SF.CurFunction])
  BY <1>1, <1>2, Top, Bodies
<1>4. new \in Frame
  BY <1>2, Values DEF SetValue, Frame
<1>5. at \in Register /\ View(code, new) = [View(code, SF) EXCEPT !.got[at] = Python]
  BY <1>1, <1>2, <1>3, ViewGot
<1> HIDE DEF new
<1>6. /\ Mapped # << >> /\ TopMapped = View(code, SF)
      /\ Mapped' = Append(UnderMapped, View(code, new))
  BY <1>1, <1>4, Becomes, MappedTop
<1>7. View(code, SF).at - 1 = at
  BY <1>2 DEF View
<1> QED BY <1>5, <1>6, <1>7, Values, AsAnswer

\* The interpreter implements the abstract machine: it makes each call once,
\* and a call's value goes to the call its caller stands behind (run,
\* visitCallBase, callFunction, popStackAndReturnValueToCaller, putReturnValue),
\* as long as the user runs no function while another is stopped.
THEOREM Implements == ASSUME ~ MayNest PROVE Spec => ImplementsCallStack
<1>1. Init => Machine!Init
  BY DEF Init, Machine!Init
<1>2. IInv /\ [Next]_vars
        => [Machine!Next]_([d \in 1 .. Len(ECStack) |-> Abstract(ECStack[d])])
  <2> SUFFICES ASSUME IInv, [Next]_vars PROVE Machine!Next \/ Mapped' = Mapped
    BY MappedStack
  <2>1. CASE Resume \/ SetStop \/ SetSkip \/ WriteMemory \/ UNCHANGED vars
    BY <2>1 DEF Resume, SetStop, SetSkip, WriteMemory, Settings, vars, Mapped
  <2>2. CASE Reset
    <3>1. Mapped' = << >>
      BY <2>2 DEF Reset, Mapped, Seen
    <3> QED BY <3>1, AsClear
  <2> QED BY <2>1, <2>2, ImplVisitCall, ImplVisitNullCall, ImplMove, ImplVisitRet,
             ImplRunFunction, ImplPutReturnValue DEF Next
<1> QED BY <1>1, <1>2, Inductive, PTL DEF Spec, ImplementsCallStack, Machine!Spec

=============================================================================
