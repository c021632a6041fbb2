------------------------------ MODULE MCSession ------------------------------
(***************************************************************************)
(* Two programs: one whose structs are accessed, with a struct of the same *)
(* name in another file, and one with globals and aliases.                 *)
(***************************************************************************)
EXTENDS Session

Type(tag, name, of, size, align) ==
  [tag |-> tag, name |-> name, base |-> of, size |-> size, align |-> align, elements |-> << >>,
   count |-> 0]

\* Tables of types: basic ones by name and size, pointers by what they point to,
\* typedefs and qualified types by name and type, arrays by type, length, size
\* and alignment, structs by name, size, alignment and members.
basics(of)   == [t \in DOMAIN of |-> Type("basic", of[t][1], NoType, of[t][2], of[t][2])]
pointers(of) == [t \in DOMAIN of |-> Type("pointer", "", of[t], 4, 4)]
derivations(tag, of) == [t \in DOMAIN of |-> Type(tag, of[t][1], of[t][2], 0, 0)]
arrays(of) ==
  [t \in DOMAIN of |-> [Type("array", "", of[t][1], of[t][3], of[t][4]) EXCEPT !.count = of[t][2]]]
Members(ms) == [i \in DOMAIN ms |-> [name |-> ms[i][1], base |-> ms[i][2], offset |-> ms[i][3]]]
aggregates(tag, of) ==
  [t \in DOMAIN of |->
     [Type(tag, of[t][1], NoType, of[t][2], of[t][3]) EXCEPT !.elements = Members(of[t][4])]]

\* typedef struct node { void *next; int prio; } node_t; typedef int id_t;
\* struct thread { bool flag; node_t base; union { unsigned char u; long long l; short ps[2]; };
\*                 char name[3]; short s; };
\* struct timer { unsigned u; id_t ids[2]; const struct node k; struct node ns[2];
\*                struct { int x; unsigned short h; } in; void *vs[2]; short *ss[2];
\*                long long *ls[2]; };
\* In another file: struct node { int i; };
MCTypes ==
  basics([char |-> <<"char", 1>>, bool |-> <<"bool", 1>>, uchar |-> <<"unsigned char", 1>>,
          short |-> <<"short", 2>>, ushort |-> <<"unsigned short", 2>>,
          int |-> <<"int", 4>>, unsigned |-> <<"unsigned int", 4>>, llong |-> <<"long long", 8>>])
  @@ pointers([void_ptr |-> NoType, short_ptr |-> "short", llong_ptr |-> "llong"])
  @@ derivations("typedef", [id_t |-> <<"id_t", "int">>, node_t |-> <<"node_t", "node">>])
  @@ derivations("const", [cnode |-> <<"", "node">>])
  @@ arrays([name |-> <<"char", 3, 3, 1>>, shorts |-> <<"short", 2, 4, 2>>,
             ids |-> <<"id_t", 2, 8, 4>>, nodes |-> <<"node", 2, 16, 4>>,
             void_ptrs |-> <<"void_ptr", 2, 8, 4>>, short_ptrs |-> <<"short_ptr", 2, 8, 4>>,
             llong_ptrs |-> <<"llong_ptr", 2, 8, 4>>])
  @@ aggregates("union", [
       either |-> <<"", 8, 8, <<<<"u", "uchar", 0>>, <<"l", "llong", 0>>, <<"ps", "shorts", 0>>>>>>])
  @@ aggregates("struct", [
       node   |-> <<"node", 8, 4, <<<<"next", "void_ptr", 0>>, <<"prio", "int", 4>>>>>>,
       other  |-> <<"node", 4, 4, <<<<"i", "int", 0>>>>>>,
       thread |-> <<"thread", 32, 8,
                    <<<<"flag", "bool", 0>>, <<"base", "node_t", 4>>, <<"", "either", 16>>,
                      <<"name", "name", 24>>, <<"s", "short", 28>>>>>>,
       inner  |-> <<"", 8, 4, <<<<"x", "int", 0>>, <<"h", "ushort", 4>>>>>>,
       timer  |-> <<"timer", 68, 4,
                    <<<<"u", "unsigned", 0>>, <<"ids", "ids", 4>>, <<"k", "cnode", 12>>,
                      <<"ns", "nodes", 20>>, <<"in", "inner", 36>>, <<"vs", "void_ptrs", 44>>,
                      <<"ss", "short_ptrs", 52>>, <<"ls", "llong_ptrs", 60>>>>>>])

MCData == {Num("1"), Num("-1"), Num("max"), Text(1), Text(5)}

NoFile ==
  [missing |-> TRUE, globals |-> << >>, types |-> << >>, inGlobals |-> << >>,
   inFunctions |-> << >>]
File(globals) == [NoFile EXCEPT !.missing = FALSE, !.globals = globals]
Global(init, tls, size) == [init |-> init, tls |-> tls, size |-> size]

ThreadC == [File(<< >>) EXCEPT !.types = <<"node", "node_t", "thread">>, !.inGlobals = <<"thread">>,
                               !.inFunctions = <<"node">>]
TimerC  == [File(<< >>) EXCEPT !.types = <<"id_t", "timer">>, !.inGlobals = <<"timer">>]
OtherC  == [File(<< >>) EXCEPT !.types = <<"other">>, !.inGlobals = <<"other">>]

NoProgram ==
  [parses |-> {}, structs |-> {}, names |-> {}, constants |-> {}, uses |-> {}, aliases |-> << >>,
   exprs |-> << >>, instructions |-> {}]

StructProgram ==
  [NoProgram EXCEPT !.structs = {"thread", "timer", "node"},
     !.parses = {<<ThreadC>>, <<TimerC>>, <<OtherC>>, <<ThreadC, TimerC>>, <<TimerC, NoFile>>}]

\* int g[2] = { 1, <undef> }; thread_local int t = 1; extern int x;
\* In another file: int x = 2;  The aliases a and b of g, c of the expression of b,
\* d of the expression of c.
MainC  == File("g" :> Global(<<"1", "undef">>, FALSE, 2) @@ "t" :> Global(<<"1">>, TRUE, 1) @@
               "x" :> Global(<< >>, FALSE, 1))
ExternC == File("x" :> Global(<<"2">>, FALSE, 1))

GlobalProgram ==
  [NoProgram EXCEPT
     !.parses = {<<MainC>>, <<ExternC>>, <<MainC, ExternC>>, <<MainC, NoFile>>},
     !.names = {"g", "t", "x"},
     !.uses = {"g", "x"},
     !.constants = {<< >>, <<"5">>},
     !.aliases = "a" :> "g" @@ "b" :> "a" @@ "c" :> "eb" @@ "d" :> "ec",
     !.exprs = "ea" :> <<"a">> @@ "eb" :> <<"b">> @@ "ec" :> <<"c", "x">> @@ "eab" :> <<"a", "b">>,
     !.instructions = {<<"ea">>, <<"ea", "eb">>, <<"eab", "ec">>, <<"ea", "ea", "eb">>,
                     <<"c">>, <<"d">>}]

MCPrograms == {StructProgram, GlobalProgram}
==============================================================================
