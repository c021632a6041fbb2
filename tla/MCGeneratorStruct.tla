-------------------------- MODULE MCGeneratorStruct --------------------------
(***************************************************************************)
(* Modules for the struct generator: a few C types each, with every order  *)
(* of the struct types and of the types of the metadata.                   *)
(***************************************************************************)
EXTENDS GeneratorStruct

Member(name, base) == [name |-> name, base |-> base]
Type(tag, name, base, elements) ==
  [tag |-> tag, name |-> name, base |-> base, elements |-> elements, size |-> 0, count |-> 0]

basic(name)          == [Type("basic", name, NoType, << >>) EXCEPT !.size = 4]
struct(name, ms)     == Type("struct", name, NoType, ms)
union(name, ms)      == Type("union", name, NoType, ms)
pointer(base)        == Type("pointer", "", base, << >>)
typedef(name, base)  == Type("typedef", name, base, << >>)
const(base)          == Type("const", "", base, << >>)
array(base)          == [Type("array", "", base, << >>) EXCEPT !.count = 2]

\* struct list { struct list *next; };
\* struct box { struct list l; struct pair *p; struct list many[2]; };
\* struct pair { struct box b; int n; const struct list *c; };
\* struct tree { struct node root; }; struct node { tree_t *up; const int k; };
\* typedef struct tree tree_t; struct forest { tree_t first; };
\* typedef struct { int a; } anon_t; typedef int num_t; typedef void (*fun_t)(void);
\* typedef struct list *list_p; typedef struct list list_t;
\* struct holder { anon_t x; struct { int u; } in; union { int v; num_t w; };
\*                 const struct list cl; enum e k; void *any; fun_t f; list_p lp; list_t lt; };
\* struct buf { num_t nums[2]; };
\* struct lock { const struct { struct list owner; }; int depth; };
\* typedef struct same same; struct same { int a; }; struct user { same s; };
MCTypes == [
   int        |-> basic("int"),
   list       |-> struct("list", <<Member("next", "list_ptr")>>),
   list_ptr   |-> pointer("list"),
   lists      |-> array("list"),
   clist      |-> const("list"),
   clist_ptr  |-> pointer("clist"),
   box        |-> struct("box", <<Member("l", "list"), Member("p", "pair_ptr"),
                  Member("many", "lists")>>),
   pair       |-> struct("pair", <<Member("b", "box"), Member("n", "int"),
                  Member("c", "clist_ptr")>>),
   pair_ptr   |-> pointer("pair"),
   tree       |-> struct("tree", <<Member("root", "node")>>),
   tree_t     |-> typedef("tree_t", "tree"),
   tree_t_ptr |-> pointer("tree_t"),
   node       |-> struct("node", <<Member("up", "tree_t_ptr"), Member("k", "cint")>>),
   cint       |-> const("int"),
   forest     |-> struct("forest", <<Member("first", "tree_t")>>),
   anon       |-> struct("", <<Member("a", "int")>>),
   anon_t     |-> typedef("anon_t", "anon"),
   num_t      |-> typedef("num_t", "int"),
   fun        |-> Type("function", "", NoType, << >>),
   fun_ptr    |-> pointer("fun"),
   fun_t      |-> typedef("fun_t", "fun_ptr"),
   list_t     |-> typedef("list_t", "list"),
   list_p     |-> typedef("list_p", "list_ptr"),
   inner      |-> struct("", <<Member("u", "int")>>),
   either     |-> union("", <<Member("v", "int"), Member("w", "num_t")>>),
   e          |-> Type("enum", "e", NoType, << >>),
   void_ptr   |-> pointer(NoType),
   holder     |-> struct("holder", <<Member("x", "anon_t"), Member("in", "inner"),
                  Member("", "either"), Member("cl", "clist"), Member("k", "e"), Member("any", "void_ptr"),
                  Member("f", "fun_t"), Member("lp", "list_p"), Member("lt", "list_t")>>),
   nums       |-> array("num_t"),
   owned      |-> struct("", <<Member("owner", "list")>>),
   cowned     |-> const("owned"),
   lock       |-> struct("lock", <<Member("", "cowned"), Member("depth", "int")>>),
   buf        |-> struct("buf", <<Member("nums", "nums")>>),
   same       |-> struct("same", <<Member("a", "int")>>),
   same_t     |-> typedef("same", "same"),
   user       |-> struct("user", <<Member("s", "same_t")>>)]

\* The types of the metadata: those given first, then all that they consist of.
Whole(types) ==
  LET rest == UNION {LeadsTo(types[i]) : i \in DOMAIN types} \ Range(types)
  IN  FoldSet(LAMBDA t, ts : Append(ts, t), types, rest)

\* Every order of the struct types, whose names are those of the nodes, and
\* two orders of the metadata.
Orders(structs, types) ==
  {[structs |-> s, types |-> t] : s \in SetToSeqs(structs),
                                  t \in {Whole(types), Reverse(Whole(types))}}

MCInputs ==
  Orders({"list", "box", "pair", "gone"}, <<"list", "box", "pair">>) \union
  Orders({"box", "gone"}, <<"box">>) \union                  \* pair is only pointed to
  Orders({"tree", "node", "forest", "log_msg"}, <<"tree", "node", "forest", "tree_t">>) \union
  Orders({"holder", "list", "anon", ""}, <<"holder", "list">>) \union
  Orders({"buf", "list"}, <<"buf", "list">>) \union
  Orders({"lock", "list"}, <<"lock">>) \union
  Orders({"same", "user"}, <<"same", "same_t", "user">>)
==============================================================================
