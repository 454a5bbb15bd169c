----------------------------- MODULE NovaMeaning -----------------------------
(***************************************************************************)
(* What a Nova program computes, after src/docs/language.md, sections 3    *)
(* and 4: a big-step evaluator, the reference for what the analyzer says   *)
(* of a program and for the code the compiler makes of it.  p is the       *)
(* program, env the local names, depth the calls that may still be nested. *)
(* Nothing in the language changes a value, so a loop whose condition is   *)
(* true once never ends.                                                   *)
(***************************************************************************)
EXTENDS NovaSyntax

\* An outcome: "value", "diverges" or "stuck"; the value, or why it is stuck;
\* the marks passed; the functions called, with their arguments.
Outcome(status, value) ==
  [status |-> status, value |-> value, effects |-> {}, calls |-> <<>>]
Value(v)   == Outcome("value", v)
Stuck(why) == Outcome("stuck", why)
Diverges   == Outcome("diverges", None)

\* r as it is after o
After(o, r) == [r EXCEPT !.effects = o.effects \cup @, !.calls = o.calls \o @]

Scalar(kind, text) == [kind |-> kind, text |-> text]
UnitValue == Scalar("unit", "")
IsTrue(v) == v = Scalar("bool", "true")
IsBool(v) == v.kind = "bool"

VariantValue(name, items) == [kind |-> "variant", name |-> name, items |-> items]
Closure(name, params, body, env) ==
  [kind |-> "function", name |-> name, params |-> params, body |-> body, env |-> env]

\* The variants a name constructs, as pairs of a declaration and a place in it,
\* and the other declarations of a name.
Constructors(p, name) ==
  {dv \in (DOMAIN p) \X (1..10) :
     /\ p[dv[1]].kind = "sum" /\ dv[2] \in DOMAIN p[dv[1]].variants
     /\ p[dv[1]].variants[dv[2]].name = name}
Declared(p, name) == {d \in DOMAIN p : p[d].kind \in {"fun", "let"} /\ p[d].name = name}

RECURSIVE Eval(_, _, _, _)

\* the value of a name declared at the top
Global(p, name, depth) ==
  IF Constructors(p, name) # {}
  THEN LET dv == CHOOSE x \in Constructors(p, name) : TRUE
           arity == Len(p[dv[1]].variants[dv[2]].payload)
       IN Value(IF arity = 0 THEN VariantValue(name, <<>>)
                ELSE [kind |-> "constructor", name |-> name, arity |-> arity])
  ELSE IF Declared(p, name) = {} THEN Stuck("name")
  ELSE LET d == p[Min(Declared(p, name))]
       IN IF d.kind = "fun"
          THEN Value(Closure(name, [i \in DOMAIN d.params |-> d.params[i].name], d.body, <<>>))
          ELSE [Eval(p, <<>>, d.value, depth) EXCEPT !.effects = {}, !.calls = <<>>]

\* Expressions in turn, until one has no value; the value is theirs, in order.
EvalAll(p, env, es, depth) ==
  FoldLeft(LAMBDA o, e :
             IF o.status # "value" THEN o
             ELSE LET r == Eval(p, env, e, depth)
                      v == IF r.status = "value" THEN Append(o.value, r.value) ELSE r.value
                  IN [After(o, r) EXCEPT !.value = v],
           Value(<<>>), es)

Bind(names, values) ==
  [n \in ToSet(names) |-> values[CHOOSE i \in DOMAIN names : names[i] = n]]

\* why is the reason to give when the number of arguments is wrong
Apply(p, f, args, why, depth) ==
  CASE f.kind = "constructor" -> IF Len(args) = f.arity THEN Value(VariantValue(f.name, args))
                                 ELSE Stuck(why)
    [] f.kind = "function" ->
         IF Len(args) # Len(f.params) THEN Stuck(why)
         ELSE IF depth = 0 THEN Diverges
         ELSE LET r == Eval(p, Bind(f.params, args) @@ f.env, f.body, depth - 1)
              IN [r EXCEPT !.calls = <<[name |-> f.name, args |-> args]>> \o @]
    [] OTHER -> Stuck("call")

\* the stages from k on, for the value of o
RECURSIVE EvalStages(_, _, _, _, _, _)
EvalStages(p, env, o, stages, k, depth) ==
  IF o.status # "value" \/ k > Len(stages) THEN o
  ELSE LET all == EvalAll(p, env, <<StageCallee(stages[k])>> \o StageArgs(stages[k]), depth)
           r   == IF all.status # "value" THEN all
                  ELSE After(all, Apply(p, all.value[1], <<o.value>> \o Tail(all.value),
                                        "stage", depth))
       IN EvalStages(p, env, After(o, r), stages, k + 1, depth)

\* what becomes of e after a condition or scrutinee o
Branch(p, env, o, e, depth) == After(o, Eval(p, env, e, depth))

EvalMatch(p, env, e, depth) ==
  LET o == Eval(p, env, e.kids[1], depth)
      named == {a \in DOMAIN e.arms : e.arms[a].name = o.value.name}
  IN IF o.status # "value" THEN o
     ELSE IF o.value.kind # "variant" THEN After(o, Stuck("no variant"))
     ELSE IF named = {} THEN After(o, Stuck("no arm"))
     ELSE LET a == Min(named)
              names == e.arms[a].bindings
              bound == IF Len(names) = Len(o.value.items) THEN Bind(names, o.value.items)
                       ELSE <<>>
          IN Branch(p, bound @@ env, o, e.kids[a + 1], depth)

EvalIf(p, env, e, depth) ==
  LET o == Eval(p, env, e.kids[1], depth)
  IN IF o.status # "value" THEN o
     ELSE IF ~IsBool(o.value) THEN After(o, Stuck("condition"))
     ELSE IF IsTrue(o.value) THEN Branch(p, env, o, e.kids[2], depth)
     ELSE IF Len(e.kids) = 3 THEN Branch(p, env, o, e.kids[3], depth)
     ELSE After(o, Value(UnitValue))

EvalWhile(p, env, e, depth) ==
  LET o == Eval(p, env, e.kids[1], depth)
      body == Branch(p, env, o, e.kids[2], depth)
  IN IF o.status # "value" THEN o
     ELSE IF ~IsBool(o.value) THEN After(o, Stuck("condition"))
     ELSE IF ~IsTrue(o.value) THEN After(o, Value(UnitValue))
     ELSE IF body.status = "stuck" THEN body ELSE After(body, Diverges)

Marks == [async |-> {"async"}, await |-> {}, effect |-> {"impure"}, paren |-> {}]

Eval(p, env, e, depth) ==
  CASE e.kind \in {"number", "string", "bool", "unit"} -> Value(Scalar(e.kind, e.text))
    [] e.kind = "list" ->
         LET all == EvalAll(p, env, e.kids, depth)
         IN IF all.status # "value" THEN all
            ELSE After(all, Value([kind |-> "list", items |-> all.value]))
    [] e.kind = "identifier" ->
         IF e.name \in DOMAIN env THEN Value(env[e.name]) ELSE Global(p, e.name, depth)
    [] e.kind = "block" ->
         LET all == EvalAll(p, env, e.kids, depth)
         IN IF all.status # "value" THEN all
            ELSE [all EXCEPT !.value = IF e.kids = <<>> THEN UnitValue ELSE Last(@)]
    [] e.kind = "lambda" ->
         Value(Closure("", [i \in DOMAIN e.params |-> e.params[i].name], e.kids[1], env))
    [] e.kind = "call" ->
         LET all == EvalAll(p, env, e.kids, depth)
         IN IF all.status # "value" THEN all
            ELSE After(all, Apply(p, all.value[1], Tail(all.value), "arguments", depth))
    [] e.kind = "pipe" ->
         EvalStages(p, env, Eval(p, env, e.kids[1], depth), Tail(e.kids), 1, depth)
    [] e.kind = "if"    -> EvalIf(p, env, e, depth)
    [] e.kind = "while" -> EvalWhile(p, env, e, depth)
    [] e.kind = "match" -> EvalMatch(p, env, e, depth)
    [] OTHER -> LET o == Eval(p, env, e.kids[1], depth)
                IN [o EXCEPT !.effects = @ \cup Marks[e.kind]]

\* the d-th declaration, a function, applied to arguments
Meaning(p, d, args, depth) ==
  Apply(p, Closure(p[d].name, [i \in DOMAIN p[d].params |-> p[d].params[i].name],
                   p[d].body, <<>>), args, "arguments", depth)

-----------------------------------------------------------------------------
(* What can be said of an expression without running it *)

RECURSIVE FreeNames(_)
FreeNames(e) ==
  LET all == UNION {FreeNames(e.kids[k]) : k \in DOMAIN e.kids}
  IN CASE e.kind = "identifier" -> {e.name}
       [] e.kind = "lambda" -> all \ {e.params[i].name : i \in DOMAIN e.params}
       [] e.kind = "match" ->
            FreeNames(e.kids[1]) \cup
            UNION {FreeNames(e.kids[a + 1]) \ ToSet(e.arms[a].bindings) : a \in DOMAIN e.arms}
       [] OTHER -> all

\* the expressions inside e, e included
RECURSIVE Within(_)
Within(e) == {e} \cup UNION {Within(e.kids[k]) : k \in DOMAIN e.kids}

Body(d) == IF d.kind = "fun" THEN d.body ELSE d.value
ParamNames(d) == IF d.kind = "fun" THEN {d.params[i].name : i \in DOMAIN d.params} ELSE {}
=============================================================================
