---------------------------- MODULE NovaAnalyzer ----------------------------
(***************************************************************************)
(* The analysis of let and fun declarations (src/src/semantic.cpp:         *)
(* analyze_expr and what it calls, analyze_let, analyze_fun), on top of    *)
(* the registered types of NovaTypeRegistry.                               *)
(*                                                                         *)
(* The analysis of an expression threads a record c through the tree:      *)
(*   types, diagnostics, info   what becomes of the variables,             *)
(*   look                       what reads through freed pointers find,    *)
(*   stale                      has a freed pointer been followed?         *)
(* Env is the chain of scopes, an inner name hiding an outer one; at is    *)
(* the place of the expression, e the expression.                          *)
(*                                                                         *)
(* An operator whose comment begins with "Mistake:" is a faulty variant of *)
(* the one below it, for checking that the property named notices.         *)
(***************************************************************************)
EXTENDS NovaTypeRegistry, NovaMeaning

VARIABLE info  \* ctx->expr_info and its index: place -> [type, effects]

frontVars == <<vars, info>>

Entry(type, effects) == [type |-> type, effects |-> effects, record |-> None]

Result(c, type, effects) == [c |-> c, type |-> type, effects |-> effects]

\* expr_info_list_record, at the end of most analyses
Recorded(c, at, type, effects) ==
  Result([c EXCEPT !.info = (at :> [type |-> type, effects |-> effects]) @@ @],
         type, effects)

\* the same for a result
Record(r, at) == Recorded(r.c, at, r.type, r.effects)

Say(c, message, condition) ==
  [c EXCEPT !.diagnostics = @ \o SeqIf(condition, Error(message, next))]

\* the diagnostic of unify_types
Clash(c, a, b) == [c EXCEPT !.diagnostics = @ \o Mismatch(a, b, next)]

\* unify_types of what came before, st, and r: an element of a list, an arm, a branch
Join(st, r) ==
  Result(Clash(r.c, st.type, r.type), Unify(st.type, r.type), st.effects \cup r.effects)

\* scope_define of the names in turn, each with its type, in a new scope
DefineAll(c, names, typeOf) ==
  FoldLeftDomain(
    LAMBDA st, i :
      LET defined == ScopeDefine(st.scope, names[i], Entry(typeOf[i], {}), next)
      IN [scope |-> defined.scope,
          c |-> [st.c EXCEPT !.diagnostics = @ \o defined.errors]],
    [scope |-> <<>>, c |-> c], names)

\* resolve_type_token for each of a list of annotations
ResolveAll(c, names) ==
  [types |-> [i \in DOMAIN names |-> Resolve(records, names[i])],
   c |-> [c EXCEPT !.diagnostics =
            @ \o FlattenSeq([i \in DOMAIN names |-> Unresolved(records, names[i], next)])]]

Annotations(params) == [p \in DOMAIN params |-> params[p].type]
Names(params)       == [p \in DOMAIN params |-> params[p].name]

\* type_function, type_list
FunctionType(params, result, effects) ==
  [kind |-> "function", params |-> params, result |-> result, effects |-> effects]
ListType(element) == [kind |-> "list", element |-> element]

-----------------------------------------------------------------------------
(* Reads through the record pointers of the type pool.  A pointer into a   *)
(* block realloc has freed may find any variant list, or none.             *)

StaleTypes == {t \in DOMAIN types : types[t].kind = "custom" /\ types[t].record.block # block}
Looks == [StaleTypes -> {records[i].variants : i \in DOMAIN records} \cup {<<>>}]

VariantsOf(c, type) ==
  IF type \in DOMAIN c.look THEN c.look[type]
  ELSE IF c.types[type].kind = "custom" THEN records[c.types[type].record.index].variants
  ELSE <<>>

Followed(c, type) == [c EXCEPT !.stale = @ \/ type \in DOMAIN c.look]

-----------------------------------------------------------------------------
RECURSIVE Analyze(_, _, _, _)

\* The children from first on, in turn; unify_types checks the i-th against the
\* i-th of the expected types, as far as there is one.
AnalyzeArgs(c, env, e, at, first, expected) ==
  FoldLeftDomain(
    LAMBDA st, k :
      IF k < first THEN st
      ELSE LET r == Analyze(st.c, env, e.kids[k], Append(at, k))
               i == k - first + 1
           IN [c |-> IF i \in DOMAIN expected THEN Clash(r.c, expected[i], r.type) ELSE r.c,
               effects |-> st.effects \cup r.effects],
    [c |-> c, effects |-> {}], e.kids)

\* analyze_block: the last expression gives the type
AnalyzeBlock(c, env, e, at) ==
  Record(FoldLeftDomain(
           LAMBDA st, k :
             LET item == Analyze(st.c, env, e.kids[k], Append(at, k))
             IN Result(item.c, item.type, st.effects \cup item.effects),
           Result(c, Unit, {}), e.kids),
         at)

\* analyze_literal: a list unifies its elements and has a type of its own
AnalyzeLiteral(c, env, e, at) ==
  IF e.kind # "list"
  THEN Recorded(c, at, CHOOSE t \in DOMAIN BuiltIn : BuiltIn[t].kind = e.kind, {})
  ELSE LET r == FoldLeftDomain(
                  LAMBDA st, k : Join(st, Analyze(st.c, env, e.kids[k], Append(at, k))),
                  Result(c, Unknown, {}), e.kids)
           list == [r.c EXCEPT !.types = Append(@, ListType(r.type))]
       IN Recorded(list, at, Len(list.types), r.effects)

\* analyze_identifier
AnalyzeIdentifier(c, env, e, at) ==
  IF e.name \notin DOMAIN env
  THEN Recorded(Say(c, "undefined identifier", TRUE), at, Unknown, {})
  ELSE Recorded(c, at, env[e.name].type, env[e.name].effects)

\* Mistake: the effects of the function called are forgotten (EffectsComplete).
CallEffectsOfArgs(callee, args, type) == callee \cup args
CallEffects(callee, args, type) == callee \cup args \cup type.effects

\* analyze_call
AnalyzeCall(c, env, e, at) ==
  LET callee == Analyze(c, env, e.kids[1], Append(at, 1))
      type   == callee.c.types[callee.type]
  IN IF type.kind # "function"
     THEN Recorded(Say(callee.c, "attempted to call a non-function value", TRUE),
                   at, Unknown, callee.effects)
     ELSE LET counted == Say(callee.c, "argument count mismatch",
                             Len(type.params) # Len(e.kids) - 1)
              args == AnalyzeArgs(counted, env, e, at, 2, type.params)
          IN Recorded(args.c, at, type.result,
                      CallEffects(callee.effects, args.effects, type))

\* One stage of analyze_pipeline; st is the result so far, its type that of the
\* value that enters the stage.  The stage is recorded with its own effects.
AnalyzeStageCall(st, callee, type, env, stage, at) ==
  LET counted == Say(callee.c, "pipeline stage expects fewer arguments",
                     Len(type.params) < Len(StageArgs(stage)) + 1)
      first == Clash(counted, type.params[1], st.type)
      args  == IF stage.kind = "call"
               THEN AnalyzeArgs(first, env, stage, at, 2, Tail(type.params))
               ELSE [c |-> first, effects |-> {}]
  IN Recorded(args.c, at, type.result, CallEffects(callee.effects, args.effects, type))

AnalyzeStage(st, env, stage, at) ==
  LET callee == Analyze(st.c, env, StageCallee(stage),
                        IF stage.kind = "call" THEN Append(at, 1) ELSE at)
      type   == callee.c.types[callee.type]
      done   == AnalyzeStageCall(st, callee, type, env, stage, at)
  IN IF type.kind # "function" \/ type.params = <<>>
     THEN Recorded(Say(callee.c, "pipeline stage is not callable", TRUE),
                   at, Unknown, st.effects \cup callee.effects)
     ELSE Result(done.c, done.type, st.effects \cup done.effects)

\* analyze_pipeline
AnalyzePipeline(c, env, e, at) ==
  Record(FoldLeftDomain(
           LAMBDA st, k : IF k = 1 THEN st
                          ELSE AnalyzeStage(st, env, e.kids[k], Append(at, k)),
           Analyze(c, env, e.kids[1], Append(at, 1)), e.kids),
         at)

-----------------------------------------------------------------------------
(* Bodies with names of their own: the arms of a match, lambdas *)

\* A body below env in a new scope with the locals, and in one with names of
\* resolved types.
AnalyzeBelow(locals, env, body, at) == Analyze(locals.c, locals.scope @@ env, body, at)
AnalyzeWith(resolved, names, env, body, at) ==
  AnalyzeBelow(DefineAll(resolved.c, names, resolved.types), env, body, at)


\* The payload an arm's names are bound to: that of the first variant of its
\* name, if they are as many.
Payload(variants, arm) ==
  LET named == {v \in DOMAIN variants : variants[v].name = arm.name}
  IN IF named # {} /\ Len(variants[Min(named)].payload) = Len(arm.bindings)
     THEN variants[Min(named)].payload ELSE <<>>

\* One arm; st is the result so far, its type that of the arms before.
AnalyzeArm(st, env, variants, arm, body, at) ==
  LET bound == Payload(variants, arm)
  IN Join(st, AnalyzeWith(ResolveAll(st.c, bound), SubSeq(arm.bindings, 1, Len(bound)),
                          env, body, at))

\* analyze_match, once the scrutinee is analyzed
AnalyzeArms(scrutinee, variants, env, e, at) ==
  LET start == Result(Followed(scrutinee.c, scrutinee.type), Unknown, scrutinee.effects)
      arms  == FoldLeftDomain(
                 LAMBDA st, a : AnalyzeArm(st, env, variants, e.arms[a], e.kids[a + 1],
                                           Append(at, a + 1)),
                 start, e.arms)
      checked == Say(arms.c, "match expression may be non-exhaustive",
                     Covered(variants, e.arms) < Len(variants))
  IN Recorded(checked, at, arms.type, arms.effects)
AnalyzeMatch(c, env, e, at) ==
  LET scrutinee == Analyze(c, env, e.kids[1], Append(at, 1))
  IN AnalyzeArms(scrutinee, VariantsOf(scrutinee.c, scrutinee.type), env, e, at)

-----------------------------------------------------------------------------
\* analyze_if: a missing else branch is a Unit
AnalyzeIf(c, env, e, at) ==
  LET condition == Analyze(c, env, e.kids[1], Append(at, 1))
      checked   == Say(condition.c, "if condition must be Bool",
                       condition.type \notin {Bool, Unknown})
      then      == Analyze(checked, env, e.kids[2], Append(at, 2))
      else      == IF Len(e.kids) = 3 THEN Analyze(then.c, env, e.kids[3], Append(at, 3))
                   ELSE Result(then.c, Unit, {})
      both      == Join(then, else)
  IN Recorded(both.c, at, both.type, condition.effects \cup both.effects)

\* analyze_while
AnalyzeWhile(c, env, e, at) ==
  LET condition == Analyze(c, env, e.kids[1], Append(at, 1))
      body == Analyze(Clash(condition.c, Bool, condition.type), env, e.kids[2], Append(at, 2))
  IN Recorded(body.c, at, Unit, condition.effects \cup body.effects)

\* analyze_lambda: the effects of the body are those of a call
LambdaType(paramTypes, body) ==
  [body.c EXCEPT !.types = Append(@, FunctionType(paramTypes, body.type, body.effects))]
AnalyzeLambda(c, env, e, at) ==
  LET resolved == ResolveAll(c, Annotations(e.params))
      body     == AnalyzeWith(resolved, Names(e.params), env, e.kids[1], Append(at, 1))
      lambda   == LambdaType(resolved.types, body)
  IN Recorded(lambda, at, Len(lambda.types), {})

\* async, await and effect; a parenthesis passes the result on unrecorded
MarkEffects == [async |-> {"async"}, await |-> {}, effect |-> {"impure"}]

AnalyzeUnary(c, env, e, at) ==
  LET value == Analyze(c, env, e.kids[1], Append(at, 1))
  IN IF e.kind = "paren" THEN value
     ELSE Recorded(value.c, at, value.type, MarkEffects[e.kind] \cup value.effects)

\* analyze_expr
Analyze(c, env, e, at) ==
  CASE e.kind \in {"number", "string", "bool", "unit", "list"} -> AnalyzeLiteral(c, env, e, at)
    [] e.kind = "identifier" -> AnalyzeIdentifier(c, env, e, at)
    [] e.kind = "block"      -> AnalyzeBlock(c, env, e, at)
    [] e.kind = "lambda"     -> AnalyzeLambda(c, env, e, at)
    [] e.kind = "call"       -> AnalyzeCall(c, env, e, at)
    [] e.kind = "pipe"       -> AnalyzePipeline(c, env, e, at)
    [] e.kind = "if"         -> AnalyzeIf(c, env, e, at)
    [] e.kind = "while"      -> AnalyzeWhile(c, env, e, at)
    [] e.kind = "match"      -> AnalyzeMatch(c, env, e, at)
    [] e.kind \in {"async", "await", "effect", "paren"} -> AnalyzeUnary(c, env, e, at)

-----------------------------------------------------------------------------
(* The second loop of nova_semantic_analyze_program, a declaration a step. *)

At(kind) == pass = "functions" /\ next \in DOMAIN program /\ program[next].kind = kind

Context(look) == [types |-> types, diagnostics |-> diagnostics, info |-> info,
                  look |-> look, stale |-> FALSE]

\* what analyze_let computes: the value before its annotation, then the name
LetDefined(d, value, resolved) ==
  LET checked == Clash(resolved.c, resolved.types[1], value.type)
      defined == ScopeDefine(scope, d.name,
                   Entry(Unify(resolved.types[1], value.type), value.effects), next)
  IN [c |-> [checked EXCEPT !.diagnostics = @ \o defined.errors], scope |-> defined.scope]
LetResult(d, look) ==
  LET value == Analyze(Context(look), scope, d.value, <<next>>)
  IN LetDefined(d, value, ResolveAll(value.c, <<d.type>>))

\* Mistake: a function without annotation keeps the unknown result its body was
\* analyzed under (TypesSound).
FunctionResultUnknown(d, declared, body) == declared
\* the result of a function, once its body is known
FunctionResult(d, declared, body) == IF d.result # None THEN declared ELSE body

\* Mistake: the name of the function is defined after its body (UseBeforeDeclaration).
BodyScopeWithoutSelf(locals, global) == locals @@ scope
\* fn_scope, in the scope that has the function's name
BodyScope(locals, global) == locals @@ global

\* Mistake: the parameters stay in scope (ImplementsTypeTables).
LeaveScopeOpen(locals, global) == locals @@ global
\* scope_free of fn_scope
LeaveScope(locals, global) == global

\* What analyze_fun computes.  The name is in scope in the body, with an unknown
\* result unless there is an annotation, and without effects.  The body is
\* analyzed below the parameters, then the function's type is completed.
Self == Len(types) + 1

FunBody(d, declared, locals, global) ==
  LET body == Analyze(locals.c, BodyScope(locals.scope, global), d.body, <<next>>)
  IN [c |-> [body.c EXCEPT !.types[Self].result = FunctionResult(d, declared, body.type),
                           !.types[Self].effects = body.effects],
      scope |-> LeaveScope(locals.scope, global)]

FunDefined(d, params, declared, c, defined) ==
  LET typed == [c EXCEPT !.types = Append(@, FunctionType(params, declared, {})),
                         !.diagnostics = @ \o defined.errors]
  IN FunBody(d, declared, DefineAll(typed, Names(d.params), params), defined.scope)

FunResult(d, look) ==
  LET params == ResolveAll(Context(look), Annotations(d.params))
      result == ResolveAll(params.c, <<d.result>>)
  IN FunDefined(d, params.types, result.types[1], result.c,
                ScopeDefine(scope, d.name, Entry(Self, {}), next))

Finish(r) ==
  /\ types' = r.c.types /\ diagnostics' = r.c.diagnostics /\ info' = r.c.info
  /\ scope' = r.scope /\ next' = next + 1
  /\ UNCHANGED <<program, records, capacity, block, pass>>

AnalyzeLet == At("let") /\ \E look \in Looks : Finish(LetResult(program[next], look))
AnalyzeFun == At("fun") /\ \E look \in Looks : Finish(FunResult(program[next], look))

\* Using freed memory may also end the program.
Crash ==
  /\ StaleTypes # {}
  /\ \E look \in Looks : \/ At("fun") /\ FunResult(program[next], look).c.stale
                         \/ At("let") /\ LetResult(program[next], look).c.stale
  /\ pass' = "crashed"
  /\ UNCHANGED <<program, types, records, capacity, block, scope, diagnostics, next, info>>

FrontInit == Init /\ info = <<>>

FrontNext ==
  \/ RegisterType /\ UNCHANGED info
  \/ NextDeclaration /\ UNCHANGED info
  \/ AnalyzeLet \/ AnalyzeFun \/ Crash

FrontSpec == FrontInit /\ [][FrontNext]_frontVars

-----------------------------------------------------------------------------
(* Properties.  They read the source program, not the analyzer's tables.   *)

Tables == INSTANCE TypeTables

\* Analysis keeps to what TypeTables promises of types, constructors, names and
\* diagnostics: the second pass adds to the tables and changes nothing in them,
\* and only where the array of records has moved may it crash
\* (nova_semantic_analyze_program).
ImplementsTypeTables == Tables!Start /\ [][Tables!Next]_vars

\* the declaration a type name stands for
TypeNamed(name) == {d \in DOMAIN program : FirstNamed(d) /\ program[d].name = name}

ArmNames(e) == {e.arms[a].name : a \in DOMAIN e.arms}

\* functions that do nothing but match on their parameter
MatchFuns == {d \in DOMAIN program :
  /\ program[d].kind = "fun" /\ program[d].body.kind = "match"
  /\ Len(program[d].params) = 1
  /\ program[d].body.kids[1] = Id(program[d].params[1].name)}

\* README.md:27-28, docs/language.md:138: a match over a sum type must name all
\* of its variants; the analyzer warns of exactly the matches that do not, and
\* gets to the end of every program.
ExhaustivenessReported ==
  /\ pass # "crashed"
  /\ pass = "done" => \A d \in MatchFuns :
       Reports("match expression may be non-exhaustive", d)
         <=> \E t \in TypeNamed(program[d].params[1].type) :
               ~(VariantNames(t) \subseteq ArmNames(program[d].body))

\* The same, for the programs whose array of records was never moved.
ExhaustivenessInPlace == InPlace => ExhaustivenessReported

\* the names a declaration may use: constructors, earlier declarations, its own
\* parameters, and itself if it is a function
Usable(d) ==
  UNION {VariantNames(t) : t \in {t \in DOMAIN program : program[t].kind = "sum"}}
  \cup {program[c].name : c \in {c \in 1..(d - 1) : ~IsType(c)}}
  \cup ParamNames(program[d])
  \cup (IF program[d].kind = "fun" THEN {program[d].name} ELSE {})

\* The second pass goes through let and fun in order, so a name declared later
\* is unknown.  A declaration that uses such a name has an error, and a
\* declaration is said to have an undefined identifier only if it has one
\* (analyze_identifier; the early returns of analyze_call skip arguments, and
\* an arm binds nothing when its variant has another number of fields).
UseBeforeDeclaration ==
  pass = "done" => \A d \in DOMAIN program : ~IsType(d) =>
    LET unknown == FreeNames(Body(program[d])) \ Usable(d)
        hasArms == \E e \in Within(Body(program[d])) :
                     e.kind = "match" /\ \E a \in DOMAIN e.arms : e.arms[a].bindings # <<>>
    IN /\ unknown # {} => \E i \in DOMAIN diagnostics : diagnostics[i].at = d
       /\ Reports("undefined identifier", d) => unknown # {} \/ hasArms

-----------------------------------------------------------------------------
(* What the analyzer infers, compared with what programs do.               *)

CallDepth == 3

RECURSIVE HasType(_, _)
\* Is v a value of the type?  A function is looked at when it is called.
HasType(v, type) ==
  LET t == types[type]
  IN CASE t.kind = "unknown"  -> TRUE
       [] t.kind = "list"     -> v.kind = "list" /\ \A i \in DOMAIN v.items : HasType(v.items[i], t.element)
       [] t.kind = "function" -> v.kind \in {"function", "constructor"}
       [] t.kind = "custom"   -> /\ v.kind = "variant"
                                 /\ \E x \in ToSet(records[t.record.index].variants) : x.name = v.name
       [] OTHER               -> v.kind = t.kind

\* some values of a type; constructors are nested at most twice
RECURSIVE ValuesOf(_, _)
ValuesOf(type, nested) ==
  LET t == types[type]
  IN CASE t.kind = "unknown"  -> {Scalar("number", "1"), Scalar("bool", "true")}
       [] t.kind = "number"   -> {Scalar("number", "1")}
       [] t.kind = "string"   -> {Scalar("string", "s")}
       [] t.kind = "unit"     -> {UnitValue}
       [] t.kind = "bool"     -> {Scalar("bool", "true"), Scalar("bool", "false")}
       [] t.kind = "custom" /\ nested > 0 ->
            UNION {LET values == [i \in DOMAIN x.payload |->
                                    ValuesOf(Resolve(records, x.payload[i]), nested - 1)]
                   IN {VariantValue(x.name, items) :
                         items \in {f \in [DOMAIN values -> UNION {values[i] : i \in DOMAIN values}] :
                                      \A i \in DOMAIN f : f[i] \in values[i]}} :
                   x \in ToSet(records[t.record.index].variants)}
       [] OTHER -> {}

\* what the d-th declaration, a function, may be called with, and those runs
Arguments(d) ==
  LET params == types[scope[program[d].name].type].params
      values == [i \in DOMAIN params |-> ValuesOf(params[i], 2)]
  IN {f \in [DOMAIN params -> UNION {values[i] : i \in DOMAIN params}] :
        \A i \in DOMAIN f : f[i] \in values[i]}
Runs(d) == {Meaning(program, d, args, CallDepth) : args \in Arguments(d)}

Funs == {d \in DOMAIN program : program[d].kind = "fun"}
Accepted == pass = "done" /\ diagnostics = <<>>

\* Effect tracking (README.md:5,27; docs/language.md:150): in a program without
\* diagnostics, a mark a call of a function passes is among the effects inferred
\* for it, through calls, recursion, lambdas, pipelines and shadowed names.
EffectsComplete ==
  Accepted /\ InPlace => \A d \in Funs : \A o \in Runs(d) :
    o.effects \subseteq types[scope[program[d].name].type].effects

\* Programs whose types the analyzer takes on trust: a parameter or payload
\* without annotation, an annotated result, which is not compared with the
\* body, and a function that calls itself, whose result is unknown until then.
TakenOnTrust ==
  \E d \in DOMAIN program :
    \/ /\ ~IsType(d)
       /\ \E e \in Within(Body(program[d])) : e.kind = "lambda" /\ None \in ToSet(Annotations(e.params))
    \/ /\ program[d].kind = "fun"
       /\ \/ None \in ToSet(Annotations(program[d].params)) \/ program[d].result # None
          \/ program[d].name \in FreeNames(program[d].body)
    \/ program[d].kind = "sum" /\ \E v \in ToSet(program[d].variants) : None \in ToSet(v.payload)

\* Type inference (README.md:5,27; docs/language.md:54-55): in a program without
\* diagnostics and with nothing taken on trust, no call goes wrong, but for the
\* two mistakes the analyzer never reports (a pipeline stage with too few
\* arguments, a match on a value that is no variant), and what a function
\* returns has the type inferred for it.
TypesSound ==
  Accepted /\ InPlace /\ ~TakenOnTrust => \A d \in Funs : \A o \in Runs(d) :
    /\ o.status = "stuck" => o.value \in {"stage", "no variant"}
    /\ o.status = "value" => HasType(o.value, types[scope[program[d].name].type].result)
=============================================================================
