----------------------------- MODULE MCPipeline -----------------------------
(***************************************************************************)
(* Small programs for the pipeline, as Clang and mem2reg give them.        *)
(***************************************************************************)
EXTENDS Pipeline

N(x) == <<x>>
X(x) == Var(<<x>>)
Nondet(x) == Inst("call", <<N(x)>>, "__VERIFIER_nondet_int", <<>>, "")
Bin(op, x, l, r, loc) == Inst(op, <<N(x)>>, "", <<l, r>>, loc)
CallTo(x, f, args) == Inst("call", x, f, args, "")
Fails(f, loc) == Inst("call", <<>>, f, <<>>, loc)
Load(x, g) == Inst("load", <<N(x)>>, g, <<>>, "")
Store(g, v) == Inst("store", <<>>, g, <<v>>, "")
Fn(args, blocks) ==
  [args |-> args, entry |-> N("entry"), blocks |-> blocks, dsp |-> TRUE, vararg |-> FALSE]
Global(init) == [init |-> init, hasInit |-> TRUE, di |-> TRUE, users |-> "none"]

(* An undef operand, an assumption, a failing callee and a division.       *)
Callee ==
  [globals |-> <<>>,
   funs |->
     "main" :> Fn(<<>>,
        N("entry") :> Block(<<Nondet("x"), Inst("call", <<>>, "klee_assume", <<X("x")>>, ""),
                              CallTo(<<N("r")>>, "f", <<X("x"), Undef>>),
                              Bin("div", "y", Const(2), X("r"), "m1")>>, CondBr(X("y"), N("bad"), N("ok")))
        @@ N("ok") :> Block(<<>>, Ret(<<>>))
        @@ N("bad") :> Block(<<Fails("__assert_fail", "m2")>>, Unreachable))
     @@ "f" :> Fn(<<N("a"), N("b")>>,
        N("entry") :> Block(<<Bin("ne", "t", X("a"), Const(2), "")>>, CondBr(X("t"), N("div"), N("two")))
        @@ N("div") :> Block(<<Bin("div", "q", X("a"), X("b"), "f1"), Bin("div", "q", X("a"), X("q"), "f2")>>,
                             Ret(<<X("q")>>))
        @@ N("two") :> Block(<<>>, CondBr(X("b"), N("err"), N("out")))
        @@ N("out") :> Block(<<>>, Ret(<<Undef>>))
        @@ N("err") :> Block(<<Fails("reach_error", "f3")>>, Unreachable))]

(* Calls in a chain; g is called from two functions and keeps a static      *)
(* variable, k is called once and keeps another.                           *)
Chain ==
  [globals |-> "s" :> Global(0) @@ "t" :> Global(1) @@ "u" :> [Global(1) EXCEPT !.users = "constant"]
               @@ "v" :> [Global(1) EXCEPT !.hasInit = FALSE, !.di = FALSE],
   funs |->
     "main" :> Fn(<<>>,
        N("entry") :> Block(<<Store("u", Const(2)), Nondet("x"), CallTo(<<>>, "h", <<X("x")>>),
                              CallTo(<<N("r")>>, "g", <<Const(1)>>), Load("w", "u"), Store("v", X("w"))>>,
                            Ret(<<>>)))
     @@ "h" :> Fn(<<N("a")>>,
        N("entry") :> Block(<<CallTo(<<N("r")>>, "g", <<X("a")>>), CallTo(<<N("r")>>, "k", <<X("r")>>)>>, Ret(<<>>)))
     @@ "k" :> Fn(<<N("a")>>,
        N("entry") :> Block(<<Load("p", "t"), Bin("add", "p", X("p"), X("a"), ""), Store("t", X("p")),
                              Bin("ne", "z", X("p"), Const(1), "")>>, CondBr(X("z"), N("out"), N("err")))
        @@ N("out") :> Block(<<>>, Ret(<<X("p")>>))
        @@ N("err") :> Block(<<Fails("__VERIFIER_error", "k1")>>, Unreachable))
     @@ "g" :> Fn(<<N("a")>>,
        N("entry") :> Block(<<Load("p", "s"), Bin("add", "p", X("p"), X("a"), ""), Store("s", X("p")),
                              Bin("ne", "z", X("p"), Const(2), "")>>, CondBr(X("z"), N("out"), N("err")))
        @@ N("out") :> Block(<<>>, Ret(<<X("p")>>))
        @@ N("err") :> Block(<<Fails("__VERIFIER_error", "g1")>>, Unreachable))]

(* A recursive function that swaps its arguments and fails itself.         *)
Recursive ==
  [globals |-> "s" :> Global(0),
   funs |->
     "main" :> Fn(<<>>,
        N("entry") :> Block(<<Nondet("x"), CallTo(<<N("r")>>, "f", <<X("x"), Const(2)>>),
                              CallTo(<<>>, "k", <<X("r")>>)>>, Ret(<<>>)))
     @@ "k" :> [Fn(<<N("a")>>,
        N("entry") :> Block(<<Load("p", "s"), Store("s", X("a")), Bin("div", "q", Const(1), X("a"), "k1")>>,
                            Ret(<<>>))) EXCEPT !.vararg = TRUE]
     @@ "f" :> Fn(<<N("a"), N("b")>>,
        N("entry") :> Block(<<>>, CondBr(X("a"), N("more"), N("end")))
        @@ N("more") :> Block(<<Bin("add", "c", X("a"), Const(2), ""),
                                CallTo(<<N("r")>>, "f", <<X("b"), X("c")>>)>>, Ret(<<X("r")>>))
        @@ N("end") :> Block(<<Bin("ne", "t", X("b"), Const(1), "")>>, CondBr(X("t"), N("out"), N("err")))
        @@ N("out") :> Block(<<>>, Ret(<<X("b")>>))
        @@ N("err") :> Block(<<Fails("__gazer_error", "f1")>>, Unreachable))]

(* Recursion through a function without an error of its own, and through   *)
(* two functions.                                                          *)
Passing(rec) ==
  [globals |-> <<>>,
   funs |->
     "main" :> Fn(<<>>, N("entry") :> Block(<<Nondet("x"), CallTo(<<>>, "f", <<X("x")>>),
                                             Bin("div", "q", Const(1), X("x"), "m1")>>, Ret(<<>>)))
     @@ "f" :> Fn(<<N("a")>>,
        N("entry") :> Block(<<>>, CondBr(X("a"), N("more"), N("end")))
        @@ N("more") :> Block(<<Bin("add", "c", X("a"), Const(2), ""), CallTo(<<>>, rec, <<X("c")>>)>>, Ret(<<>>))
        @@ N("end") :> Block(<<CallTo(<<>>, "g", <<X("a")>>)>>, Ret(<<>>)))
     @@ "g" :> Fn(<<N("a")>>,
        N("entry") :> Block(<<>>, CondBr(X("a"), N("more"), N("err")))
        @@ N("more") :> Block(IF rec = "f" THEN <<>> ELSE <<CallTo(<<>>, "f", <<X("a")>>)>>, Ret(<<>>))
        @@ N("err") :> Block(<<Fails("__VERIFIER_error", "g1")>>, Unreachable))]

(* Sanitized additions; a function without debug information in the middle. *)
Overflow ==
  [globals |-> <<>>,
   funs |->
     "main" :> Fn(<<>>,
        N("entry") :> Block(<<Nondet("x")>>, Br(N("head")))
        @@ N("head") :> Block(<<CallTo(<<N("x")>>, "w", <<X("x")>>)>>, CondBr(X("x"), N("head"), N("out")))
        @@ N("out") :> Block(<<>>, Ret(<<>>)))
     @@ "w" :> [Fn(<<N("a")>>, N("entry") :> Block(<<CallTo(<<N("r")>>, "i", <<X("a")>>)>>, Ret(<<X("r")>>)))
                EXCEPT !.dsp = FALSE]
     @@ "i" :> Fn(<<N("a")>>,
        N("entry") :> Block(<<Inst("call", <<N("s"), N("o")>>, WithOverflow, <<X("a"), Const(1)>>, "i1")>>,
                            CondBr(X("o"), N("trap"), N("out")))
        @@ N("trap") :> Block(<<Fails("__ubsan_handle_add_overflow_abort", "i1")>>, Unreachable)
        @@ N("out") :> Block(<<>>, Ret(<<X("s")>>)))]

(* Two calls of error functions in a block. *)
Twice ==
  [globals |-> <<>>,
   funs |-> "main" :> Fn(<<>>, N("entry") :> Block(<<Nondet("x"), Fails("__VERIFIER_error", "m1"),
                                                   Fails("__VERIFIER_error", "m2")>>, Ret(<<>>)))]

MCPrograms == {Callee, Chain, Recursive, Passing("f"), Passing("g"), Overflow, Twice}

File(d, n, e) == [dir |-> d, name |-> n, ext |-> e, compiles |-> TRUE]
One == <<File("a", "x", "c")>>
Base == [checks |-> <<>>, inlineLevel |-> "Default", inlineGlobals |-> TRUE, liftAsserts |-> TRUE,
         skipPipeline |-> FALSE, function |-> "main", files |-> One,
         witness |-> FALSE, hash |-> FALSE, testHarness |-> FALSE]
MCSettings ==
  {[Base EXCEPT !.checks = c, !.inlineLevel = l, !.inlineGlobals = g, !.liftAsserts = a] :
     c \in {<<>>, <<"all">>, <<"div-by-zero", "bogus", "div-by-zero">>},
     l \in {"Off", "Default", "All"}, g \in BOOLEAN, a \in BOOLEAN}
  \cup {[Base EXCEPT !.skipPipeline = TRUE], [Base EXCEPT !.function = "start"]}
  \cup {[Base EXCEPT !.files = f] :
          f \in {<<File("a", "x", "cpp")>>, <<[File("a", "x", "c") EXCEPT !.compiles = FALSE]>>,
                 <<File("a", "x", "c"), File("b", "x", "i")>>}}
  \cup {[Base EXCEPT !.files = f, !.checks = <<"signed-overflow">>, !.witness = TRUE, !.hash = h,
                     !.testHarness = TRUE] :
          f \in {One, <<File("a", "x", "c"), File("b", "y", "bc")>>}, h \in BOOLEAN}
=============================================================================
