------------------------------ MODULE MCTheta ------------------------------
(***************************************************************************)
(* Programs for ThetaVerifier, in the shape the translation from LLVM      *)
(* gives them: a block has an entry and an exit location, a loop is an     *)
(* automaton that calls itself from a location of its own.                 *)
(***************************************************************************)
EXTENDS ThetaVerifier

M(x) == V(<<x>>)
L(p, x) == V(<<p, "/", x>>)
Step(s, d) == AssignEdge(s, d, True, <<>>)
When(s, d, g) == AssignEdge(s, d, g, <<>>)
Do(s, d, x, e) == AssignEdge(s, d, True, <<Assign(x, e)>>)
Inst(op, x, def) ==
  [op |-> op, x |-> x, def |-> def, cond |-> NoVar, from |-> [p |-> "main", l |-> Entry]]
Phi(x, def, p, l) == [Inst("phi", x, def) EXCEPT !.from = [p |-> p, l |-> l]]
Select(c, x, def) == [Inst("select", x, def) EXCEPT !.cond = c]
At(p, l) == [p |-> p, l |-> l]

(* main: a block, a call of the loop p, a block that checks the result r.  *)
Main(p, args, out, bad, codes) ==
  [name |-> "main", inputs |-> <<>>, outputs |-> <<>>, locals |-> <<M("r")>>, n |-> 8,
   err |-> 7 :> Lit(codes),
   edges |-> << Step(0, 2), Step(2, 3),
                CallEdge(3, 4, True, p, args, <<Assign(M("r"), Ref(out))>>),
                Step(4, 5), Step(5, 6), When(6, 7, bad),
                When(6, 1, IF bad.k = "eq" THEN IsNot(bad.x, bad.c) ELSE Is(bad.x, bad.c)) >>]
MainBlocks ==
  At("main", 2) :> <<Inst("entry", NoVar, NoVar), Inst("undef", NoVar, M("u"))>>
  @@ At("main", 5) :> <<Phi(M("u"), M("w"), "main", 2), Inst("returned", NoVar, NoVar),
                        Inst("dbg", M("r"), NoVar), Inst("use", M("u"), NoVar),
                        Inst("use", M("w"), NoVar)>>

(* A loop that runs while the condition holds. *)
Loop(p, ins, o, val, more, args) ==
  [name |-> p, inputs |-> ins, outputs |-> <<o>>, locals |-> <<o>>, n |-> 5, err |-> <<>>,
   edges |-> << Step(0, 2), Step(2, 3), When(3, 4, more),
                AssignEdge(3, 1, IF more.k = "eq" THEN IsNot(more.x, more.c) ELSE Is(more.x, more.c),
                           <<Assign(o, val)>>),
                CallEdge(4, 1, True, p, args, <<Assign(o, Ref(o))>>) >>]

fi == L("f", "i")
fj == L("f", "j")
fo == L("f", "o")
gi == L("g", "i")
go == L("g", "o")
LoopBlock == At("f", 2) :> <<Inst("dbg", fi, NoVar), Inst("dummy", fi, NoVar)>>

(* Two variables swapped by an iteration. *)
Swap(bad) ==
  [main |-> "main", blocks |-> MainBlocks @@ LoopBlock,
   cfas |-> "main" :> Main("f", <<Assign(fi, Lit(1)), Assign(fj, Lit(0))>>, fo, bad, 2)
         @@ "f" :> Loop("f", <<fi, fj>>, fo, Ref(fj), Is(fi, 1),
                        <<Assign(fi, Ref(fj)), Assign(fj, Ref(fi))>>)]
Count ==
  [main |-> "main", blocks |-> MainBlocks @@ LoopBlock,
   cfas |-> "main" :> Main("f", <<Assign(fi, Lit(0))>>, fo, Is(M("r"), 2), 2)
         @@ "f" :> Loop("f", <<fi>>, fo, Ref(fi), IsNot(fi, 2), <<Assign(fi, Plus(fi, 1))>>)]
(* A loop in a loop; the inner one fails with a code of its own. *)
Nested ==
  [main |-> "main", blocks |-> MainBlocks @@ LoopBlock,
   cfas |-> "main" :> Main("f", <<Assign(fi, Lit(1))>>, fo, IsNot(M("r"), 0), 2)
         @@ "f" :> [Loop("f", <<fi>>, fo, Lit(0), IsNot(fi, 0), <<Assign(fi, Plus(fi, 2))>>)
                      EXCEPT !.n = 6, !.locals = Append(@, L("f", "t")),
                             !.edges = <<CallEdge(2, 5, True, "g", <<Assign(gi, Ref(fi))>>,
                                                  <<Assign(L("f", "t"), Ref(go))>>),
                                         When(5, 3, IsNot(L("f", "t"), 0))>>
                                       \o SelectSeq(@, LAMBDA e : e.src # 2)]
         @@ "g" :> [Loop("g", <<gi>>, go, Ref(gi), Is(gi, 1), <<Assign(gi, Plus(gi, 1))>>)
                      EXCEPT !.n = 6, !.err = 5 :> Lit(1), !.edges = Append(@, When(3, 5, Is(gi, 0)))]]
(* Straight code: two errors behind a choice, and no error at all. *)
Straight(err) ==
  [main |-> "main",
   blocks |-> At("main", 2) :> <<Inst("entry", NoVar, NoVar), Inst("call", NoVar, M("x"))>>
           @@ At("main", 4) :> <<Inst("undef", NoVar, M("c")), Inst("gwrite", M("x"), NoVar),
                                 Select(M("c"), M("x"), M("s"))>>
           @@ At("main", 6) :> <<Inst("ret", M("x"), NoVar)>>,
   cfas |-> "main" :>
     [name |-> "main", inputs |-> <<>>, outputs |-> <<>>, locals |-> <<M("x")>>, n |-> 10,
      err |-> err,
      edges |-> << Step(0, 2), Do(2, 3, M("x"), Undef), When(3, 4, IsNot(M("x"), 0)),
                   When(3, 6, Is(M("x"), 0)), Step(4, 5), When(5, 8, Is(M("x"), 1)),
                   When(5, 9, Is(M("x"), 2)), Step(6, 7), Step(7, 1) >>]]
(* Names that are the same once the dot is replaced. *)
Names ==
  [main |-> "main", blocks |-> At("main", 2) :> <<Inst("retvoid", NoVar, NoVar)>>,
   cfas |-> "main" :>
     [name |-> "main", inputs |-> <<>>, outputs |-> <<>>, n |-> 5,
      locals |-> <<V(<<"x", ".", "1">>), V(<<"x", "_", "1">>), V(<<"x", "/", "1">>)>>,
      err |-> 4 :> Ref(V(<<"x", ".", "1">>)),
      edges |-> << Step(0, 2),
                   AssignEdge(2, 3, True, <<Assign(V(<<"x", ".", "1">>), Lit(1)),
                                            Assign(V(<<"x", "_", "1">>), Lit(0)),
                                            Assign(V(<<"x", "/", "1">>), Undef)>>),
                   When(3, 4, Is(V(<<"x", ".", "1">>), 1)), When(3, 1, Is(V(<<"x", "_", "1">>), 1)) >>]]
(* A recursion that does more after the call. *)
NotTail ==
  [Swap(Is(M("r"), 0)) EXCEPT
    !.cfas["f"].edges = SelectSeq(@, LAMBDA e : ~IsCall(e))
      \o <<CallEdge(4, 2, True, "f", <<Assign(fi, Ref(fj)), Assign(fj, Ref(fi))>>,
                    <<Assign(fo, Ref(fo))>>)>>]

MCPrograms ==
  "swap" :> Swap(Is(M("r"), 0)) @@ "swapped" :> Swap(Is(M("r"), 1)) @@ "count" :> Count
  @@ "nested" :> Nested @@ "choice" :> Straight(8 :> Lit(1) @@ 9 :> Lit(2))
  @@ "safe" :> Straight(<<>>) @@ "names" :> Names @@ "not tail" :> NotTail
MCFaults == SetupFaults \cup {"launch", "timeout", "crash", "output", "garbage", "no cex file",
                              "no trace", "truncated", "value"}
MCValues == 0 .. 2
============================================================================
