---------------------------- MODULE ExprStorage ----------------------------
(***************************************************************************)
(* The expressions of a GazerContext: a hash table with chaining through   *)
(* the expressions' own mNextPtr, reference counts, and a destroy() that   *)
(* frees arbitrarily deep expressions without recursion by threading the   *)
(* doomed ones on a list through the same mNextPtr.                        *)
(*                                                                         *)
(* One step is one iteration of a loop over operands, list members or the  *)
(* nodes moved by a rehash; the walk along one bucket is part of the step  *)
(* that makes it.  `pending` and `moving` are the locals of a running      *)
(* createIfNotExists() and of its rehashTable(), `stack` has the           *)
(* activations of destroy() and of deletes: when there is none of either,  *)
(* control is with the client.                                             *)
(***************************************************************************)
EXTENDS Integers, Sequences, FiniteSetsExt, Lists

CONSTANTS
  Places,              \* heap addresses, not 0 or 1
  DefaultBucketCount,  \* 64 in the code
  LeafExprs,           \* the atoms: [kind, type, data]
  Shapes,              \* [expr, arity] of the structures with operands
  HashCombine(_, _),   \* the hash of a sequence of pointers and a number
  MaxHandles           \* bound on the references held from outside

VARIABLES
  expr,         \* mKind, mType and the value, index, ... of every object
  ops,          \* mOperands, or the members of an array literal
  hash,         \* mHashCode
  rc,           \* mRefCount
  next,         \* mNextPtr
  buckets,      \* mStorage: the first expression of every bucket
  bucketCount,  \* mBucketCount
  entries,      \* mEntryCount
  handles,      \* references held by clients (ExprPtrs, Variables, the context)
  got,          \* the latest answer to a client: structure asked for and object
  pending,      \* the structure that createIfNotExists() did not find
  moving,       \* the locals of rehashTable(): i, current and newStorage
  stack         \* activations of destroy() and delete, innermost last

objects == <<expr, ops, hash, rc, next>>
table == <<buckets, bucketCount, entries>>
client == <<handles, got>>
creation == <<pending, moving>>
vars == <<objects, table, client, creation, stack>>

True == 1                      \* the address of TrueLit, outside of the table
Addr == Places \cup {True}

ExprData == [kind : STRING, type : STRING, data : Nat]
TrueExpr == [kind |-> "Literal", type |-> "Bool", data |-> 1]
TrueKey == [expr |-> TrueExpr, ops |-> <<>>]
NoExpr == [kind |-> "free", type |-> "none", data |-> 0]
Nothing == [key |-> TrueKey, obj |-> True]

Allocated == {a \in Addr : expr[a] # NoExpr}
IsNonNullary(e) == e.kind \notin {"Literal", "VarRef", "Undef", "Array"}
Key(a) == [expr |-> expr[a], ops |-> ops[a]]

(* The structures a client can ask for when it holds the objects in S. *)
KeysOver(S) ==
  {[expr |-> e, ops |-> <<>>] : e \in LeafExprs} \cup
  UNION {{[expr |-> s.expr, ops |-> o] : o \in [1 .. s.arity -> S]} : s \in Shapes}

(* Operands enter a hash as pointers, the other parts by value; the type   *)
(* enters only that of an undef, whose data it is.                         *)
KindPrime(kind) == CASE kind = "Add" -> 1 [] kind = "Extract" -> 3 [] OTHER -> 0
HashValue(key) ==
  IF IsNonNullary(key.expr) \/ key.expr.kind = "Array"
  THEN HashCombine(key.ops, key.expr.data + KindPrime(key.expr.kind))
  ELSE key.expr.data

ASSUME PlacesAssumption == Places \subseteq Nat \ {0, 1} /\ IsFiniteSet(Places)
ASSUME BucketAssumption == DefaultBucketCount \in Nat \ {0}
ASSUME ExprAssumption ==
  /\ LeafExprs \subseteq ExprData \ {NoExpr, TrueExpr}
  /\ Shapes \subseteq [expr : ExprData \ {NoExpr, TrueExpr}, arity : Nat]
ASSUME HashAssumption == \A key \in KeysOver(Addr) : HashValue(key) \in Nat

(* Structure is compared after kind and type; operands by identity. *)
EqualsAnyType(a, key) ==   \* mutant: the hash ignores the type, and so does this
  expr[a].kind = key.expr.kind /\ ops[a] = key.ops /\ expr[a].data = key.expr.data
Equals(a, key) ==
  /\ expr[a].kind = key.expr.kind /\ expr[a].type = key.expr.type
  /\ ops[a] = key.ops /\ expr[a].data = key.expr.data

Slot(h, n) == h % n
BucketOfOldTable(h) ==   \* mutant: the bucket is not looked up again
  Slot(h, DefaultBucketCount)
BucketForHash(h) == Slot(h, bucketCount)
NeedsRehash(n) == n * 4 >= bucketCount * 3

(* The expressions on the list that starts at p. *)
Chain(p) == ListFrom(next, p)

-----------------------------------------------------------------------------
Creation(op, key) == [op |-> op, key |-> key, hash |-> HashValue(key)]
NoCreation == Creation("none", TrueKey)
NoRehash == [i |-> 0, cur |-> Nil, to |-> <<>>]

(* GazerContextImpl: TrueLit and FalseLit are alike, one is enough. *)
Init ==
  /\ expr = [a \in Addr |-> IF a = True THEN TrueExpr ELSE NoExpr]
  /\ ops = [a \in Addr |-> <<>>]
  /\ hash = [a \in Addr |-> IF a = True THEN True ELSE 0]
  /\ rc = [a \in Addr |-> IF a = True THEN 1 ELSE 0]
  /\ next = [a \in Addr |-> Nil]
  /\ buckets = [i \in 0 .. DefaultBucketCount - 1 |-> Nil]
  /\ bucketCount = DefaultBucketCount
  /\ entries = 0
  /\ handles = [a \in Addr |-> IF a = True THEN 1 ELSE 0]
  /\ got = Nothing
  /\ pending = NoCreation
  /\ moving = NoRehash
  /\ stack = <<>>

Idle == stack = <<>> /\ pending.op = "none"
Holding == {a \in Addr : handles[a] > 0}

(* While there is a context, a client may ask it for an expression. *)
CanHoldMore ==
  handles[True] > 0 /\ MapThenSumSet(LAMBDA a : handles[a], Addr) < MaxHandles
Answer(key, a) ==
  /\ rc' = [rc EXCEPT ![a] = @ + 1]
  /\ handles' = [handles EXCEPT ![a] = @ + 1]
  /\ got' = [key |-> key, obj |-> a]

(* createIfNotExists() up to the allocation.  An array literal maps        *)
(* literals to literals.  Without a free address the model stops asking    *)
(* for new expressions.                                                    *)
Found(key) == {a \in Chain(buckets[BucketForHash(HashValue(key))]) : Equals(a, key)}
CanAsk(key) ==
  /\ Idle /\ CanHoldMore
  /\ key.expr.kind = "Array" =>
       \A i \in DOMAIN key.ops : expr[key.ops[i]].kind \in {"Literal", "Array"}
CreateFound(key) ==
  /\ CanAsk(key)
  /\ \E a \in Found(key) : Answer(key, a)
  /\ UNCHANGED <<expr, ops, hash, next, table, creation, stack>>
CreateNew(key) ==
  /\ CanAsk(key)
  /\ Found(key) = {} /\ Places \ Allocated # {}
  /\ \/ /\ NeedsRehash(entries + 1)
        /\ pending' = Creation("rehash", key)
        /\ moving' = [i |-> 0, cur |-> buckets[0],
                      to |-> [b \in 0 .. 2 * bucketCount - 1 |-> Nil]]
     \/ /\ ~NeedsRehash(entries + 1)
        /\ pending' = Creation("insert", key)
        /\ UNCHANGED moving
  /\ UNCHANGED <<objects, table, client, stack>>

(* A literal True is not looked up. *)
GetTrue ==
  /\ Idle /\ CanHoldMore
  /\ Answer(TrueKey, True)
  /\ UNCHANGED <<expr, ops, hash, next, table, creation, stack>>

(* rehashTable(): one node moves, the next bucket is taken, or the new     *)
(* table is installed.                                                     *)
MoveNode ==
  /\ pending.op = "rehash" /\ moving.cur # Nil
  /\ LET cur == moving.cur
         b == Slot(hash[cur], 2 * bucketCount)
     IN  /\ next' = [next EXCEPT ![cur] = moving.to[b]]
         /\ moving' = [i |-> moving.i, cur |-> next[cur],
                       to |-> [moving.to EXCEPT ![b] = cur]]
  /\ UNCHANGED <<expr, ops, hash, rc, table, client, pending, stack>>
NextBucket ==
  /\ pending.op = "rehash" /\ moving.cur = Nil /\ moving.i + 1 < bucketCount
  /\ moving' = [i |-> moving.i + 1, cur |-> buckets[moving.i + 1], to |-> moving.to]
  /\ UNCHANGED <<objects, table, client, pending, stack>>
InstallTable ==
  /\ pending.op = "rehash" /\ moving.cur = Nil /\ moving.i + 1 = bucketCount
  /\ buckets' = moving.to
  /\ bucketCount' = 2 * bucketCount
  /\ pending' = [op |-> "insert", key |-> pending.key, hash |-> pending.hash]
  /\ moving' = NoRehash
  /\ UNCHANGED <<objects, entries, client, stack>>

(* The rest of createIfNotExists(): the constructor takes a reference to   *)
(* every operand, the bucket is looked up again, the caller gets a handle. *)
UsesAsSet(list, a) ==   \* mutant: one reference for an operand that occurs twice
  IF \E i \in DOMAIN list : list[i] = a THEN 1 ELSE 0
Uses(list, a) == Cardinality({i \in DOMAIN list : list[i] = a})
Insert ==
  /\ pending.op = "insert"
  /\ \E new \in Places \ Allocated :
       LET b == BucketForHash(pending.hash) IN
       /\ expr' = [expr EXCEPT ![new] = pending.key.expr]
       /\ ops' = [ops EXCEPT ![new] = pending.key.ops]
       /\ hash' = [hash EXCEPT ![new] = pending.hash]
       /\ rc' = [a \in Addr |-> IF a = new THEN 1 ELSE rc[a] + Uses(pending.key.ops, a)]
       /\ next' = [next EXCEPT ![new] = buckets[b]]
       /\ buckets' = [buckets EXCEPT ![b] = new]
       /\ handles' = [handles EXCEPT ![new] = 1]
       /\ got' = [key |-> pending.key, obj |-> new]
  /\ entries' = entries + 1
  /\ pending' = NoCreation
  /\ UNCHANGED <<bucketCount, moving, stack>>

-----------------------------------------------------------------------------
(* removeFromList(): the links and the table without a. *)
NextWithout(a) ==
  LET list == Chain(buckets[BucketForHash(hash[a])]) IN
  [p \in Addr |-> IF p = a THEN Nil
                  ELSE IF p \in list /\ next[p] = a THEN next[a] ELSE next[p]]
TableWithout(a) ==
  [buckets EXCEPT ![BucketForHash(hash[a])] = IF @ = a THEN next[a] ELSE @]

(* An activation: destroy() scans the operands of the expressions on its   *)
(* list and then sweeps the list; `delete` of an array literal releases    *)
(* its members, that of another atom has none.                             *)
Frame(op, a) == [op |-> op, root |-> a, last |-> a, tail |-> a, i |-> 1]
Running(op) == stack # <<>> /\ stack[Len(stack)].op = op
top == stack[Len(stack)]
SetTop(f) == [stack EXCEPT ![Len(stack)] = f]
Return == SubSeq(stack, 1, Len(stack) - 1)

(* intrusive_ptr_release(), DeleteExpr() and the beginning of destroy(). *)
ReleaseRef(a, caller) ==
  /\ rc' = [rc EXCEPT ![a] = @ - 1]
  /\ \/ /\ rc[a] > 1
        /\ stack' = caller
        /\ UNCHANGED <<next, buckets, entries>>
     \/ /\ rc[a] = 1 /\ a = True
        /\ stack' = Append(caller, Frame("delete", a))
        /\ UNCHANGED <<next, buckets, entries>>
     \/ /\ rc[a] = 1 /\ a # True
        /\ next' = NextWithout(a)
        /\ buckets' = TableWithout(a)
        /\ entries' = entries - 1
        /\ stack' = Append(caller, Frame(IF IsNonNullary(expr[a]) THEN "scan" ELSE "delete", a))

Release(a) ==
  /\ Idle /\ handles[a] > (IF a = True THEN 1 ELSE 0)
  /\ handles' = [handles EXCEPT ![a] = @ - 1]
  /\ got' = Nothing
  /\ ReleaseRef(a, stack)
  /\ UNCHANGED <<expr, ops, hash, bucketCount, creation>>

(* ~GazerContext: its own references go last, when no client has any. *)
Teardown ==
  /\ Idle /\ handles[True] = 1 /\ \A a \in Places : handles[a] = 0
  /\ handles' = [handles EXCEPT ![True] = 0]
  /\ got' = Nothing
  /\ ReleaseRef(True, stack)
  /\ UNCHANGED <<expr, ops, hash, bucketCount, creation>>

Advanced == [top EXCEPT !.i = @ + 1]
DetachOperand == ops' = [ops EXCEPT ![top.last] = [@ EXCEPT ![top.i] = Nil]]
FreeObject(a) ==
  /\ expr' = [expr EXCEPT ![a] = NoExpr]
  /\ ops' = [ops EXCEPT ![a] = <<>>]
  /\ hash' = [hash EXCEPT ![a] = 0]
  /\ rc' = [rc EXCEPT ![a] = 0]
  /\ next' = [next EXCEPT ![a] = Nil]

(* `delete` *)
DeleteMember ==
  /\ Running("delete") /\ top.i \in DOMAIN ops[top.last]
  /\ ReleaseRef(ops[top.last][top.i], SetTop(Advanced))
  /\ DetachOperand
  /\ UNCHANGED <<expr, hash, bucketCount, client, creation>>
FreeLeaf ==
  /\ Running("delete") /\ top.i \notin DOMAIN ops[top.last]
  /\ FreeObject(top.root)
  /\ stack' = Return
  /\ UNCHANGED <<table, client, creation>>

(* One operand of the expression that is being taken apart: others use it, *)
(* or it goes on the list, or it is an atom and deleted at once.           *)
Scanning == Running("scan") /\ top.i \in DOMAIN ops[top.last]
child == ops[top.last][top.i]
KeepOperandCounted ==   \* mutant: detach() without the decrement
  /\ Scanning /\ rc[child] # 1
  /\ DetachOperand
  /\ stack' = SetTop(Advanced)
  /\ UNCHANGED <<expr, hash, rc, next, table, client, creation>>
KeepOperand ==
  /\ Scanning /\ rc[child] # 1
  /\ rc' = [rc EXCEPT ![child] = @ - 1]
  /\ DetachOperand
  /\ stack' = SetTop(Advanced)
  /\ UNCHANGED <<expr, hash, next, table, client, creation>>
DropSubtree ==
  /\ Scanning /\ rc[child] = 1 /\ IsNonNullary(expr[child])
  /\ next' = [NextWithout(child) EXCEPT ![top.tail] = child]
  /\ buckets' = TableWithout(child)
  /\ entries' = entries - 1
  /\ DetachOperand
  /\ stack' = SetTop([Advanced EXCEPT !.tail = child])
  /\ UNCHANGED <<expr, hash, rc, bucketCount, client, creation>>
DropLeaf ==
  /\ Scanning /\ rc[child] = 1 /\ ~IsNonNullary(expr[child])
  /\ next' = NextWithout(child)
  /\ buckets' = TableWithout(child)
  /\ entries' = entries - 1
  /\ DetachOperand
  /\ stack' = Append(SetTop(Advanced), Frame("delete", child))
  /\ UNCHANGED <<expr, hash, rc, bucketCount, client, creation>>

(* The scan goes on to the next expression of the list, or is done. *)
NextDoomed ==
  /\ Running("scan") /\ top.i \notin DOMAIN ops[top.last]
  /\ stack' = SetTop(IF next[top.last] # Nil
                     THEN [top EXCEPT !.last = next[top.last], !.i = 1]
                     ELSE [top EXCEPT !.op = "sweep"])
  /\ UNCHANGED <<objects, table, client, creation>>

SweepInPlace ==   \* mutant: the list is not advanced
  /\ Running("sweep")
  /\ FreeObject(top.root)
  /\ UNCHANGED <<table, client, creation, stack>>
Sweep ==
  /\ Running("sweep")
  /\ FreeObject(top.root)
  /\ stack' = IF next[top.root] = Nil THEN Return
              ELSE SetTop([top EXCEPT !.root = next[top.root]])
  /\ UNCHANGED <<table, client, creation>>

Step ==
  \/ MoveNode \/ NextBucket \/ InstallTable \/ Insert
  \/ DeleteMember \/ FreeLeaf
  \/ KeepOperand \/ DropSubtree \/ DropLeaf \/ NextDoomed \/ Sweep

Next ==
  \/ \E key \in KeysOver(Holding) : CreateFound(key) \/ CreateNew(key)
  \/ GetTrue
  \/ \E a \in Addr : Release(a)
  \/ Teardown
  \/ Step

(* A call that has started runs to its end. *)
Spec == Init /\ [][Next]_vars /\ WF_vars(Step)

-----------------------------------------------------------------------------
(* The expressions on the running call's deletion lists, and the ones that *)
(* the table must have.                                                    *)
Doomed == UNION {Chain(stack[k].root) : k \in DOMAIN stack}
Live == Allocated \ Doomed
Stored == Live \ {True}

(* Every expression is in the chain of its own bucket and nowhere else,    *)
(* chains end, and mEntryCount counts them, in the middle of every call    *)
(* too; only a rehash moves nodes.  It never leaves the load above 3/4.    *)
TableIsExact ==
  /\ entries = Cardinality(Stored)
  /\ entries * 4 < bucketCount * 3
  /\ ListsEnd(next)
  /\ pending.op # "rehash" =>
       \A b \in DOMAIN buckets :
         Chain(buckets[b]) = {a \in Stored : Slot(hash[a], bucketCount) = b}

(* No pointer the code will follow leads to freed memory: neither of a     *)
(* client, nor of an expression, nor of the call that is running.          *)
NoDanglingPointer ==
  /\ Holding \subseteq Allocated
  /\ \A a \in Allocated :
       /\ next[a] \in Allocated \cup {Nil}
       /\ \A i \in DOMAIN ops[a] : ops[a][i] \in Allocated \cup {Nil}
  /\ pending.op # "none" =>
       \A i \in DOMAIN pending.key.ops : pending.key.ops[i] \in Allocated
  /\ moving.cur \in Allocated \cup {Nil}
  /\ \A k \in DOMAIN stack :
       /\ stack[k].root \in Allocated
       /\ stack[k].op # "sweep" => {stack[k].last, stack[k].tail} \subseteq Allocated

(* When a call has returned, mRefCount is the number of references there   *)
(* are, and whatever nobody can reach has been freed.                      *)
Refs(a) == UNION {{<<p, i>> : i \in {j \in DOMAIN ops[p] : ops[p][j] = a}} : p \in Addr}
CountsAreExact ==
  Idle =>
    \A a \in Allocated : rc[a] = handles[a] + Cardinality(Refs(a)) /\ rc[a] > 0

(* What the clients' references lead to. *)
Reached ==
  {a \in Allocated :
     \A T \in SUBSET Allocated :
       (/\ Holding \subseteq T
        /\ \A b \in T : \A i \in DOMAIN ops[b] : ops[b][i] \in T) => a \in T}
Nodes == [a \in Reached |-> Key(a)]
Promise == INSTANCE HashConsing WITH
  Addr <- Addr, Root <- True, RootKey <- TrueKey, Keys <- KeysOver,
  held <- handles, nodes <- Nodes
(* The table, the counts and the deletion lists implement HashConsing: at  *)
(* any point of any call, the objects a client can reach are the ones that *)
(* the abstract context has, structure by structure.                       *)
ImplementsHashConsing == Promise!ASpec

(* Every call of the context returns to the client. *)
CallsReturn == (~Idle) ~> Idle

===========================================================================
