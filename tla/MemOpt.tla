------------------------------ MODULE MemOpt -------------------------------
(***************************************************************************)
(* The alias oracle and the block-local memory optimiser of                *)
(* src/Search/MemOpt.cpp: loads are forwarded from the stores and loads    *)
(* before them, and stores that nobody reads are deleted.                  *)
(*                                                                         *)
(* A block is [ptrs, code].  ptrs says how each pointer is made: an        *)
(* alloca, an argument (noalias or not), a global, the result of something *)
(* else, a cast of another pointer, or an element of it: idx holds its     *)
(* indices (integers or NotConst), elem is the size of the element, and    *)
(* flat the number of elements from the base on to the one that several    *)
(* indices lead to.  code is a sequence of                                 *)
(* loads [op, name, ptr, size], stores [op, val, ptr, size], calls, which  *)
(* may use the memory that has escaped, and pointers given away.           *)
(***************************************************************************)
EXTENDS Integers, Sequences, FiniteSets, SequencesExt, FiniteSetsExt

CONSTANTS Programs,   \* the blocks to optimise
          NotConst    \* an index that is not a constant

\* The members of s that are in S, in order.
Those(s, S) == FoldLeft(LAMBDA t, x : IF x \in S THEN Append(t, x) ELSE t, <<>>, s)
\* f with v for x.
Bind(f, x, v) == [y \in DOMAIN f \cup {x} |-> IF y = x THEN v ELSE f[y]]

Made(b, p) == b.ptrs[p]
Derived(b, p) == Made(b, p).kind \in {"gep", "bitcast"}

\* p, what it is made of, what that is made of, ...
Longer(b, path) == IF Derived(b, Last(path)) THEN Append(path, Made(b, Last(path)).base) ELSE path
Chain(b, p) == FoldLeft(LAMBDA path, n : Longer(b, path), <<p>>,
                        [n \in 1..Cardinality(DOMAIN b.ptrs) |-> n])
Root(b, p) == Last(Chain(b, p))

-----------------------------------------------------------------------------
(* AliasOracle.                                                             *)

\* The address of an alloca, or one derived from it, is given away.
Escapes(b, a) ==
  \E i \in Range(b.code) :
    \/ i.op = "call" /\ \E p \in i.given : Root(b, p) = a
    \/ i.op = "store" /\ i.val \in DOMAIN b.ptrs /\ Root(b, i.val) = a

\* The one level of element access that is compared, if all is constant.
Geps(b, p) == Those(Chain(b, p), {q \in DOMAIN b.ptrs : Made(b, q).kind = "gep"})
const_gep(b, p) == \/ Geps(b, p) = <<>>
                   \/ Len(Geps(b, p)) = 1 /\ NotConst \notin Range(Made(b, Geps(b, p)[1]).idx)
indices(b, p) == IF Geps(b, p) = <<>> THEN <<>> ELSE Made(b, Geps(b, p)[1]).idx
gep_source_type(b, p) == IF Geps(b, p) = <<>> THEN 0 ELSE Made(b, Geps(b, p)[1]).elem

\* Two pointers into the same object, i and j the indices they go by.
SameRoot(comparable, i, j) ==
  CASE comparable /\ i = j -> "MustAlias"
    [] comparable /\ i # j /\ Len(i) = 1 /\ Len(j) = 1 -> "NoAlias"
    [] OTHER -> "MayAlias"
Private(b, a) == Made(b, a).kind = "alloca" /\ ~Escapes(b, a)
\* Pointers into different objects.
OtherRoot(b, ra, rb) ==
  LET kinds == {Made(b, ra).kind, Made(b, rb).kind}
  IN  IF \/ "alloca" \in kinds /\ kinds \subseteq {"alloca", "arg", "noalias", "global"}
         \/ Private(b, ra) \/ Private(b, rb)
         \/ kinds = {"noalias"}
      THEN "NoAlias" ELSE "MayAlias"
AliasOf(b, p, q, ra, rb) ==
  IF Made(b, ra).kind # "unknown" /\ ra = rb
  THEN SameRoot(/\ const_gep(b, p) /\ const_gep(b, q)
                /\ gep_source_type(b, p) = gep_source_type(b, q),
                indices(b, p), indices(b, q))
  ELSE OtherRoot(b, ra, rb)
alias(b, p, q) == AliasOf(b, p, q, Root(b, p), Root(b, q))

-----------------------------------------------------------------------------
(* MemOptimizer::optimize, one instruction at a time.  An available value   *)
(* is [ptr, value, size, at, maybe_read]: at is the store it comes from, 0  *)
(* for a load.                                                              *)

VARIABLES block,       \* the block, as it was given
          next,        \* the position of the instruction to be looked at
          avail,       \* the available values
          to_delete,   \* positions
          subst,       \* the name of a deleted load -> the value replacing it
          result       \* the optimised code, or <<>> before the end

memVars == <<block, next, avail, to_delete, subst, result>>

MemInit ==
  /\ block \in Programs
  /\ next = 1 /\ avail = <<>> /\ to_delete = {} /\ subst = [x \in {} |-> 0] /\ result = <<>>

Here == block.code[next]
At(op) == result = <<>> /\ next <= Len(block.code) /\ Here.op = op
Alias(r) == alias(block, Here.ptr, r.ptr)

\* The available values that the load may take; it takes the first.
Forwardable ==
  {n \in DOMAIN avail : Alias(avail[n]) = "MustAlias" /\ avail[n].size = Here.size}

LoadFrom(ns) ==
     IF ns # {}
     THEN /\ subst' = Bind(subst, Here.name, avail[Min(ns)].value)
          /\ to_delete' = to_delete \cup {next}
          /\ avail' = avail
     ELSE /\ avail' = Append(
               [n \in DOMAIN avail |->
                  IF avail[n].at # 0 /\ Alias(avail[n]) # "NoAlias"
                  THEN [avail[n] EXCEPT !.maybe_read = TRUE] ELSE avail[n]],
               [ptr |-> Here.ptr, value |-> Here.name, size |-> Here.size,
                at |-> 0, maybe_read |-> FALSE])
          /\ UNCHANGED <<to_delete, subst>>
MemLoad ==
  /\ At("load")
  /\ next' = next + 1
  /\ LoadFrom(Forwardable)
  /\ UNCHANGED <<block, result>>

\* Mutant: a store is dead when it is overwritten, though a load may have read it.
Overwritten_ThoughRead ==
  {n \in DOMAIN avail : /\ avail[n].at # 0
                        /\ Alias(avail[n]) = "MustAlias" /\ avail[n].size = Here.size}
\* A pending store that is overwritten before anything may read it is dead.
Overwritten ==
  {n \in DOMAIN avail : /\ avail[n].at # 0 /\ ~avail[n].maybe_read
                        /\ Alias(avail[n]) = "MustAlias" /\ avail[n].size = Here.size}
FirstOf(ns) == IF ns = {} THEN {} ELSE {avail[Min(ns)].at}
MemStore ==
  /\ At("store")
  /\ next' = next + 1
  /\ to_delete' = to_delete \cup FirstOf(Overwritten)
  /\ avail' = Append(Those(avail, {r \in Range(avail) : Alias(r) = "NoAlias"}),
                     [ptr |-> Here.ptr, value |-> Here.val, size |-> Here.size,
                      at |-> next, maybe_read |-> FALSE])
  /\ UNCHANGED <<block, subst, result>>

\* Calls, fences and volatile accesses.
MemBarrier ==
  /\ At("call")
  /\ next' = next + 1 /\ avail' = <<>>
  /\ UNCHANGED <<block, to_delete, subst, result>>

\* The deletions, the substitution (once), and the validation of the result.
Kept == Those([n \in DOMAIN block.code |-> n], DOMAIN block.code \ to_delete)
Substituted(i) ==
  LET S(v) == IF v \in DOMAIN subst THEN subst[v] ELSE v
  IN  CASE i.op = "store" -> [i EXCEPT !.val = S(i.val)]
        [] i.op = "call"  -> [i EXCEPT !.uses = [n \in DOMAIN i.uses |-> S(i.uses[n])]]
        [] OTHER -> i
Used(i) ==
  CASE i.op = "store" -> {i.val} [] i.op = "call" -> Range(i.uses) [] OTHER -> {}
MemEnd ==
  LET work == [n \in DOMAIN Kept |-> Substituted(block.code[Kept[n]])]
      lost == {block.code[n].name : n \in {m \in to_delete : block.code[m].op = "load"}}
  IN  /\ result = <<>> /\ next = Len(block.code) + 1
      /\ result' = IF \E i \in Range(work) : Used(i) \cap lost # {} THEN block.code ELSE work
      /\ UNCHANGED <<block, next, avail, to_delete, subst>>

MemNext == MemLoad \/ MemStore \/ MemBarrier \/ MemEnd
MemSpec == MemInit /\ [][MemNext]_memVars

-----------------------------------------------------------------------------
(* What a block does, byte by byte.  A layout gives every root its address, *)
(* and every index that is not constant its value.                          *)

CONSTANT Layouts(_)   \* the layouts that a block may find

Element(b, l, q) ==
  LET m == Made(b, q)
  IN  IF NotConst \in Range(m.idx) THEN l.index[q]
      ELSE IF Len(m.idx) = 1 THEN m.idx[1] ELSE m.flat
Address(b, l, p) ==
  LET Offset(q) == IF Made(b, q).kind # "gep" THEN 0 ELSE Made(b, q).elem * Element(b, l, q)
      Add(sum, q) == sum + Offset(q)
  IN  l.base[Root(b, p)] + FoldLeft(Add, 0, Chain(b, p))
Bytes(b, l, i) == LET a == Address(b, l, i.ptr) IN [n \in 1..i.size |-> a + n - 1]

\* The memory that no one else can reach.
PrivateBytes(b, l) ==
  UNION {l.base[a]..(l.base[a] + Made(b, a).size - 1) :
           a \in {x \in DOMAIN b.ptrs : Made(b, x).kind = "alloca" /\ ~Escapes(b, x)}}

\* The bytes of a value: those that were read, or those of an unknown.  A byte
\* that was not written holds what the last call left there.
ByteOf(env, v, n)   == IF v \in DOMAIN env THEN env[v][n] ELSE <<v, n>>
InMemory(b, l, s, a) ==
  IF a \in DOMAIN s.mem THEN s.mem[a]
  ELSE <<IF a \in PrivateBytes(b, l) THEN 0 ELSE Len(s.seen), a>>

\* What a call sees: the values it is given (each of size bytes), and the
\* memory that differs from what the call before it left.
Seen(b, l, s, i) ==
  [uses |-> [m \in DOMAIN i.uses |-> [n \in 1..i.size |-> ByteOf(s.env, i.uses[m], n)]],
   mem  |-> LET there == {a \in DOMAIN s.mem \ PrivateBytes(b, l) :
                            s.mem[a] # <<Len(s.seen), a>>}
            IN  [a \in there |-> s.mem[a]]]

RunOne(b, l, s, i) ==
  CASE i.op = "load" ->
         LET at == Bytes(b, l, i)
         IN  [s EXCEPT !.env = Bind(s.env, i.name, [n \in DOMAIN at |-> InMemory(b, l, s, at[n])])]
    [] i.op = "store" ->
         LET at == Bytes(b, l, i)
         IN  [s EXCEPT !.mem = [a \in DOMAIN s.mem \cup Range(at) |->
                               IF a \in Range(at) THEN ByteOf(s.env, i.val, a - at[1] + 1) ELSE s.mem[a]]]
    [] i.op = "call" ->
         [s EXCEPT !.seen = Append(s.seen, Seen(b, l, s, i)),
                   !.mem = [a \in DOMAIN s.mem \cap PrivateBytes(b, l) |-> s.mem[a]]]

Observed(b, l, code) ==
  LET Run(s, i) == RunOne(b, l, s, i)
  IN  FoldLeft(Run, [env |-> [x \in {} |-> 0], mem |-> [a \in {} |-> 0], seen |-> <<>>], code).seen

\* The blocks: a pointer is made of another, and a value that is read has a
\* name of its own and is used after that, in no more bytes than were read.
Accesses(b) == {i \in Range(b.code) : i.op \in {"load", "store"}}
BlockFormed(b) ==
  /\ b.code \in Seq(Range(b.code)) /\ IsFiniteSet(DOMAIN b.ptrs)
  /\ \A p \in DOMAIN b.ptrs :
       /\ Derived(b, p) => Made(b, p).base \in DOMAIN b.ptrs
       /\ Made(b, p).kind = "gep" =>
            /\ Made(b, p).elem \in Nat \ {0} /\ Made(b, p).flat \in Int
            /\ Made(b, p).idx \in Seq(Int \cup {NotConst}) \ {<<>>}
  /\ \A i \in Range(b.code) :
       /\ i.op \in {"load", "store", "call"} /\ i.size \in Nat \ {0}
       /\ i.op = "store" => {"op", "val", "ptr", "size"} \subseteq DOMAIN i
       /\ i.op = "call"  => {"op", "uses", "size"} \subseteq DOMAIN i
  /\ \A i \in Accesses(b) : i.ptr \in DOMAIN b.ptrs
  /\ \A m, n \in DOMAIN b.code : b.code[m].op = "load" =>
       /\ b.code[m].name \in Used(b.code[n]) => m < n /\ b.code[n].size <= b.code[m].size
       /\ b.code[n].op = "load" /\ m # n => b.code[n].name # b.code[m].name

\* The layouts: accesses stay within their objects, so that a local variable
\* shares no byte with another or with what the caller knows, nor, unless it
\* was given away, with anything else; two noalias arguments share none.
Separate(b, r, q) ==
  /\ r # q
  /\ \/ /\ Made(b, r).kind = "alloca"
        /\ Made(b, q).kind \in {"alloca", "arg", "noalias", "global"} \/ ~Escapes(b, r)
     \/ Made(b, r).kind = "noalias" /\ Made(b, q).kind = "noalias"
LayoutFormed(b, l) ==
  /\ \A i \in Accesses(b) : l.base[Root(b, i.ptr)] \in Int
  /\ \A p \in DOMAIN b.ptrs :
       Made(b, p).kind = "gep" /\ NotConst \in Range(Made(b, p).idx) => l.index[p] \in Int
  /\ \A i, j \in Accesses(b) :
       Separate(b, Root(b, i.ptr), Root(b, j.ptr)) =>
         Range(Bytes(b, l, i)) \cap Range(Bytes(b, l, j)) = {}

ASSUME MemoryAssumption ==
  \A b \in Programs : BlockFormed(b) /\ \A l \in Layouts(b) : LayoutFormed(b, l)

\* No access is wider than the element that its pointer points to; and, as the
\* oracle compares the indices and the type of the element but never that of the
\* array that the indices count in, that is one type for one object.
AccessesFit(b) ==
  \A i, j \in Accesses(b) : \A p \in Range(Geps(b, i.ptr)), q \in Range(Geps(b, j.ptr)) :
    /\ i.size <= Made(b, p).elem
    /\ Root(b, i.ptr) = Root(b, j.ptr) /\ Made(b, p).idx = Made(b, q).idx
         /\ Made(b, p).elem = Made(b, q).elem => Made(b, p).flat = Made(b, q).flat

\* Whatever the layout, the optimised block shows every call, and the caller
\* at the end (modelled as a last call), what the given one does.  It fails for
\* blocks that are not AccessesFit.
MemoryKept ==
  result # <<>> =>
    \A l \in Layouts(block) : Observed(block, l, result) = Observed(block, l, block.code)

=============================================================================
