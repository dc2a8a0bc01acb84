----------------------------- MODULE SliceStore -----------------------------
(***************************************************************************)
(* Slices as variables of a client that keeps the rule all of              *)
(* BigIntegerImpl keeps: cloneData() before anything that writes to the    *)
(* vector or resizes it.  One action per member function of src/Slice.h.   *)
(***************************************************************************)
EXTENDS Slice

CONSTANT
  MaxLen    \* bound: elements of a vector

VARIABLES
  mem, mag,
  call      \* history: the member function last called, with its arguments

vars == <<mem, mag, call>>
store == [mem |-> mem, mag |-> mag]

ASSUME BoundAssumption == MaxLen \in Nat

Place == CHOOSE p \in [Name -> Addr] : \A x, y \in Name : p[x] = p[y] => x = y

Init ==
  /\ mem = [p \in Addr |-> IF \E x \in Name : Place[x] = p
                           THEN Zeros(2 * DefaultPreSpace) ELSE << >>]
  /\ mag = [x \in Name |-> [ptr |-> Place[x], lo |-> DefaultPreSpace, hi |-> DefaultPreSpace]]
  /\ call = <<"none">>

(* A vector nobody points to any more is freed.                            *)
Become(s, c) ==
  /\ \A x \in Name : Len(Vec(s, x)) <= MaxLen
  /\ mem' = [p \in Addr |-> IF p \in InUse(s) THEN s.mem[p] ELSE << >>]
  /\ mag' = s.mag
  /\ call' = c

-----------------------------------------------------------------------------
(* Calls that write no element.                                            *)
Construct(x)     == Become(NewSlice(store, x), <<"new", x>>)
Clone(x)         == Become(CloneData(store, x), <<"clone", x>>)
AssignCopy(x, y) == Become(CopySlice(store, x, y), <<"copy", x, y>>)
AssignMove(x, y) == x # y /\ Become(MoveSlice(store, x, y), <<"move", x, y>>)
Swap(x, y)       == x # y /\ Become(SwapSlices(store, x, y), <<"swap", x, y>>)
Sliced(x, y, lo, hi) ==
  Become(SubSlice(CopySlice(store, x, y), x, lo, hi), <<"sliced", x, y, lo, hi>>)

(* Calls that may write or resize.                                         *)
Owned(x) == UseCount(store, x) = 1

Prepend(x, d)  == Owned(x) /\ Become(Prepend_(store, x, d), <<"prepend", x, d>>)
AppendTo(x, d) == Owned(x) /\ Become(Append_(store, x, d), <<"append", x, d>>)
Extend(x, n)   == Owned(x) /\ Become(PreExtend(store, x, n), <<"extend", x, n>>)
Write(x, i, d) ==
  /\ Owned(x)
  /\ Become(Overwrite(store, x, Put(Words(store, x), i, d)), <<"write", x, i, d>>)
Widen(x, lo, hi) ==
  Owned(x) /\ Become(SubSlice(store, x, lo, hi), <<"slice", x, lo, hi>>)

Next ==
  \E x \in Name :
    \/ Construct(x) \/ Clone(x)
    \/ \E y \in Name : \/ AssignCopy(x, y) \/ AssignMove(x, y) \/ Swap(x, y)
                       \/ \E hi \in 0 .. Count(store, y) :
                            \E lo \in 0 .. hi : Sliced(x, y, lo, hi)
    \/ \E d \in Data : \/ Prepend(x, d) \/ AppendTo(x, d)
                       \/ \E i \in 1 .. Count(store, x) : Write(x, i, d)
    \/ \E n \in 1 .. MaxLen : Extend(x, n)
    \/ \E hi \in Count(store, x) + 1 .. MaxLen :
         \E lo \in 0 .. Count(store, x) : Widen(x, lo, hi)

Spec == Init /\ [][Next]_vars
-----------------------------------------------------------------------------
(* Every window lies inside its vector, whoever else resizes it.           *)
WindowsInside ==
  /\ mem \in [Addr -> Seq(Data)]
  /\ mag \in [Name -> [ptr : Addr, lo : Nat, hi : Nat]]
  /\ \A x \in Name : mag[x].lo <= mag[x].hi /\ mag[x].hi <= Len(mem[mag[x].ptr])

(* Clone before write is enough: the slices are sequences of their own,    *)
(* through copies, moves, swaps and sub-slices that share vectors.         *)
Sequences_ == INSTANCE SequenceStore WITH val <- [x \in Name |-> Words(store, x)]
ImplementsSequences == Sequences_!Spec
=============================================================================
