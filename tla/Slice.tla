------------------------------- MODULE Slice -------------------------------
(***************************************************************************)
(* src/Slice.h: a window [lo, hi) of a vector that several slices may      *)
(* share.  Every operator maps a store s to the store the member function  *)
(* leaves: s.mem holds the vectors by address, s.mag the slices by name.   *)
(* The number of slices that point to a vector is its use_count.           *)
(*                                                                         *)
(* Nothing here keeps a slice from writing to a shared vector, and nothing *)
(* clears the words a window no longer covers: both are left, as in the    *)
(* code, to the callers.                                                   *)
(***************************************************************************)
EXTENDS Integers, Sequences, FiniteSets

CONSTANTS
  Name,   \* all the slices, those of local variables included
  Addr,   \* vector addresses
  Data    \* elements, the template's T

(* A slice that is not alive (a local outside its scope) points nowhere.   *)
Nowhere == 0
Dead == [ptr |-> Nowhere, lo |-> 0, hi |-> 0]

ASSUME AddrAssumption == /\ IsFiniteSet(Name)
                         /\ Addr \subseteq Nat \ {Nowhere}
                         /\ IsFiniteSet(Addr)
                         /\ Cardinality(Addr) > Cardinality(Name)

(* T() fills what is resized.                                              *)
ASSUME DataAssumption == 0 \in Data

DefaultPreSpace == 1

Vec(s, x) == s.mem[s.mag[x].ptr]
Count(s, x) == s.mag[x].hi - s.mag[x].lo
Words(s, x) == SubSeq(Vec(s, x), s.mag[x].lo + 1, s.mag[x].hi)

Sharing(s, x) == {y \in Name : s.mag[y].ptr = s.mag[x].ptr}
UseCount(s, x) == Cardinality(Sharing(s, x))
InUse(s) == {s.mag[y].ptr : y \in Name}
Put(v, i, w) == [k \in DOMAIN v |-> IF k = i THEN w ELSE v[k]]
Zeros(n) == [i \in 1 .. n |-> 0]

(* std::vector::resize: shrinking drops the tail, growing appends zeros.   *)
Resize(v, n) == [i \in 1 .. n |-> IF i \in DOMAIN v THEN v[i] ELSE 0]

-----------------------------------------------------------------------------
(* Let x be a window on a vector of its own.                               *)
Allocate(s, x, vec, lo, hi) ==
  LET a == CHOOSE p \in Addr : p \notin InUse(s)
  IN  [s EXCEPT !.mem[a] = vec, !.mag[x] = [ptr |-> a, lo |-> lo, hi |-> hi]]

NewSlice(s, x) ==
  Allocate(s, x, Zeros(2 * DefaultPreSpace), DefaultPreSpace, DefaultPreSpace)

CopySlice(s, x, y) == [s EXCEPT !.mag[x] = s.mag[y]]

MoveSlice(s, x, y) == NewSlice(CopySlice(s, x, y), y)

SwapSlices(s, x, y) == [s EXCEPT !.mag[x] = s.mag[y], !.mag[y] = s.mag[x]]

CloneData(s, x) ==
  IF UseCount(s, x) = 1 THEN s
  ELSE Allocate(s, x, Zeros(DefaultPreSpace) \o Words(s, x),
                DefaultPreSpace, DefaultPreSpace + Count(s, x))

SetVec(s, x, vec) == [s EXCEPT !.mem[s.mag[x].ptr] = vec]

Prepend_(s, x, w) ==
  LET m == s.mag[x]
  IN  IF m.lo > 0
      THEN [SetVec(s, x, Put(Vec(s, x), m.lo, w)) EXCEPT !.mag[x].lo = m.lo - 1]
      ELSE [SetVec(s, x, <<w>> \o Vec(s, x)) EXCEPT !.mag[x].hi = m.hi + 1]

(* Mutant: off by one in the test for room above the window.               *)
AppendOffByOne(s, x, w) ==
  LET hi == s.mag[x].hi
      v  == IF hi <= Len(Vec(s, x)) THEN Put(Vec(s, x), hi + 1, w)
            ELSE Append(Vec(s, x), w)
  IN  [SetVec(s, x, v) EXCEPT !.mag[x].hi = hi + 1]

(* The word just above the window is overwritten if there is one.          *)
Append_(s, x, w) ==
  LET hi == s.mag[x].hi
      v  == IF hi < Len(Vec(s, x)) THEN Put(Vec(s, x), hi + 1, w)
            ELSE Append(Vec(s, x), w)
  IN  [SetVec(s, x, v) EXCEPT !.mag[x].hi = hi + 1]

(* Narrowing only moves the window; widening resizes the vector and so     *)
(* exposes whatever words it still holds above the window.                 *)
SubSlice(s, x, lo, hi) ==
  LET m == s.mag[x]
      t == IF hi > Count(s, x) THEN SetVec(s, x, Resize(Vec(s, x), m.lo + hi)) ELSE s
  IN  IF lo = hi THEN [s EXCEPT !.mag[x].hi = m.lo]
      ELSE [t EXCEPT !.mag[x].lo = m.lo + lo, !.mag[x].hi = m.lo + hi]

(* Mutant: the end of the window does not move with its vector.            *)
PreExtendForgettingEnd(s, x, n) ==
  LET m  == s.mag[x]
      ex == n - m.lo + DefaultPreSpace
  IN  IF m.lo >= n THEN [s EXCEPT !.mag[x].lo = m.lo - n]
      ELSE [SetVec(s, x, Zeros(ex) \o Vec(s, x)) EXCEPT !.mag[x].lo = DefaultPreSpace]

PreExtend(s, x, n) ==
  LET m  == s.mag[x]
      ex == n - m.lo + DefaultPreSpace
      t  == IF m.lo >= n THEN [s EXCEPT !.mag[x].lo = m.lo - n]
            ELSE [SetVec(s, x, Zeros(ex) \o Vec(s, x)) EXCEPT
                    !.mag[x].lo = DefaultPreSpace, !.mag[x].hi = m.hi + ex]
      lo == t.mag[x].lo
  IN  SetVec(t, x, [i \in DOMAIN Vec(t, x) |->
                      IF i \in lo + 1 .. lo + n THEN 0 ELSE Vec(t, x)[i]])

(* Writes through operator[]: the words of the window from its start on.   *)
Overwrite(s, x, words) ==
  LET lo == s.mag[x].lo
  IN  SetVec(s, x, [i \in DOMAIN Vec(s, x) |->
                      IF i - lo \in DOMAIN words THEN words[i - lo] ELSE Vec(s, x)[i]])
=============================================================================
