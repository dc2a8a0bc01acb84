-------------------------- MODULE SliceStore_proofs --------------------------
(* Slices that are cloned before they are written are sequences of their   *)
(* own: for all names, elements and bounds.                                *)
EXTENDS SliceStore, Words_proofs

(* The variables as a store; WindowsInside is all there is to know of it.  *)
LEMMA StoreSound == WindowsInside <=> Sound(store) /\ Alive(store) = Name
<1>1. /\ store.mem = mem /\ store.mag = mag /\ DOMAIN store = {"mem", "mag"}
      /\ \A x \in Name : Vec(store, x) = mem[mag[x].ptr]
  BY DEF store, Vec
<1>2. ASSUME WindowsInside PROVE Sound(store) /\ Alive(store) = Name
  <2>1. mag \in [Name -> Slices]
    BY <1>2 DEF WindowsInside, Slices
  <2>2. Alive(store) = Name
    BY <1>1, <2>1 DEF Alive
  <2>3. QED
    BY <1>1, <1>2, <2>1, <2>2 DEF WindowsInside, Sound, IsStore, Inside
<1>3. ASSUME Sound(store), Alive(store) = Name PROVE WindowsInside
  <2>1. mag \in [Name -> Slices]
    BY <1>1, <1>3 DEF Alive, Sound, IsStore
  <2>2. QED
    BY <1>1, <1>3, <2>1 DEF WindowsInside, Sound, IsStore, Inside, Slices
<1>4. QED
  BY <1>2, <1>3

(* Freeing the vectors nobody uses changes no slice.                       *)
LEMMA BecomeSound ==
  ASSUME NEW STATE s, Sound(s), Alive(s) = Name, NEW STATE c, Become(s, c)
  PROVE  /\ WindowsInside' /\ call' = c
         /\ \A x \in Name : Words(store, x)' = Words(s, x)
<1>1. /\ IsStore(s) /\ \A x \in Name : Inside(s, x) /\ s.mag[x] \in Slices
      /\ \A x \in Name : s.mag[x].ptr \in Addr /\ s.mag[x].ptr \in InUse(s)
  BY DEF Sound, Alive, Slices, InUse
<1>2. /\ mem' = [p \in Addr |-> IF p \in InUse(s) THEN s.mem[p] ELSE << >>]
      /\ mag' = s.mag /\ call' = c
  BY DEF Become
<1>3. mem' \in [Addr -> Seq(Data)] /\ mag' \in [Name -> Slices]
  <2>1. << >> \in Seq(Data)
    OBVIOUS
  <2>2. s.mem \in [Addr -> Seq(Data)] /\ s.mag \in [Name -> Slices]
    BY <1>1 DEF IsStore
  <2>3. QED
    BY <1>2, <2>1, <2>2
<1>4. \A x \in Name : mem'[mag'[x].ptr] = s.mem[s.mag[x].ptr]
  BY <1>1, <1>2
<1>5. ASSUME NEW x \in Name
      PROVE  /\ Words(store, x)' = Words(s, x)
             /\ mag'[x].lo <= mag'[x].hi /\ mag'[x].hi <= Len(mem'[mag'[x].ptr])
  <2>1. mem'[mag'[x].ptr] = s.mem[s.mag[x].ptr] /\ mag'[x] = s.mag[x] /\ Inside(s, x)
    BY <1>1, <1>2, <1>4
  <2>2. QED
    BY <2>1 DEF Words, Vec, store, Inside
<1>6. QED
  BY <1>2, <1>3, <1>5 DEF WindowsInside, Slices

(* What a slice holds, as a variable of SequenceStore.                     *)
Values == [x \in Name |-> Words(store, x)]

(* A store that differs in x only is one change of x in SequenceStore.     *)
LEMMA ChangeStep ==
  ASSUME WindowsInside, NEW STATE s, NEW x \in Name, NEW STATE v, NEW STATE c,
         Differ(store, s, x, v), Become(s, c)
  PROVE  WindowsInside' /\ Sequences_!Change(c, x, v)
<1>1. /\ Sound(s) /\ Alive(s) = Name
      /\ Words(s, x) = v /\ \A y \in Name \ {x} : Words(s, y) = Words(store, y)
  BY StoreSound DEF Differ
<1>2. /\ WindowsInside' /\ call' = c
      /\ \A y \in Name : Words(store, y)' = Words(s, y)
  BY <1>1, BecomeSound
<1>3. Values' = [Values EXCEPT ![x] = v]
  BY <1>1, <1>2 DEF Values
<1>4. QED
  BY <1>2, <1>3 DEF Sequences_!Change, Values

(* At first all slices are empty, each on a vector of its own.             *)
LEMMA InitSound == Init => WindowsInside /\ Sequences_!Init
<1> SUFFICES ASSUME Init PROVE WindowsInside /\ Sequences_!Init
  OBVIOUS
<1>1. \E p \in [Name -> Addr] : \A x, y \in Name : p[x] = p[y] => x = y
  BY EnoughAddresses
<1>2. Place \in [Name -> Addr]
  BY <1>1 DEF Place
<1> DEFINE z == Zeros(2)
<1>3. z \in Seq(Data) /\ Len(z) = 2 /\ SubSeq(z, 2, 1) = << >>
  <2>1. z \in Seq(Data) /\ Len(z) = 2
    BY ZerosProperties
  <2>2. 2 \in Int /\ 1 \in Int /\ 1 < 2
    OBVIOUS
  <2> HIDE DEF z
  <2>3. SubSeq(z, 2, 1) = << >>
    BY <2>2, SubSeqEmpty
  <2>4. QED
    BY <2>1, <2>3
<1>4. /\ mem = [p \in Addr |-> IF \E x \in Name : Place[x] = p THEN z ELSE << >>]
      /\ mag = [x \in Name |-> [ptr |-> Place[x], lo |-> 1, hi |-> 1]]
      /\ call = <<"none">>
  BY DEF Init, DefaultPreSpace
<1> HIDE DEF z
<1>5. /\ mem \in [Addr -> Seq(Data)]
      /\ mag \in [Name -> [ptr : Addr, lo : Nat, hi : Nat]]
  BY <1>2, <1>3, <1>4
<1>6. \A x \in Name : mag[x].lo = 1 /\ mag[x].hi = 1 /\ mem[mag[x].ptr] = z
  BY <1>2, <1>4
<1>7. WindowsInside
  <2>1. \A x \in Name : mag[x].lo <= mag[x].hi /\ mag[x].hi <= Len(mem[mag[x].ptr])
    <3>1. Len(z) = 2 /\ 1 <= 1 /\ 1 <= 2
      BY <1>3
    <3>2. QED
      BY <1>6, <3>1
  <2>2. QED
    BY <1>5, <2>1 DEF WindowsInside
<1>8. \A x \in Name : Words(store, x) = << >>
  BY <1>3, <1>6 DEF Words, Vec, store
<1>9. QED
  BY <1>4, <1>7, <1>8 DEF Sequences_!Init

(* The calls that write no element.                                        *)
LEMMA ReadsStep ==
  ASSUME WindowsInside, NEW x \in Name,
         \/ Construct(x) \/ Clone(x)
         \/ \E y \in Name : \/ AssignCopy(x, y) \/ AssignMove(x, y) \/ Swap(x, y)
                            \/ \E hi \in 0 .. Count(store, y) :
                                 \E lo \in 0 .. hi : Sliced(x, y, lo, hi)
  PROVE  WindowsInside' /\ Sequences_!Reads
<1>1. Sound(store) /\ Alive(store) = Name
  BY StoreSound
<1>2. CASE Construct(x)
  <2>1. WindowsInside' /\ Sequences_!Change(<<"new", x>>, x, << >>)
    BY <1>1, <1>2, NewSliceSound, ChangeStep DEF Construct
  <2>2. QED
    BY <2>1 DEF Sequences_!Reads
<1>3. CASE Clone(x)
  <2>1. WindowsInside' /\ Sequences_!Change(<<"clone", x>>, x, Words(store, x))
    BY <1>1, <1>3, CloneDataSound, ChangeStep DEF Clone
  <2>2. QED
    BY <2>1 DEF Sequences_!Reads
<1>4. ASSUME NEW y \in Name, AssignCopy(x, y) PROVE WindowsInside' /\ Sequences_!Reads
  <2>1. WindowsInside' /\ Sequences_!Change(<<"copy", x, y>>, x, Words(store, y))
    BY <1>1, <1>4, CopySliceSound, ChangeStep DEF AssignCopy
  <2>2. QED
    BY <2>1 DEF Sequences_!Reads
<1>5. ASSUME NEW y \in Name, AssignMove(x, y) PROVE WindowsInside' /\ Sequences_!Reads
  <2> DEFINE t == MoveSlice(store, x, y)
  <2>1. x # y /\ Become(t, <<"move", x, y>>) /\ y \in Alive(store)
    BY <1>1, <1>5 DEF AssignMove
  <2>2. /\ Sound(t) /\ Words(t, x) = Words(store, y) /\ Words(t, y) = << >>
        /\ \A z \in Name \ {x, y} : Words(t, z) = Words(store, z)
        /\ Alive(t) = Name
    <3>1. /\ Sound(t) /\ Alive(t) = Alive(store) \cup {x}
          /\ Words(t, x) = Words(store, y) /\ Words(t, y) = << >>
          /\ \A z \in Alive(store) \ {x, y} : Words(t, z) = Words(store, z)
      BY <1>1, <2>1, MoveSliceSound
    <3> HIDE DEF t
    <3>2. QED
      BY <1>1, <3>1
  <2> HIDE DEF t
  <2>3. /\ WindowsInside' /\ call' = <<"move", x, y>>
        /\ \A z \in Name : Words(store, z)' = Words(t, z)
    BY <2>1, <2>2, BecomeSound
  <2>4. Values' = [Values EXCEPT ![x] = Values[y], ![y] = << >>]
    BY <2>1, <2>2, <2>3 DEF Values
  <2>5. QED
    BY <2>1, <2>3, <2>4 DEF Sequences_!Reads, Values
<1>6. ASSUME NEW y \in Name, Swap(x, y) PROVE WindowsInside' /\ Sequences_!Reads
  <2> DEFINE t == SwapSlices(store, x, y)
  <2>1. /\ Sound(t) /\ Words(t, x) = Words(store, y) /\ Words(t, y) = Words(store, x)
        /\ \A z \in Name \ {x, y} : Words(t, z) = Words(store, z)
        /\ Become(t, <<"swap", x, y>>) /\ x # y /\ Alive(t) = Name
    BY <1>1, <1>6, SwapSlicesSound DEF Swap
  <2> HIDE DEF t
  <2>2. /\ WindowsInside' /\ call' = <<"swap", x, y>>
        /\ \A z \in Name : Words(store, z)' = Words(t, z)
    BY <2>1, BecomeSound
  <2>3. Values' = [Values EXCEPT ![x] = Values[y], ![y] = Values[x]]
    BY <2>1, <2>2 DEF Values
  <2>4. QED
    BY <2>2, <2>3 DEF Sequences_!Reads, Values
<1>7. ASSUME NEW y \in Name, NEW hi \in 0 .. Count(store, y), NEW lo \in 0 .. hi,
             Sliced(x, y, lo, hi)
      PROVE  WindowsInside' /\ Sequences_!Reads
  <2> DEFINE r == CopySlice(store, x, y)
             v == SubSeq(Words(store, y), lo + 1, hi)
             t == SubSlice(r, x, lo, hi)
  <2>1. Differ(store, r, x, Words(store, y)) /\ Become(t, <<"sliced", x, y, lo, hi>>)
    BY <1>1, <1>7, CopySliceSound DEF Sliced
  <2> HIDE DEF r
  <2>2. Sound(r) /\ Words(r, x) = Words(store, y) /\ Alive(r) = Name
    BY <1>1, <2>1 DEF Differ
  <2>3. Count(r, x) = Count(store, y) /\ Len(Words(store, y)) = Count(store, y)
    BY <1>1, <2>2, SliceWords
  <2>4. Differ(r, t, x, v)
    BY <2>2, <2>3, NarrowSound
  <2> HIDE DEF t, v
  <2>5. Differ(store, t, x, v)
    BY <2>1, <2>4 DEF Differ, SameRest
  <2>6. WindowsInside' /\ Sequences_!Change(<<"sliced", x, y, lo, hi>>, x, v)
    BY <2>1, <2>5, ChangeStep
  <2>7. lo \in 0 .. Len(Values[y]) /\ hi \in 0 .. Len(Values[y])
    <3>1. Count(store, y) \in Nat
      BY <1>1, SliceWords
    <3>2. QED
      BY <2>3, <3>1 DEF Values
  <2>8. \E a, b \in 0 .. Len(Values[y]) :
          Sequences_!Change(<<"sliced", x, y, a, b>>, x, SubSeq(Values[y], a + 1, b))
    BY <2>6, <2>7 DEF v, Values
  <2>9. QED
    BY <2>6, <2>8 DEF Sequences_!Reads, Values
<1>8. QED
  BY <1>2, <1>3, <1>4, <1>5, <1>6, <1>7

(* The calls that write or resize a vector, which has one owner.           *)
LEMMA WritesStep ==
  ASSUME WindowsInside, NEW x \in Name,
         \/ \E d \in Data : \/ Prepend(x, d) \/ AppendTo(x, d)
                            \/ \E i \in 1 .. Count(store, x) : Write(x, i, d)
         \/ \E n \in 1 .. MaxLen : Extend(x, n)
         \/ \E hi \in Count(store, x) + 1 .. MaxLen :
              \E lo \in 0 .. Count(store, x) : Widen(x, lo, hi)
  PROVE  WindowsInside' /\ Sequences_!Writes
<1>1. /\ Sound(store) /\ Alive(store) = Name /\ Count(store, x) \in Nat /\ Words(store, x) \in Seq(Data)
      /\ Len(Words(store, x)) = Count(store, x)
  BY StoreSound, SliceWords
<1>2. ASSUME NEW d \in Data, Prepend(x, d) PROVE WindowsInside' /\ Sequences_!Writes
  <2>1. WindowsInside' /\ Sequences_!Change(<<"prepend", x, d>>, x, <<d>> \o Words(store, x))
    BY <1>1, <1>2, PrependSound, ChangeStep DEF Prepend, Owned, Sole
  <2>2. QED
    BY <2>1 DEF Sequences_!Writes
<1>3. ASSUME NEW d \in Data, AppendTo(x, d) PROVE WindowsInside' /\ Sequences_!Writes
  <2>1. WindowsInside' /\ Sequences_!Change(<<"append", x, d>>, x, Append(Words(store, x), d))
    BY <1>1, <1>3, AppendSound, ChangeStep DEF AppendTo, Owned, Sole
  <2>2. QED
    BY <2>1 DEF Sequences_!Writes
<1>4. ASSUME NEW d \in Data, NEW i \in 1 .. Count(store, x), Write(x, i, d)
      PROVE  WindowsInside' /\ Sequences_!Writes
  <2> DEFINE w == Words(store, x)
             u == Put(w, i, d)
  <2>1. Sole(store, x) /\ Become(Overwrite(store, x, u), <<"write", x, i, d>>)
    BY <1>4 DEF Write, Owned, Sole
  <2> HIDE DEF w
  <2>2. u = [w EXCEPT ![i] = d] /\ i \in DOMAIN w
    <3>1. DOMAIN w = 1 .. Count(store, x) /\ w = [k \in DOMAIN w |-> w[k]]
      BY <1>1, LenProperties DEF w
    <3>2. QED
      BY <3>1 DEF Put
  <2>3. u \in Seq(Data) /\ Len(u) = Count(store, x)
    <3>1. i \in Int /\ w \in Seq(Data) /\ Len(w) = Count(store, x)
      BY <1>1 DEF w
    <3>2. QED
      BY <3>1, PutProperties
  <2> HIDE DEF u
  <2>4. Differ(store, Overwrite(store, x, u), x, u)
    BY <1>1, <2>1, <2>3, OverwriteSound
  <2>5. WindowsInside' /\ Sequences_!Change(<<"write", x, i, d>>, x, u)
    BY <2>1, <2>4, ChangeStep
  <2>6. QED
    BY <2>2, <2>5 DEF Sequences_!Writes, w
<1>5. ASSUME NEW n \in 1 .. MaxLen, Extend(x, n) PROVE WindowsInside' /\ Sequences_!Writes
  <2> DEFINE c == <<"extend", x, n>>
  <2>1. n \in Nat
    BY BoundAssumption
  <2>2. WindowsInside' /\ Sequences_!Change(c, x, Zeros(n) \o Words(store, x))
    BY <1>1, <1>5, <2>1, PreExtendSound, ChangeStep DEF Extend, Owned, Sole
  <2>3. call' = c
    BY <2>2 DEF Sequences_!Change
  <2>4. call'[1] = "extend" /\ call'[3] = n
    BY <2>3
  <2>5. Sequences_!Change(call', x, [i \in 1 .. call'[3] |-> 0] \o Words(store, x))
    BY <2>2, <2>3, <2>4 DEF Zeros
  <2>6. QED
    BY <2>2, <2>4, <2>5 DEF Sequences_!Writes
<1>6. ASSUME NEW hi \in Count(store, x) + 1 .. MaxLen, NEW lo \in 0 .. Count(store, x),
             Widen(x, lo, hi)
      PROVE  WindowsInside' /\ Sequences_!Writes
  <2> DEFINE c == <<"slice", x, lo, hi>>
             n == Count(store, x)
             w == Words(store, x)
             t == SubSlice(store, x, lo, hi)
             u == Words(t, x)
  <2>1. Sole(store, x) /\ Become(t, c)
    BY <1>6 DEF Widen, Owned, Sole
  <2>2. hi \in Nat /\ hi > n
    BY <1>1, BoundAssumption
  <2>3. /\ Differ(store, t, x, u) /\ Len(u) = hi - lo
        /\ SubSeq(u, 1, n - lo) = SubSeq(w, lo + 1, n)
    BY <1>1, <2>1, <2>2, WidenSound
  <2> HIDE DEF t, u
  <2>4. WindowsInside' /\ Sequences_!Change(c, x, u)
    BY <2>1, <2>3, ChangeStep
  <2>5. call' = c /\ Values'[x] = u
    BY <2>4 DEF Sequences_!Change, Values
  <2>6. call'[1] = "slice" /\ call'[3] = lo /\ call'[4] = hi
    BY <2>5
  <2>7. Sequences_!Change(call', x, Values'[x])
    BY <2>4, <2>5
  <2>8. /\ Len(Values'[x]) = call'[4] - call'[3]
        /\ SubSeq(Values'[x], 1, Len(Values[x]) - call'[3])
             = SubSeq(Values[x], call'[3] + 1, Len(Values[x]))
    BY <1>1, <2>3, <2>5, <2>6 DEF Values
  <2>9. QED
    BY <2>4, <2>6, <2>7, <2>8 DEF Sequences_!Writes, Values
<1>7. QED
  BY <1>2, <1>3, <1>4, <1>5, <1>6

(* Every step keeps the windows inside and is a step of SequenceStore.     *)
LEMMA Next_Step == WindowsInside /\ Next => WindowsInside' /\ Sequences_!Next
  BY ReadsStep, WritesStep DEF Next, Sequences_!Next

-----------------------------------------------------------------------------
(* Every window lies inside its vector, whatever other slices do to it.    *)
THEOREM WindowsStayInside == Spec => []WindowsInside
<1>1. Init => WindowsInside
  BY InitSound
<1>2. WindowsInside /\ [Next]_vars => WindowsInside'
  <2>1. WindowsInside /\ UNCHANGED vars => WindowsInside'
    BY DEF WindowsInside, vars
  <2>2. QED
    BY <2>1, Next_Step
<1>3. QED
  BY <1>1, <1>2, PTL DEF Spec

(* Copies, moves, swaps and sub-slices share vectors, and still each slice *)
(* is a sequence of its own, if it is cloned before it is written: the     *)
(* store of slices implements SequenceStore.                               *)
THEOREM SlicesAreSequences == Spec => ImplementsSequences
<1>1. Init => Sequences_!Init
  BY InitSound
<1>2. WindowsInside /\ [Next]_vars => [Sequences_!Next]_<<Values, call>>
  <2>1. UNCHANGED vars => UNCHANGED <<Values, call>>
    BY DEF vars, Values, Words, Vec, store
  <2>2. QED
    BY <2>1, Next_Step
<1>3. QED
  BY <1>1, <1>2, WindowsStayInside, PTL DEF Spec, ImplementsSequences, Sequences_!Spec, Values
=============================================================================
