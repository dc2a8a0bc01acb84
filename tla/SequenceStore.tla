--------------------------- MODULE SequenceStore ---------------------------
(***************************************************************************)
(* What Slice promises a client that clones before it writes: variables    *)
(* that hold sequences, each its own.  What slice() finds beyond the end   *)
(* is unspecified.                                                         *)
(***************************************************************************)
EXTENDS Naturals, Sequences

CONSTANTS Name, Data
VARIABLES val, call

(* x is changed, and x only.                                               *)
Change(c, x, v) == /\ call' = c
                   /\ val' = [val EXCEPT ![x] = v]

Init == val = [x \in Name |-> << >>] /\ call = <<"none">>

Reads ==
  \E x \in Name :
    \/ Change(<<"new", x>>, x, << >>)
    \/ Change(<<"clone", x>>, x, val[x])
    \/ \E y \in Name :
         \/ Change(<<"copy", x, y>>, x, val[y])
         \/ /\ call' = <<"move", x, y>>
            /\ val' = [val EXCEPT ![x] = val[y], ![y] = << >>]
         \/ /\ call' = <<"swap", x, y>>
            /\ val' = [val EXCEPT ![x] = val[y], ![y] = val[x]]
         \/ \E lo, hi \in 0 .. Len(val[y]) :
              Change(<<"sliced", x, y, lo, hi>>, x, SubSeq(val[y], lo + 1, hi))

Writes ==
  \E x \in Name :
    \/ \E d \in Data :
         \/ Change(<<"prepend", x, d>>, x, <<d>> \o val[x])
         \/ Change(<<"append", x, d>>, x, Append(val[x], d))
         \/ \E i \in DOMAIN val[x] : Change(<<"write", x, i, d>>, x, [val[x] EXCEPT ![i] = d])
    \/ /\ call'[1] = "extend"
       /\ Change(call', x, [i \in 1 .. call'[3] |-> 0] \o val[x])
    \/ /\ call'[1] = "slice"
       /\ Change(call', x, val'[x])
       /\ LET lo == call'[3]
              hi == call'[4]
          IN  /\ Len(val'[x]) = hi - lo
              /\ SubSeq(val'[x], 1, Len(val[x]) - lo) = SubSeq(val[x], lo + 1, Len(val[x]))

Next == Reads \/ Writes

Spec == Init /\ [][Next]_<<val, call>>
=============================================================================
