--------------------------- MODULE Status_proofs ---------------------------
(* Safety of the registry for any number of threads and any table of codes.*)
EXTENDS Status, TLAPS

(* A thread in its first getInstance has registered the codes before next, *)
(* and is about to register that one.                                      *)
Filling(t) == pc[t] \in {"filling", "storing"}
Filled == \A t \in Thread :
            Filling(t) => \A i \in 1 .. next[t] - 1 : s_mp[errInfos[i]] # "none"
AtNext == \A t \in Thread :
            /\ pc[t] = "storing" => next[t] <= Len(errInfos) /\ at[t] = errInfos[next[t]]
            /\ ~ Filling(t) => next[t] = 1

(* The inductive invariant.                                                *)
RegistryInv == TypeOK /\ Filled /\ AtNext /\ KnownOnceStarted

(* No entry is ever taken away.                                            *)
NoneLost == \A c \in Code : s_mp[c] # "none" => s_mp'[c] # "none"

-----------------------------------------------------------------------------
LEMMA Table == /\ Len(errInfos) \in Nat
               /\ \A i \in 1 .. Len(errInfos) : errInfos[i] \in Code
               /\ Known = {errInfos[i] : i \in 1 .. Len(errInfos)}
BY CodeAssumption DEF Known

THEOREM Init_RegistryInv == Init => RegistryInv
<1> SUFFICES ASSUME Init PROVE RegistryInv
  OBVIOUS
<1>1. TypeOK
  BY Table, NoCodeAssumption DEF Init, TypeOK, Labels, Writing, Reading
<1>2. Filled /\ AtNext /\ KnownOnceStarted
  BY DEF Init, Filled, AtNext, Filling, KnownOnceStarted
<1>3. QED
  BY <1>1, <1>2 DEF RegistryInv

(* An access touches what a thread does, and with which code.              *)
LEMMA AccessTyped ==
  ASSUME TypeOK, NEW t \in Thread, NEW label \in Writing \cup Reading, NEW c \in Code,
         Access(t, label, c)
  PROVE  /\ pc' \in [Thread -> Labels]
         /\ at' \in [Thread -> Code \cup {NoCode}]
         /\ process' \in {"running", "raced", "lost", "exited"}
         /\ \A u \in Thread : pc'[u] \in Writing \cup Reading <=> at'[u] \in Code
<1> USE DEF TypeOK, Access, Goto
<1>1. pc' \in [Thread -> Labels] /\ at' \in [Thread -> Code \cup {NoCode}]
  BY DEF Labels
<1>2. process' \in {"running", "raced", "lost", "exited"}
  <2>1. process' = "raced" \/ process' = process
    OBVIOUS
  <2>2. QED
    BY <2>1
<1>3. ASSUME NEW u \in Thread
      PROVE  pc'[u] \in Writing \cup Reading <=> at'[u] \in Code
  <2>1. CASE u = t
    BY <2>1
  <2>2. CASE u # t
    BY <2>2
  <2>3. QED
    BY <2>1, <2>2
<1>4. QED
  BY <1>1, <1>2, <1>3

(* A thread's turn keeps the variables in their types.                     *)
LEMMA TypeStep == ASSUME RegistryInv, NEW t \in Thread, Proceed(t) \/ Call(t)
                  PROVE  TypeOK'
<1> USE Table, NoCodeAssumption
    DEF RegistryInv, TypeOK, AtNext, Filling, Labels, Writing, Reading, In, Goto
<1>1. CASE GetInstance(t)
  BY <1>1 DEF GetInstance
<1>2. CASE RegisterNext(t)
  <2>1. errInfos[next[t]] \in Code
    BY <1>2 DEF RegisterNext
  <2>2. QED
    BY <1>2, <2>1, AccessTyped DEF RegisterNext
<1>3. CASE RegisteredNext(t)
  BY <1>3 DEF RegisteredNext, Store, Leave
<1>4. CASE Return(t)
  BY <1>4 DEF Return
<1>5. CASE Registered(t)
  BY <1>5 DEF Registered, Store, Leave
<1>6. CASE Callback(t)
  BY <1>6, SMTT(40) DEF Callback, Leave
<1>7. CASE GotInfo(t)
  BY <1>7 DEF GotInfo, Leave
<1>8. CASE End(t)
  BY <1>8 DEF End
<1>9. ASSUME NEW c \in Code, Register(t, c) \/ SetErrno(t, c) \/ GetInfo(t, c)
      PROVE  TypeOK'
  <2>1. PICK label \in Writing \cup Reading : Access(t, label, c)
    BY <1>9 DEF Register, SetErrno, GetInfo
  <2>2. QED
    BY <1>9, <2>1, AccessTyped DEF Register, SetErrno, GetInfo
<1>10. QED
  BY <1>1, <1>2, <1>3, <1>4, <1>5, <1>6, <1>7, <1>8, <1>9 DEF Proceed, Call

(* Only registeImpl changes the map, and it only adds or overwrites.       *)
LEMMA NeverErased == ASSUME RegistryInv, NEW t \in Thread, Proceed(t) \/ Call(t)
                     PROVE  NoneLost
<1>1. ASSUME NEW who \in {"library", "client"}, Store(t, who)
      PROVE  NoneLost
  BY <1>1 DEF Store, NoneLost, RegistryInv, TypeOK
<1>2. CASE RegisteredNext(t) \/ Registered(t)
  BY <1>1, <1>2 DEF RegisteredNext, Registered
<1>3. CASE UNCHANGED s_mp
  BY <1>3 DEF NoneLost
<1>4. QED
  BY <1>2, <1>3 DEF Proceed, Call, GetInstance, RegisterNext, Return, Callback, GotInfo,
     End, Register, SetErrno, GetInfo

(* Other threads' first calls keep their place.                            *)
LEMMA PlaceStep == ASSUME RegistryInv, NEW t \in Thread, Proceed(t) \/ Call(t)
                   PROVE  AtNext'
<1> SUFFICES ASSUME NEW u \in Thread
             PROVE  /\ pc'[u] = "storing" => next'[u] <= Len(errInfos) /\ at'[u] = errInfos[next'[u]]
                    /\ ~ Filling(u)' => next'[u] = 1
  BY DEF AtNext
<1> USE DEF RegistryInv, TypeOK, AtNext, Filling, In, Goto
<1>1. CASE u # t
  <2>1. pc'[u] = pc[u] /\ at'[u] = at[u] /\ next'[u] = next[u]
    BY <1>1 DEF Proceed, Call, GetInstance, RegisterNext, RegisteredNext, Return, Registered,
       Callback, GotInfo, End, Register, SetErrno, GetInfo, Access, Leave
  <2>2. QED
    BY <2>1
<1>2. CASE u = t
  <2>1. CASE RegisterNext(t)
    BY <1>2, <2>1 DEF RegisterNext, Access
  <2>2. CASE RegisteredNext(t) \/ GetInstance(t) \/ Return(t)
    BY <1>2, <2>2 DEF RegisteredNext, GetInstance, Return, Leave
  <2>3. CASE Registered(t) \/ Callback(t) \/ GotInfo(t) \/ End(t)
    BY <1>2, <2>3 DEF Registered, Callback, GotInfo, End, Leave
  <2>4. ASSUME NEW c \in Code, Register(t, c) \/ SetErrno(t, c) \/ GetInfo(t, c)
        PROVE  pc'[t] \in {"registering", "calling", "reading"} /\ next'[t] = 1
    BY <2>4 DEF Register, SetErrno, GetInfo, Access
  <2>5. QED
    BY <1>2, <2>1, <2>2, <2>3, <2>4 DEF Proceed, Call
<1>3. QED
  BY <1>1, <1>2

(* A thread's place moves on only behind an entry it has made.             *)
LEMMA FilledStep == ASSUME RegistryInv, NEW t \in Thread, Proceed(t) \/ Call(t)
                    PROVE  Filled'
<1> SUFFICES ASSUME NEW u \in Thread, Filling(u)', NEW i \in 1 .. next'[u] - 1
             PROVE  s_mp'[errInfos[i]] # "none"
  BY DEF Filled
<1>0. NoneLost
  BY NeverErased
<1> USE Table DEF RegistryInv, TypeOK, AtNext, In, Goto
<1>1. ASSUME next'[u] = next[u], Filling(u)
      PROVE  s_mp'[errInfos[i]] # "none"
  BY <1>0, <1>1 DEF Filled, NoneLost
<1>2. CASE RegisteredNext(t) /\ u = t
  <2>1. /\ pc[t] = "storing" /\ next'[t] = next[t] + 1
        /\ s_mp' = [s_mp EXCEPT ![errInfos[next[t]]] = "library"]
    BY <1>2 DEF RegisteredNext, Store
  <2>2. CASE i = next[t]
    BY <2>1, <2>2
  <2>3. CASE i # next[t]
    <3>1. i \in 1 .. next[t] - 1
      BY <1>2, <2>1, <2>3
    <3>2. s_mp[errInfos[i]] # "none"
      BY <2>1, <3>1 DEF Filled, Filling
    <3>3. QED
      BY <1>0, <3>1, <3>2 DEF NoneLost
  <2>4. QED
    BY <2>2, <2>3
<1>3. CASE ~ (RegisteredNext(t) /\ u = t)
  <2>1. CASE GetInstance(t) /\ u = t
    BY <2>1 DEF GetInstance, Filling
  <2>2. CASE Return(t) /\ u = t
    BY <2>2 DEF Return, Filling
  <2>3. CASE RegisterNext(t) /\ u = t
    BY <1>1, <2>3 DEF RegisterNext, Filling
  <2>4. CASE u # t
    <3>1. pc'[u] = pc[u] /\ next'[u] = next[u]
      BY <2>4 DEF Proceed, Call, GetInstance, RegisterNext, RegisteredNext, Return, Registered,
         Callback, GotInfo, End, Register, SetErrno, GetInfo, Access, Leave
    <3>2. QED
      BY <1>1, <3>1 DEF Filling
  <2>5. CASE u = t /\ (Registered(t) \/ Callback(t) \/ GotInfo(t) \/ End(t))
    BY <2>5 DEF Registered, Callback, GotInfo, End, Leave, Filling
  <2>6. ASSUME NEW c \in Code, u = t, Register(t, c) \/ SetErrno(t, c) \/ GetInfo(t, c)
        PROVE  FALSE
    BY <2>6 DEF Register, SetErrno, GetInfo, Access, Filling
  <2>7. QED
    BY <1>3, <2>1, <2>2, <2>3, <2>4, <2>5, <2>6 DEF Proceed, Call
<1>4. QED
  BY <1>2, <1>3

(* When a first getInstance returns, the loop has been through the table.  *)
LEMMA KnownStep == ASSUME RegistryInv, NEW t \in Thread, Proceed(t) \/ Call(t)
                   PROVE  KnownOnceStarted'
<1> SUFFICES ASSUME h' # {}, NEW c \in Known
             PROVE  s_mp'[c] # "none"
  BY DEF KnownOnceStarted, Known
<1> USE Table DEF RegistryInv, TypeOK
<1>1. s_mp[c] # "none"
  <2>1. CASE Return(t)
    <3>1. PICK i \in 1 .. Len(errInfos) : c = errInfos[i]
      OBVIOUS
    <3>2. Filling(t) /\ i \in 1 .. next[t] - 1
      BY <2>1 DEF Return, In, Filling
    <3>3. QED
      BY <3>1, <3>2 DEF Filled
  <2>2. CASE ~ Return(t)
    <3>1. h # {}
      BY <2>2 DEF Proceed, Call, GetInstance, RegisterNext, RegisteredNext, Registered,
         Callback, GotInfo, End, Register, SetErrno, GetInfo
    <3>2. QED
      BY <3>1 DEF KnownOnceStarted
  <2>3. QED
    BY <2>1, <2>2
<1>2. QED
  BY <1>1, NeverErased DEF NoneLost

THEOREM Next_RegistryInv == RegistryInv /\ [Next]_vars => RegistryInv'
<1> SUFFICES ASSUME RegistryInv, [Next]_vars PROVE RegistryInv'
  OBVIOUS
<1>1. ASSUME NEW t \in Thread, Proceed(t) \/ Call(t)
      PROVE  RegistryInv'
  BY <1>1, TypeStep, PlaceStep, FilledStep, KnownStep DEF RegistryInv
<1>2. CASE UNCHANGED vars
  BY <1>2 DEF vars, RegistryInv, TypeOK, Filled, AtNext, Filling, KnownOnceStarted, Known
<1>3. QED
  BY <1>1, <1>2 DEF Next

THEOREM RegistryInvariant == Spec => []RegistryInv
BY Init_RegistryInv, Next_RegistryInv, PTL DEF Spec

(* A thread whose first getInstance has returned finds every code of the   *)
(* library, in any interleaving with the first calls of other threads.     *)
THEOREM StartedKnows == Spec => []KnownOnceStarted
<1>1. RegistryInv => KnownOnceStarted
  BY DEF RegistryInv
<1>2. QED
  BY <1>1, RegistryInvariant, PTL

(* Only a first getInstance overwrites what a client has registered, and   *)
(* only under the library's own codes.                                     *)
THEOREM ClientsKeepEntries == Spec => ClientEntriesStay
<1> DEFINE Stay == \A c \in Code : s_mp[c] = "client" /\ (Fillers = {} \/ c \notin Known) =>
                     s_mp'[c] = "client"
<1>1. RegistryInv /\ [Next]_vars => [Stay]_vars
  <2> SUFFICES ASSUME RegistryInv, NEW t \in Thread, Proceed(t) \/ Call(t),
                      NEW c \in Code, s_mp[c] = "client", Fillers = {} \/ c \notin Known
               PROVE  s_mp'[c] = "client"
    BY DEF Next
  <2> USE DEF RegistryInv, TypeOK
  <2>1. CASE RegisteredNext(t)
    <3>1. pc[t] = "storing" /\ at[t] = errInfos[next[t]] /\ next[t] \in 1 .. Len(errInfos)
      BY <2>1 DEF RegisteredNext, In, AtNext
    <3>2. at[t] \in Known /\ t \in Fillers
      BY <3>1, Table DEF Fillers
    <3>3. c # at[t]
      BY <3>2
    <3>4. QED
      BY <2>1, <3>3 DEF RegisteredNext, Store
  <2>2. CASE Registered(t)
    BY <2>2 DEF Registered, Store
  <2>3. CASE UNCHANGED s_mp
    BY <2>3
  <2>4. QED
    BY <2>1, <2>2, <2>3 DEF Proceed, Call, GetInstance, RegisterNext, Return, Callback,
       GotInfo, End, Register, SetErrno, GetInfo
<1>2. QED
  BY <1>1, RegistryInvariant, PTL DEF Spec, ClientEntriesStay
=============================================================================
