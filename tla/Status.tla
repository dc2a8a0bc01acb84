------------------------------- MODULE Status -------------------------------
(***************************************************************************)
(* Status (src/Status.cpp, src/Status.h): the registry of error codes,     *)
(* shared by all threads without a lock, and the Status object each thread *)
(* gets from getInstance, whose first call registers the library's codes,  *)
(* again for each thread.  Registering a code and looking one up both take *)
(* time: a step begins it, a later one ends it.  The process stops at      *)
(* anything undefined: two accesses at once, one of them a write, and the  *)
(* call of a callback that is not there.                                   *)
(***************************************************************************)
EXTENDS Integers, Sequences

CONSTANTS
  Thread,
  Code,       \* the error codes anyone uses
  errInfos,   \* the codes the library registers, in order
  Exits       \* those whose library callback ends the process: DIVBY0

ASSUME CodeAssumption == errInfos \in Seq(Code) /\ Exits \subseteq Code

Known == {errInfos[i] : i \in DOMAIN errInfos}
NoCode == "none"
ASSUME NoCodeAssumption == NoCode \notin Code

VARIABLES
  s_mp,      \* who registered a code: "none", "library" or "client"
  h,         \* the threads whose getInstance has registered the codes
  pc, at,    \* what a thread does, and with which code
  next,      \* how far pgbn_reg of each thread has come
  process    \* "running", or how it ended

vars == <<s_mp, h, pc, at, next, process>>

Writing == {"storing", "registering"}
Reading == {"calling", "reading"}

-----------------------------------------------------------------------------
Init ==
  /\ s_mp = [c \in Code |-> "none"]
  /\ h = {}
  /\ pc = [t \in Thread |-> "idle"]
  /\ at = [t \in Thread |-> NoCode]
  /\ next = [t \in Thread |-> 1]
  /\ process = "running"

In(t, label) == process = "running" /\ pc[t] = label
Goto(t, label) == pc' = [pc EXCEPT ![t] = label]

(* t starts an access, a write or a read, while others may be in theirs.   *)
Access(t, label, c) ==
  /\ Goto(t, label)
  /\ at' = [at EXCEPT ![t] = c]
  /\ LET conflicting == IF label \in Writing THEN Writing \cup Reading ELSE Writing
     IN  process' = IF \E u \in Thread \ {t} : pc[u] \in conflicting
                    THEN "raced" ELSE process

(* The access ends, and t goes on at label.                                *)
Leave(t, label) == Goto(t, label) /\ at' = [at EXCEPT ![t] = NoCode]

(* registeImpl: the entry is made or overwritten.                          *)
Store(t, who) == s_mp' = [s_mp EXCEPT ![at[t]] = who]

(* The first getInstance of a thread runs pgbn_reg; later ones only return *)
(* the object, and leave no trace.                                         *)
GetInstance(t) ==
  /\ In(t, "idle") /\ t \notin h
  /\ Goto(t, "filling")
  /\ UNCHANGED <<s_mp, h, at, next, process>>

RegisterNext(t) ==
  /\ In(t, "filling") /\ next[t] <= Len(errInfos)
  /\ Access(t, "storing", errInfos[next[t]])
  /\ UNCHANGED <<s_mp, h, next>>

(* Mutant: the loop stays at its first code.                               *)
RegisteredSame(t) ==
  /\ In(t, "storing")
  /\ Store(t, "library")
  /\ Leave(t, "filling")
  /\ UNCHANGED <<h, next, process>>

RegisteredNext(t) ==
  /\ In(t, "storing")
  /\ Store(t, "library")
  /\ Leave(t, "filling")
  /\ next' = [next EXCEPT ![t] = @ + 1]
  /\ UNCHANGED <<h, process>>

(* Mutant: the last code is left out.                                      *)
ReturnEarly(t) ==
  /\ In(t, "filling") /\ next[t] >= Len(errInfos)
  /\ h' = h \cup {t}
  /\ Goto(t, "idle")
  /\ next' = [next EXCEPT ![t] = 1]
  /\ UNCHANGED <<s_mp, at, process>>

Return(t) ==
  /\ In(t, "filling") /\ next[t] > Len(errInfos)
  /\ h' = h \cup {t}
  /\ Goto(t, "idle")
  /\ next' = [next EXCEPT ![t] = 1]
  /\ UNCHANGED <<s_mp, at, process>>

(* A client registers a code, with or without a callback.  registe is      *)
(* static: no Status is needed.                                            *)
Register(t, c) ==
  /\ In(t, "idle")
  /\ Access(t, "registering", c)
  /\ UNCHANGED <<s_mp, h, next>>

Registered(t) ==
  /\ In(t, "registering")
  /\ Store(t, "client")
  /\ Leave(t, "idle")
  /\ UNCHANGED <<h, next, process>>

(* A number is assigned to a Status, or given to its constructor, and the  *)
(* callback looked up (the number itself is not read again here).  The     *)
(* thread need not have called getInstance: the Status may be its own.     *)
SetErrno(t, c) ==
  /\ In(t, "idle")
  /\ Access(t, "calling", c)
  /\ UNCHANGED <<s_mp, h, next>>

(* The callback is called, out of the map.  Only debug builds test whether *)
(* there is one.                                                           *)
Callback(t) ==
  /\ In(t, "calling")
  /\ IF s_mp[at[t]] = "none"
     THEN process' = "lost" /\ UNCHANGED <<pc, at>>
     ELSE /\ process' = IF s_mp[at[t]] = "library" /\ at[t] \in Exits THEN "exited" ELSE process
          /\ Leave(t, "idle")
  /\ UNCHANGED <<s_mp, h, next>>

(* getInfo: of a code that is not there, a default text.                   *)
GetInfo(t, c) ==
  /\ In(t, "idle")
  /\ Access(t, "reading", c)
  /\ UNCHANGED <<s_mp, h, next>>

GotInfo(t) ==
  /\ In(t, "reading")
  /\ Leave(t, "idle")
  /\ UNCHANGED <<s_mp, h, next, process>>

(* Mutant: a thread takes the codes away that its first call registered.   *)
EndUnregistering(t) ==
  /\ In(t, "idle") /\ t \in h
  /\ h' = h \ {t}
  /\ s_mp' = [c \in Code |-> IF c \in Known THEN "none" ELSE s_mp[c]]
  /\ UNCHANGED <<pc, at, next, process>>

(* A thread ends, its thread_local objects with it; its name may be given  *)
(* to another one.                                                         *)
End(t) ==
  /\ In(t, "idle") /\ t \in h
  /\ h' = h \ {t}
  /\ UNCHANGED <<s_mp, pc, at, next, process>>

Proceed(t) == \/ RegisterNext(t) \/ RegisteredNext(t) \/ Return(t)
              \/ Registered(t) \/ Callback(t) \/ GotInfo(t)
Call(t) == \/ GetInstance(t) \/ End(t)
           \/ \E c \in Code : Register(t, c) \/ SetErrno(t, c) \/ GetInfo(t, c)
Next == \E t \in Thread : Proceed(t) \/ Call(t)

Spec == Init /\ [][Next]_vars

(* A thread inside a call goes on until it returns.                        *)
FairSpec == Spec /\ \A t \in Thread : WF_vars(Proceed(t))

-----------------------------------------------------------------------------
Labels == {"idle", "filling"} \cup Writing \cup Reading

TypeOK ==
  /\ s_mp \in [Code -> {"none", "library", "client"}]
  /\ h \subseteq Thread
  /\ pc \in [Thread -> Labels]
  /\ at \in [Thread -> Code \cup {NoCode}]
  /\ next \in [Thread -> 1 .. Len(errInfos) + 1]
  /\ process \in {"running", "raced", "lost", "exited"}
  /\ \A t \in Thread : pc[t] \in Writing \cup Reading <=> at[t] \in Code

(* Once getInstance has returned to a thread, all the library's codes are  *)
(* there, however many other threads are about to register them again, and *)
(* whatever clients overwrite.                                             *)
KnownOnceStarted == h # {} => \A c \in Known : s_mp[c] # "none"

(* What a client registers stays, as long as no thread is in its first     *)
(* getInstance; a code of its own stays for ever.                          *)
Fillers == {t \in Thread : pc[t] \in {"filling", "storing"}}
ClientEntriesStay ==
  [][\A c \in Code : s_mp[c] = "client" /\ (Fillers = {} \/ c \notin Known) =>
       s_mp'[c] = "client"]_vars

(* A thread's first getInstance returns, unless the process ends.          *)
GetInstanceReturns ==
  \A t \in Thread : pc[t] = "filling" ~> t \in h \/ process # "running"

(* What a client registers stays: the callback called is the client's.     *)
ClientEntriesLast ==
  [][\A c \in Code : s_mp[c] = "client" => s_mp'[c] = "client"]_vars
=============================================================================
