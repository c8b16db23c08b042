--------------------------- MODULE Sessions_proofs ---------------------------
(***************************************************************************)
(* Proofs about Sessions, for every set of consoles, every size of the     *)
(* pool of ids and every size of the table of threads.                     *)
(***************************************************************************)
EXTENDS Sessions, CommonLemmas

Tables == {"kernel", "server"}
Mutexes == {"kernel", "server", "scheduler"}
Pcb == [pid : Nat, of : Consoles]
Unit == {"SYS", "CMD", "size", "data"}

MainState ==
  [pc : {"init", "launch", "count", "listen", "accept", "delete_tm", "delete_sched",
         "hung", "delete_pcbs", "delete_server", "exit", "exited", "crashed"},
   tm : Tables, arg : Consoles \union {"worker"}]
NetState == [units : Seq(Unit), end : {"no", "eof", "error"}]
SessionPcs == {"none", "opcode", "add", "link", "remove", "end", "gone"}
SessionState == [pc : SessionPcs, pid : Nat, data : {"none", "data", "garbage"}, at : Int]
NewState == [pcb : Pcb, by : Consoles, program : {"data", "garbage"}]

MainTypeOK ==
  /\ main \in MainState /\ mutex \in [Mutexes -> {"free", "main", "trackers"}]
  /\ \A t \in Tables : mutex[t] # "trackers"
  /\ table \in [Tables -> Seq(Consoles \union {"worker"})] /\ max \in [Tables -> Nat \ {0}]

NetTypeOK ==
  /\ console \in [Consoles -> {"off", "connected", "sys", "cmd", "closed", "broken"}]
  /\ net \in [Consoles -> NetState] /\ backlog \in Seq(Consoles)

PoolTypeOK == pool \in [DOMAIN pool -> BOOLEAN] /\ \E n \in PoolSizes : DOMAIN pool = 0 .. n - 1

ListTypeOK ==
  /\ pcbs \in Seq(Pcb) /\ freed \in BOOLEAN /\ overlap \in BOOLEAN
  /\ new \in SUBSET NewState /\ dropped \in SUBSET Consoles

SessionsTypeOK ==
  MainTypeOK /\ NetTypeOK /\ session \in [Consoles -> SessionState] /\ PoolTypeOK /\ ListTypeOK

\* The main thread of the server: a console is accepted once, and its session
\* starts while the mutex is held.
Running == {c \in Consoles : session[c].pc \notin {"none", "gone"}}

ServerOK ==
  /\ main.tm = "kernel" => /\ backlog = <<>> /\ mutex["server"] = "free" /\ table["server"] = <<>>
                           /\ \A c \in Consoles : console[c] = "off"
  /\ main.pc \in {"init", "listen"} => main.tm = "kernel"
  /\ \A c \in Consoles : console[c] = "off" => session[c].pc = "none"
  /\ IsInjective(backlog)
  /\ \A c \in ToSet(backlog) : session[c].pc = "none" /\ console[c] # "off"
  /\ main.tm = "server" /\ main.pc = "launch" =>
       /\ main.arg \in Consoles /\ session[main.arg].pc = "none"
       /\ console[main.arg] # "off" /\ main.arg \notin ToSet(backlog)
  /\ main.tm = "server" /\ main.pc = "count" => mutex["server"] = "main"
  /\ mutex["server"] = "main" =>
       main.tm = "server" /\ main.pc \in {"count", "delete_tm", "delete_sched", "hung", "delete_pcbs",
                                         "delete_server", "crashed"}

\* The table of sessions, while the mutex is held too: it lacks the session that
\* was created and not counted yet.
TableOK ==
  main.pc \notin {"exit", "exited", "crashed"} =>
    LET t == table["server"]
    IN  /\ IsInjective(t)
        /\ mutex["server"] = "free" => ToSet(t) = Running /\ Len(t) <= max["server"]
        /\ mutex["server"] = "main" =>
             /\ main.arg \in Running /\ ToSet(t) = Running \ {main.arg}
             /\ Len(t) < max["server"]

\* What can be on the way from a console: the action, the instructions behind it,
\* or the instructions alone; whole packages while the connection is whole.
UnitsOf(c) ==
  LET u == net[c].units
  IN  /\ u # <<>> => \/ u[1] = "SYS" /\ Len(u) <= 6 /\ (Len(u) >= 4 => u[4] = "CMD")
                     \/ u[1] = "CMD" /\ Len(u) <= 3
      /\ console[c] \in {"off", "connected"} => u = <<>>
      /\ console[c] = "sys" => u = <<>> \/ (u[1] = "SYS" /\ Len(u) = 3)
      /\ console[c] \in {"cmd", "closed"} =>
           u = <<>> \/ (u[1] = "SYS" /\ Len(u) = 6) \/ (u[1] = "CMD" /\ Len(u) = 3)
      /\ net[c].end = "no" <=> console[c] \notin {"closed", "broken"}

UnitsOK == \A c \in Consoles : UnitsOf(c)

\* Every id in use is taken, and is in one place.
Pending(c) == session[c].pc \in {"add", "link"}

TakenOK ==
  /\ \A i \in DOMAIN pcbs : pcbs[i].pid \in DOMAIN pool /\ pool[pcbs[i].pid]
  /\ \A p \in new : p.pcb.pid \in DOMAIN pool /\ pool[p.pcb.pid]

UniqueOK ==
  /\ \A p, q \in new : p.pcb.pid = q.pcb.pid => p = q
  /\ \A i, j \in DOMAIN pcbs : pcbs[i].pid = pcbs[j].pid => i = j
  /\ \A i \in DOMAIN pcbs : \A p \in new : p.pcb.pid # pcbs[i].pid

PendingOK ==
  \A c \in Consoles : Pending(c) =>
    /\ session[c].pid \in DOMAIN pool /\ pool[session[c].pid]
    /\ \A i \in DOMAIN pcbs : pcbs[i].pid # session[c].pid
    /\ \A p \in new : p.pcb.pid # session[c].pid
    /\ \A d \in Consoles \ {c} : Pending(d) => session[d].pid # session[c].pid

IdsOK == TakenOK /\ UniqueOK /\ PendingOK

\* A session that has created its process and not handled its instructions.
Created(c) ==
  /\ session[c].pc = "opcode"
  /\ \/ console[c] = "sys" /\ net[c].units = <<>>
     \/ net[c].units # <<>> /\ Head(net[c].units) = "CMD"

HasPcb(c) == \E i \in DOMAIN pcbs : pcbs[i].pid = session[c].pid /\ pcbs[i].of = c

\* Nothing is taken from a connection before its session starts, and nothing comes
\* after the instructions.
StageOK ==
  \A c \in Consoles :
    /\ session[c].pc = "none" => /\ net[c].units # <<>> => net[c].units[1] = "SYS"
                                 /\ console[c] = "sys" => net[c].units # <<>>
    /\ session[c].pc = "remove" => net[c].units = <<>> /\ console[c] \in {"cmd", "closed", "broken"}

FoundOK ==
  \A c \in Consoles :
    /\ session[c].pc = "link" => ~freed
    /\ session[c].pc = "remove" => /\ session[c].data \in {"data", "garbage"}
                                   /\ ~freed => session[c].at >= 1

\* While no two sessions were in the list at once, what one has found there is
\* still there when it uses it.
AloneOK == \A c, d \in Consoles : InList(c) /\ InList(d) => c = d
PlacesOK ==
  \A c \in Consoles :
    /\ session[c].pc = "link" => session[c].at = IF pcbs = <<>> THEN -1 ELSE Last(pcbs).pid
    /\ session[c].pc = "remove" => /\ session[c].at \in DOMAIN pcbs /\ pcbs[session[c].at].of = c
                                   /\ session[c].data = "data" \/ Broken(c)
CreatedOK == \A c \in Consoles : Created(c) => HasPcb(c) \/ (session[c].pid = UNDEFINED /\ UsedUp)
NewOK == \A p \in new : p.pcb.of = p.by /\ (p.program = "data" \/ Broken(p.by))
DroppedOK == \A c \in dropped : session[c].pid = UNDEFINED /\ UsedUp

ListOK == overlap \/ freed \/ (AloneOK /\ PlacesOK /\ CreatedOK /\ NewOK /\ DroppedOK)

SessionsInv ==
  SessionsTypeOK /\ ServerOK /\ TableOK /\ UnitsOK /\ IdsOK /\ StageOK /\ FoundOK /\ ListOK
-----------------------------------------------------------------------------
(* Process ids and the table of threads.                                   *)

\* get_pid_libre returns an id that is free, or UNDEFINED, which is none, when
\* they are used up.
LEMMA FreePid ==
  ASSUME SessionsTypeOK
  PROVE  /\ UNDEFINED \in Nat /\ UNDEFINED \notin DOMAIN pool /\ DOMAIN pool \subseteq Nat
         /\ UsedUp => GetPidLibre = UNDEFINED
         /\ ~UsedUp => GetPidLibre \in DOMAIN pool /\ ~pool[GetPidLibre]
<1>1. PICK n \in PoolSizes : DOMAIN pool = 0 .. n - 1
  BY DEF SessionsTypeOK, PoolTypeOK
<1>2. PoolSizes \in SUBSET Nat /\ PoolSizes # {} /\ IsFiniteSet(PoolSizes)
  BY SessionsAssumption
<1>3. Max(PoolSizes) \in Nat /\ Max(PoolSizes) >= n /\ n \in Nat
  BY <1>2, MaxIsGreatest
<1>4. UNDEFINED \in Nat /\ UNDEFINED \notin DOMAIN pool /\ DOMAIN pool \subseteq Nat
  BY <1>1, <1>3 DEF UNDEFINED
<1>5. UsedUp => GetPidLibre = UNDEFINED
  BY DEF GetPidLibre
<1>6. ASSUME ~UsedUp PROVE GetPidLibre \in DOMAIN pool /\ ~pool[GetPidLibre]
  <2> DEFINE S == {i \in DOMAIN pool : ~pool[i]}
  <2>1. S \in SUBSET Nat /\ S # {}
    BY <1>4, <1>6 DEF UsedUp
  <2>2. Min(S) \in S
    <3> HIDE DEF S
    <3>1. QED
      BY <2>1, MinIsLeast
  <2>3. GetPidLibre = Min(S)
    BY <1>6 DEF GetPidLibre
  <2>4. QED
    BY <2>2, <2>3
<1>7. QED
  BY <1>4, <1>5, <1>6

\* thread_manager_end_thread takes one thread out of the table and keeps the
\* other ones, each once.
LEMMA WithoutProperties ==
  ASSUME NEW S, NEW t \in Seq(S), NEW c, IsInjective(t)
  PROVE  /\ Without(t, c) \in Seq(S) /\ IsInjective(Without(t, c))
         /\ ToSet(Without(t, c)) = ToSet(t) \ {c}
         /\ Len(Without(t, c)) <= Len(t)
<1>1. CASE IndexOf(t, c) = {}
  <2>1. Without(t, c) = t /\ c \notin ToSet(t)
    BY <1>1 DEF Without, IndexOf, ToSet
  <2>2. QED
    BY <2>1
<1>2. CASE IndexOf(t, c) # {}
  <2> DEFINE k == Min(IndexOf(t, c))
             n == Len(t)
             u == [t EXCEPT ![k] = Last(t)]
             r == Without(t, c)
  <2>1. IndexOf(t, c) \in SUBSET Nat
    BY DEF IndexOf
  <2>2. k \in 1 .. n /\ t[k] = c /\ n \in Nat /\ n >= 1
    <3>1. k \in IndexOf(t, c)
      BY <1>2, <2>1, MinIsLeast
    <3>2. QED
      BY <3>1 DEF IndexOf
  <2> HIDE DEF k
  <2>3. Last(t) = t[n] /\ t[n] \in S
    BY <2>2 DEF Last
  <2>4. u \in Seq(S) /\ Len(u) = n /\ \A j \in 1 .. n : u[j] = IF j = k THEN t[n] ELSE t[j]
    BY <2>2, <2>3
  <2>5. r = SubSeq(u, 1, n - 1)
    BY <1>2, <2>4 DEF Without, Front, k
  <2> HIDE DEF u, r
  <2>6. r \in Seq(S) /\ Len(r) = n - 1 /\ \A j \in 1 .. n - 1 : r[j] = u[j]
    BY <2>2, <2>4, <2>5
  <2>7. \A j \in 1 .. n - 1 : r[j] = IF j = k THEN t[n] ELSE t[j]
    BY <2>2, <2>4, <2>6
  <2>8. \A i, j \in 1 .. n : t[i] = t[j] => i = j
    BY DEF IsInjective
  <2>9. IsInjective(r)
    BY <2>2, <2>6, <2>7, <2>8 DEF IsInjective
  <2>10. ASSUME NEW x PROVE x \in ToSet(r) <=> x \in ToSet(t) \ {c}
    <3>1. ASSUME x \in ToSet(r) PROVE x \in ToSet(t) \ {c}
      <4>1. PICK j \in 1 .. n - 1 : r[j] = x
        BY <2>6, <3>1 DEF ToSet
      <4>2. QED
        BY <2>2, <2>7, <2>8, <4>1 DEF ToSet
    <3>2. ASSUME x \in ToSet(t) \ {c} PROVE x \in ToSet(r)
      <4>1. PICK j \in 1 .. n : t[j] = x /\ j # k
        BY <2>2, <3>2 DEF ToSet
      <4>2. CASE j = n
        <5>1. k \in 1 .. n - 1 /\ r[k] = x
          BY <2>2, <2>7, <4>1, <4>2
        <5>2. QED
          BY <2>6, <5>1 DEF ToSet
      <4>3. CASE j # n
        <5>1. j \in 1 .. n - 1 /\ r[j] = x
          BY <2>2, <2>7, <4>1, <4>3
        <5>2. QED
          BY <2>6, <5>1 DEF ToSet
      <4>4. QED
        BY <4>2, <4>3
    <3>3. QED
      BY <3>1, <3>2
  <2>11. ToSet(r) = ToSet(t) \ {c}
    BY <2>10
  <2>12. QED
    BY <2>2, <2>6, <2>9, <2>11 DEF r
<1>3. QED
  BY <1>1, <1>2

\* Whatever is in the table, it stays a list of threads.
LEMMA WithoutType ==
  ASSUME NEW S, NEW t \in Seq(S), NEW c PROVE Without(t, c) \in Seq(S)
<1>1. CASE IndexOf(t, c) = {}
  BY <1>1 DEF Without
<1>2. CASE IndexOf(t, c) # {}
  <2> DEFINE k == Min(IndexOf(t, c))
             u == [t EXCEPT ![k] = Last(t)]
  <2>1. IndexOf(t, c) \in SUBSET Nat
    BY DEF IndexOf
  <2>2. k \in 1 .. Len(t) /\ Len(t) \in Nat
    <3>1. k \in IndexOf(t, c)
      BY <1>2, <2>1, MinIsLeast
    <3>2. QED
      BY <3>1 DEF IndexOf
  <2> HIDE DEF k
  <2>3. Last(t) \in S
    BY <2>2 DEF Last
  <2>4. u \in Seq(S) /\ Len(u) = Len(t)
    BY <2>2, <2>3
  <2>5. Without(t, c) = SubSeq(u, 1, Len(u) - 1)
    BY <1>2 DEF Without, Front, k
  <2> HIDE DEF u
  <2>6. QED
    BY <2>2, <2>4, <2>5
<1>3. QED
  BY <1>1, <1>2

\* A thread that is not in the table is put behind the ones that are.
LEMMA AppendProperty ==
  ASSUME NEW S, NEW t \in Seq(S), NEW c \in S
  PROVE  /\ Append(t, c) \in Seq(S) /\ Len(Append(t, c)) = Len(t) + 1
         /\ ToSet(Append(t, c)) = ToSet(t) \union {c}
         /\ IsInjective(t) /\ c \notin ToSet(t) => IsInjective(Append(t, c))
<1> DEFINE r == Append(t, c)
<1>1. /\ r \in Seq(S) /\ Len(r) = Len(t) + 1 /\ Len(t) \in Nat /\ r[Len(t) + 1] = c
      /\ \A j \in 1 .. Len(t) : r[j] = t[j]
  OBVIOUS
<1> HIDE DEF r
<1>2. DOMAIN r = 1 .. Len(t) + 1 /\ DOMAIN t = 1 .. Len(t)
  BY <1>1
<1>3. ToSet(r) = ToSet(t) \union {c}
  BY <1>1, <1>2 DEF ToSet
<1>4. IsInjective(t) /\ c \notin ToSet(t) => IsInjective(r)
  BY <1>1, <1>2 DEF IsInjective, ToSet
<1>5. QED
  BY <1>1, <1>3, <1>4 DEF r

\* Taking the head of a list without repetitions leaves one without the head.
LEMMA TailProperty ==
  ASSUME NEW S, NEW t \in Seq(S), t # <<>>, IsInjective(t)
  PROVE  /\ Head(t) \in S /\ Tail(t) \in Seq(S) /\ IsInjective(Tail(t))
         /\ ToSet(Tail(t)) = ToSet(t) \ {Head(t)} /\ Head(t) \in ToSet(t)
<1> DEFINE r == Tail(t)
           h == Head(t)
<1>1. /\ r \in Seq(S) /\ Len(r) = Len(t) - 1 /\ Len(t) \in Nat /\ Len(t) >= 1 /\ h = t[1] /\ h \in S
      /\ \A j \in 1 .. Len(t) - 1 : r[j] = t[j + 1]
  OBVIOUS
<1> HIDE DEF r, h
<1>2. DOMAIN r = 1 .. Len(t) - 1 /\ DOMAIN t = 1 .. Len(t)
  BY <1>1
<1>3. \A i, j \in 1 .. Len(t) : t[i] = t[j] => i = j
  BY <1>2 DEF IsInjective
<1>4. IsInjective(r)
  BY <1>1, <1>2, <1>3 DEF IsInjective
<1>5. ASSUME NEW x \in ToSet(t), x # h PROVE x \in ToSet(r)
  <2>1. PICK j \in 1 .. Len(t) : t[j] = x /\ j # 1
    BY <1>1, <1>2, <1>5 DEF ToSet
  <2>2. j - 1 \in 1 .. Len(t) - 1 /\ r[j - 1] = x
    BY <1>1, <2>1
  <2>3. QED
    BY <1>2, <2>2 DEF ToSet
<1>6. ASSUME NEW x \in ToSet(r) PROVE x \in ToSet(t) /\ x # h
  <2>1. PICK j \in 1 .. Len(t) - 1 : t[j + 1] = x
    BY <1>1, <1>2 DEF ToSet
  <2>2. QED
    BY <1>1, <1>2, <1>3, <2>1 DEF ToSet
<1>7. h \in ToSet(t)
  BY <1>1, <1>2 DEF ToSet
<1>8. QED
  BY <1>1, <1>4, <1>5, <1>6, <1>7 DEF r, h
-----------------------------------------------------------------------------
(* Types.                                                                  *)

\* Initially nothing is launched, connected or taken.
LEMMA InitInv == ASSUME Init PROVE SessionsInv
<1> USE SessionsAssumption DEF Init
<1>1. MainTypeOK
  BY DEF MainTypeOK, MainState, Tables, Mutexes
<1>2. NetTypeOK
  <2>1. [units |-> <<>>, end |-> "no"] \in NetState
    BY DEF NetState
  <2>2. QED
    BY <2>1 DEF NetTypeOK
<1>3. session \in [Consoles -> SessionState]
  <2>1. NoSession \in SessionState
    BY DEF NoSession, SessionState, SessionPcs
  <2>2. QED
    BY <2>1
<1>4. PoolTypeOK /\ ListTypeOK
  <2>1. PICK n \in PoolSizes : pool = [i \in 0 .. n - 1 |-> FALSE]
    OBVIOUS
  <2>2. DOMAIN pool = 0 .. n - 1 /\ pool = [i \in DOMAIN pool |-> FALSE]
    BY <2>1
  <2>3. pool \in [DOMAIN pool -> BOOLEAN]
    BY <2>2, Zenon
  <2>4. ListTypeOK
    <3>1. freed \in BOOLEAN /\ overlap \in BOOLEAN
      BY Zenon
    <3>2. pcbs \in Seq(Pcb)
      BY EmptySeq
    <3>3. QED
      BY <3>1, <3>2 DEF ListTypeOK
  <2>5. QED
    BY <2>2, <2>3, <2>4 DEF PoolTypeOK
<1>5. ToSet(<<>>) = {} /\ IsInjective(<<>>)
  BY DEF ToSet, IsInjective
<1>6. ServerOK
  BY <1>5 DEF ServerOK, NoSession
<1>7. TableOK
  BY <1>5 DEF TableOK, Running, NoSession
<1>8. UnitsOK
  BY DEF UnitsOK, UnitsOf
<1>9. IdsOK
  BY DEF IdsOK, TakenOK, UniqueOK, PendingOK, Pending, NoSession
<1>10. StageOK /\ FoundOK
  BY DEF StageOK, FoundOK, NoSession
<1>11. ListOK
  BY DEF ListOK, AloneOK, PlacesOK, CreatedOK, NewOK, DroppedOK, InList, Created, NoSession
<1>12. QED
  BY <1>1, <1>2, <1>3, <1>4, <1>6, <1>7, <1>8, <1>9, <1>10, <1>11 DEF SessionsInv, SessionsTypeOK

\* The steps that change the main thread, its mutexes and its tables.
LEMMA MainFrame ==
  ASSUME [Next]_vars
  PROVE  \/ UNCHANGED mainVars
         \/ OnInit \/ OnInitFails \/ LaunchCreate \/ LaunchCount \/ Listen \/ ListenFails \/
            Accept \/ DeleteThreads \/ DeleteScheduler \/ DeletePcbs \/ DeleteServer \/ Exit \/ Sigint
         \/ TrackersLock \/ TrackersUnlock
         \/ \E c \in Consoles : RecvFails(c) \/ NewGone(c) \/ ListGone(c) \/ EndThread(c)
<1> USE DEF mainVars, netVars, kernelVars
<1>1. ASSUME NEW c \in Consoles
      PROVE  HandleSyscall(c) \/ UndefinedAction(c) \/ AddLocate(c) \/ AddLink(c) \/ FindPcb(c) \/
             RemovePcb(c) \/ Disconnect(c) \/ Connect(c) \/ SendAction(c) \/
             SendInstructions(c) \/ Close(c) \/ Break(c)
               => UNCHANGED mainVars
  BY DEF HandleSyscall, At, UndefinedAction, AddLocate, AddLink, Resumes, FindPcb, RemovePcb,
         Disconnect, Goes, Connect, SendAction, Send, SendInstructions, Close, Break
<1>2. UNCHANGED vars => UNCHANGED mainVars
  BY DEF vars
<1>3. QED
  BY <1>1, <1>2 DEF Next, Main, Session, Console

\* The steps that change the connections.
LEMMA NetFrame ==
  ASSUME [Next]_vars
  PROVE  \/ UNCHANGED <<console, net, backlog>>
         \/ Accept
         \/ \E c \in Consoles :
              HandleSyscall(c) \/ UndefinedAction(c) \/ FindPcb(c) \/ Connect(c) \/ SendAction(c) \/
              SendInstructions(c) \/ Close(c) \/ Break(c)
<1> USE DEF mainVars, netVars, kernelVars
<1>1. OnInit \/ OnInitFails \/ LaunchCreate \/ LaunchCount \/ Listen \/ ListenFails \/
      DeleteThreads \/ DeleteScheduler \/ DeletePcbs \/ DeleteServer \/ Exit \/ Sigint \/
      TrackersLock \/ TrackersUnlock
        => UNCHANGED <<console, net, backlog>>
  BY DEF OnInit, OnInitFails, Crash, LaunchCreate, LaunchCount, Listen, ListenFails, DeleteThreads,
         EndThreads, DeleteScheduler, DeletePcbs, DeleteServer, Exit, Sigint,
         TrackersLock, TrackersUnlock
<1>2. ASSUME NEW c \in Consoles
      PROVE  RecvFails(c) \/ NewGone(c) \/ AddLocate(c) \/ AddLink(c) \/ RemovePcb(c) \/ ListGone(c) \/
             Disconnect(c) \/ EndThread(c)
               => UNCHANGED <<console, net, backlog>>
  BY DEF RecvFails, NewGone, Crash, At, AddLocate, AddLink, Resumes, RemovePcb, ListGone, Disconnect, Goes,
         EndThread
<1>3. UNCHANGED vars => UNCHANGED <<console, net, backlog>>
  BY DEF vars
<1>4. QED
  BY <1>1, <1>2, <1>3 DEF Next, Main, Session, Console

\* The steps that change a session.
LEMMA SessionFrame ==
  ASSUME [Next]_vars
  PROVE  \/ UNCHANGED session
         \/ LaunchCreate
         \/ \E c \in Consoles :
              HandleSyscall(c) \/ AddLocate(c) \/ AddLink(c) \/ FindPcb(c) \/ RemovePcb(c) \/
              ListGone(c) \/ Disconnect(c) \/ EndThread(c)
<1> USE DEF mainVars, netVars, kernelVars
<1>1. OnInit \/ OnInitFails \/ LaunchCount \/ Listen \/ ListenFails \/ Accept \/ DeleteThreads \/
      DeleteScheduler \/ DeletePcbs \/ DeleteServer \/ Exit \/ Sigint \/ TrackersLock \/ TrackersUnlock
        => UNCHANGED session
  BY DEF OnInit, OnInitFails, Crash, LaunchCount, Listen, ListenFails, Accept, DeleteThreads,
         EndThreads, DeleteScheduler, DeletePcbs, DeleteServer, Exit, Sigint,
         TrackersLock, TrackersUnlock
<1>2. ASSUME NEW c \in Consoles
      PROVE  RecvFails(c) \/ NewGone(c) \/ UndefinedAction(c) \/ Connect(c) \/ SendAction(c) \/
             SendInstructions(c) \/ Close(c) \/ Break(c)
               => UNCHANGED session
  BY DEF RecvFails, NewGone, Crash, At, UndefinedAction, Connect, SendAction, Send, SendInstructions, Close, Break
<1>3. UNCHANGED vars => UNCHANGED session
  BY DEF vars
<1>4. QED
  BY <1>1, <1>2, <1>3 DEF Next, Main, Session, Console

\* The steps that take a process id.
LEMMA PoolFrame ==
  ASSUME [Next]_vars
  PROVE  \/ UNCHANGED pool
         \/ \E c \in Consoles : HandleSyscall(c)
<1> USE DEF mainVars, netVars, kernelVars
<1>1. OnInit \/ OnInitFails \/ LaunchCreate \/ LaunchCount \/ Listen \/ ListenFails \/ Accept \/
      DeleteThreads \/ DeleteScheduler \/ DeletePcbs \/ DeleteServer \/ Exit \/ Sigint \/
      TrackersLock \/ TrackersUnlock
        => UNCHANGED pool
  BY DEF OnInit, OnInitFails, Crash, LaunchCreate, LaunchCount, Listen, ListenFails, Accept,
         DeleteThreads, EndThreads, DeleteScheduler, DeletePcbs, DeleteServer, Exit, Sigint,
         TrackersLock, TrackersUnlock
<1>2. ASSUME NEW c \in Consoles
      PROVE  RecvFails(c) \/ NewGone(c) \/ UndefinedAction(c) \/ AddLocate(c) \/ AddLink(c) \/ FindPcb(c) \/
             RemovePcb(c) \/ ListGone(c) \/ Disconnect(c) \/ EndThread(c) \/
             Connect(c) \/ SendAction(c) \/ SendInstructions(c) \/ Close(c) \/ Break(c)
               => UNCHANGED pool
  BY DEF RecvFails, NewGone, Crash, At, UndefinedAction, AddLocate, AddLink, Resumes, FindPcb, RemovePcb,
         ListGone, Disconnect, Goes, EndThread, Connect, SendAction, Send, SendInstructions, Close,
         Break
<1>3. UNCHANGED vars => UNCHANGED pool
  BY DEF vars
<1>4. QED
  BY <1>1, <1>2, <1>3 DEF Next, Main, Session, Console

\* The steps that change the list of PCBs, and what became of them.
LEMMA ListFrame ==
  ASSUME [Next]_vars
  PROVE  \/ UNCHANGED <<pcbs, freed, overlap, new, dropped>>
         \/ DeletePcbs
         \/ \E c \in Consoles : AddLocate(c) \/ AddLink(c) \/ FindPcb(c) \/ RemovePcb(c) \/ ListGone(c)
<1> USE DEF mainVars, netVars, kernelVars
<1>1. OnInit \/ OnInitFails \/ LaunchCreate \/ LaunchCount \/ Listen \/ ListenFails \/ Accept \/
      DeleteThreads \/ DeleteScheduler \/ DeleteServer \/ Exit \/ Sigint \/
      TrackersLock \/ TrackersUnlock
        => UNCHANGED <<pcbs, freed, overlap, new, dropped>>
  BY DEF OnInit, OnInitFails, Crash, LaunchCreate, LaunchCount, Listen, ListenFails, Accept,
         DeleteThreads, EndThreads, DeleteScheduler, DeleteServer, Exit, Sigint,
         TrackersLock, TrackersUnlock
<1>2. ASSUME NEW c \in Consoles
      PROVE  RecvFails(c) \/ NewGone(c) \/ HandleSyscall(c) \/ UndefinedAction(c) \/ Disconnect(c) \/
             EndThread(c) \/ Connect(c) \/ SendAction(c) \/ SendInstructions(c) \/
             Close(c) \/ Break(c)
               => UNCHANGED <<pcbs, freed, overlap, new, dropped>>
  BY DEF RecvFails, NewGone, Crash, At, HandleSyscall, UndefinedAction, Disconnect, Goes, EndThread,
         Connect, SendAction, Send, SendInstructions, Close, Break
<1>3. UNCHANGED vars => UNCHANGED <<pcbs, freed, overlap, new, dropped>>
  BY DEF vars
<1>4. QED
  BY <1>1, <1>2, <1>3 DEF Next, Main, Session, Console

\* A session that changes its fields is still a session.
LEMMA SessionUpdate ==
  ASSUME SessionsTypeOK, NEW c \in Consoles, NEW pc \in SessionPcs
  PROVE  /\ [session EXCEPT ![c].pc = pc] \in [Consoles -> SessionState]
         /\ \A pid \in Nat :
              [session EXCEPT ![c].pid = pid, ![c].pc = pc] \in [Consoles -> SessionState]
         /\ \A at \in Int :
              [session EXCEPT ![c].pc = pc, ![c].at = at] \in [Consoles -> SessionState]
         /\ \A at \in Int, data \in {"none", "data", "garbage"} :
              /\ [session EXCEPT ![c].pc = pc, ![c].at = at, ![c].data = data]
                   \in [Consoles -> SessionState]
              /\ [session EXCEPT ![c].pc = pc, ![c].data = data, ![c].at = at]
                   \in [Consoles -> SessionState]
<1>1. session[c] \in SessionState /\ session \in [Consoles -> SessionState]
  BY DEF SessionsTypeOK
<1>2. [session EXCEPT ![c].pc = pc] \in [Consoles -> SessionState]
  <2>1. [session[c] EXCEPT !.pc = pc] \in SessionState
    BY <1>1 DEF SessionState
  <2>2. QED
    BY <1>1, <2>1
<1>3. ASSUME NEW pid \in Nat
      PROVE  [session EXCEPT ![c].pid = pid, ![c].pc = pc] \in [Consoles -> SessionState]
  <2>1. [session[c] EXCEPT !.pid = pid, !.pc = pc] \in SessionState
    BY <1>1 DEF SessionState
  <2>2. [session EXCEPT ![c].pid = pid, ![c].pc = pc] =
          [session EXCEPT ![c] = [session[c] EXCEPT !.pid = pid, !.pc = pc]]
    BY <1>1
  <2>3. QED
    BY <1>1, <2>1, <2>2
<1>4. ASSUME NEW at \in Int
      PROVE  [session EXCEPT ![c].pc = pc, ![c].at = at] \in [Consoles -> SessionState]
  <2>1. [session[c] EXCEPT !.pc = pc, !.at = at] \in SessionState
    BY <1>1 DEF SessionState
  <2>2. [session EXCEPT ![c].pc = pc, ![c].at = at] =
          [session EXCEPT ![c] = [session[c] EXCEPT !.pc = pc, !.at = at]]
    BY <1>1
  <2>3. QED
    BY <1>1, <2>1, <2>2
<1>5. ASSUME NEW at \in Int, NEW data \in {"none", "data", "garbage"}
      PROVE  /\ [session EXCEPT ![c].pc = pc, ![c].at = at, ![c].data = data]
                   \in [Consoles -> SessionState]
             /\ [session EXCEPT ![c].pc = pc, ![c].data = data, ![c].at = at]
                   \in [Consoles -> SessionState]
  <2> DEFINE r == [session[c] EXCEPT !.pc = pc, !.at = at, !.data = data]
  <2>1. r \in SessionState /\ r = [session[c] EXCEPT !.pc = pc, !.data = data, !.at = at]
    BY <1>1 DEF SessionState
  <2>2. /\ [session EXCEPT ![c].pc = pc, ![c].at = at, ![c].data = data] = [session EXCEPT ![c] = r]
        /\ [session EXCEPT ![c].pc = pc, ![c].data = data, ![c].at = at] =
             [session EXCEPT ![c] = [session[c] EXCEPT !.pc = pc, !.data = data, !.at = at]]
    BY <1>1
  <2>3. QED
    BY <1>1, <2>1, <2>2
<1>6. QED
  BY <1>2, <1>3, <1>4, <1>5

\* The main thread, its mutexes and its tables keep their types.
LEMMA MainTypeStep == ASSUME SessionsInv, [Next]_vars PROVE MainTypeOK'
<1> USE DEF SessionsInv, SessionsTypeOK, MainTypeOK
<1>1. CASE OnInit
  BY <1>1 DEF OnInit, MainState
<1>2. CASE OnInitFails
  BY <1>2 DEF OnInitFails, Crash, MainState
<1>3. CASE LaunchCreate
  <2>1. main.tm \in Tables /\ main \in MainState
    BY DEF MainState
  <2>2. main' \in MainState
    BY <1>3, <2>1 DEF LaunchCreate, MainState
  <2>3. /\ mutex' \in [Mutexes -> {"free", "main", "trackers"}] /\ table' = table
        /\ \A t \in Tables : mutex'[t] # "trackers"
    BY <1>3, <2>1 DEF LaunchCreate, Tables, Mutexes
  <2>4. max[main.tm] \in Nat \ {0} /\ 2 * max[main.tm] \in Nat \ {0}
    BY <2>1
  <2>5. max' \in [Tables -> Nat \ {0}]
    BY <1>3, <2>1, <2>4 DEF LaunchCreate
  <2>6. QED
    BY <2>2, <2>3, <2>5
<1>4. CASE LaunchCount
  <2>1. main.tm \in Tables /\ main.arg \in Consoles \union {"worker"}
    BY DEF MainState
  <2>2. Append(table[main.tm], main.arg) \in Seq(Consoles \union {"worker"})
    BY <2>1, AppendProperty
  <2>3. main' \in MainState
    BY <1>4, <2>1 DEF LaunchCount, MainState
  <2>4. QED
    BY <1>4, <2>1, <2>2, <2>3 DEF LaunchCount, Tables, Mutexes
<1>5. CASE Listen
  BY <1>5 DEF Listen, MainState, Tables
<1>6. CASE ListenFails
  BY <1>6 DEF ListenFails, MainState
<1>7. CASE Accept
  <2>1. Head(backlog) \in Consoles
    BY <1>7 DEF Accept, NetTypeOK
  <2>2. QED
    BY <1>7, <2>1 DEF Accept, MainState
<1>8. CASE DeleteThreads
  <2>1. "kernel" \in Tables /\ <<>> \in Seq(Consoles \union {"worker"})
    BY DEF Tables
  <2>2. main' \in MainState
    BY <1>8 DEF DeleteThreads, MainState
  <2>3. QED
    BY <1>8, <2>1, <2>2 DEF DeleteThreads, EndThreads
<1>9. CASE DeletePcbs \/ DeleteScheduler
  BY <1>9 DEF DeletePcbs, DeleteScheduler, MainState
<1>10. CASE DeleteServer
  <2>1. "server" \in Tables /\ <<>> \in Seq(Consoles \union {"worker"})
    BY DEF Tables
  <2>2. main' \in MainState
    BY <1>10 DEF DeleteServer, MainState
  <2>3. QED
    BY <1>10, <2>1, <2>2 DEF DeleteServer, EndThreads
<1>11. CASE Exit
  BY <1>11 DEF Exit, MainState
<1>12. CASE Sigint
  BY <1>12 DEF Sigint, MainState
<1>13. ASSUME NEW c \in Consoles, RecvFails(c) \/ NewGone(c) PROVE MainTypeOK'
  BY <1>13 DEF RecvFails, NewGone, Crash, At, MainState
<1>14. ASSUME NEW c \in Consoles, ListGone(c) PROVE MainTypeOK'
  BY <1>14 DEF ListGone, Crash, Resumes, MainState
<1>15. ASSUME NEW c \in Consoles, EndThread(c) PROVE MainTypeOK'
  <2>1. "server" \in Tables /\ Without(table["server"], c) \in Seq(Consoles \union {"worker"})
    BY WithoutType DEF Tables
  <2>2. QED
    BY <1>15, <2>1 DEF EndThread
<1>16. CASE TrackersLock \/ TrackersUnlock
  BY <1>16 DEF TrackersLock, TrackersUnlock, Tables, Mutexes
<1>17. CASE UNCHANGED mainVars
  BY <1>17 DEF mainVars
<1>18. QED
  BY <1>1, <1>2, <1>3, <1>4, <1>5, <1>6, <1>7, <1>8,
     <1>9, <1>10, <1>11, <1>12, <1>13, <1>14, <1>15, <1>16, <1>17, MainFrame

\* Taking a package from a connection.
LEMMA ConsumedType ==
  ASSUME NetTypeOK, NEW c \in Consoles PROVE Consumed(c) \in [Consoles -> NetState]
<1>1. net[c].units \in Seq(Unit) /\ net[c] \in NetState
  BY DEF NetTypeOK, NetState
<1>2. SubSeq(net[c].units, 4, Len(net[c].units)) \in Seq(Unit)
  BY <1>1
<1>3. [net[c] EXCEPT !.units = SubSeq(@, 4, Len(@))] \in NetState
  BY <1>1, <1>2 DEF NetState
<1>4. QED
  BY <1>3 DEF NetTypeOK, Consumed

\* The connections keep their types.
LEMMA NetTypeStep == ASSUME SessionsInv, [Next]_vars PROVE NetTypeOK'
<1> USE DEF SessionsInv, SessionsTypeOK, NetTypeOK
<1>1. CASE Accept
  BY <1>1 DEF Accept
<1>2. ASSUME NEW c \in Consoles, HandleSyscall(c) PROVE NetTypeOK'
  BY <1>2, ConsumedType DEF HandleSyscall
<1>3. ASSUME NEW c \in Consoles, UndefinedAction(c) PROVE NetTypeOK'
  BY <1>3, ConsumedType DEF UndefinedAction
<1>4. ASSUME NEW c \in Consoles, FindPcb(c) PROVE NetTypeOK'
  BY <1>4, ConsumedType DEF FindPcb
<1>5. ASSUME NEW c \in Consoles, Connect(c) PROVE NetTypeOK'
  BY <1>5 DEF Connect
<1>6. ASSUME NEW c \in Consoles, SendAction(c) PROVE NetTypeOK'
  <2>1. net[c].units \o Package("SYS") \in Seq(Unit) /\ net[c] \in NetState
    BY DEF NetState, Package, Unit
  <2>2. [net[c] EXCEPT !.units = @ \o Package("SYS")] \in NetState
    BY <2>1 DEF NetState
  <2>3. net' \in [Consoles -> NetState]
    BY <1>6, <2>2 DEF SendAction, Send
  <2>4. QED
    BY <1>6, <2>3 DEF SendAction, Send
<1>7. ASSUME NEW c \in Consoles, SendInstructions(c) PROVE NetTypeOK'
  <2>1. net[c].units \o Package("CMD") \in Seq(Unit) /\ net[c] \in NetState
    BY DEF NetState, Package, Unit
  <2>2. [net[c] EXCEPT !.units = @ \o Package("CMD")] \in NetState
    BY <2>1 DEF NetState
  <2>3. net' \in [Consoles -> NetState]
    BY <1>7, <2>2 DEF SendInstructions, Send
  <2>4. QED
    BY <1>7, <2>3 DEF SendInstructions, Send
<1>8. ASSUME NEW c \in Consoles, Close(c) PROVE NetTypeOK'
  <2>1. net[c] \in NetState /\ [net[c] EXCEPT !.end = "eof"] \in NetState
    BY DEF NetState
  <2>2. QED
    BY <1>8, <2>1 DEF Close
<1>9. ASSUME NEW c \in Consoles, Break(c) PROVE NetTypeOK'
  <2>1. PICK n \in 0 .. Len(net[c].units), e \in {"eof", "error"} :
          net' = [net EXCEPT ![c] = [units |-> SubSeq(@.units, 1, n), end |-> e]]
    BY <1>9 DEF Break
  <2>2. net[c].units \in Seq(Unit)
    BY DEF NetState
  <2>3. SubSeq(net[c].units, 1, n) \in Seq(Unit)
    BY <2>2
  <2>4. [units |-> SubSeq(net[c].units, 1, n), end |-> e] \in NetState
    BY <2>3 DEF NetState
  <2>5. QED
    BY <1>9, <2>1, <2>4 DEF Break
<1>10. CASE UNCHANGED <<console, net, backlog>>
  BY <1>10
<1>11. QED
  BY <1>1, <1>2, <1>3, <1>4, <1>5, <1>6, <1>7, <1>8, <1>9, <1>10, NetFrame

\* A session that goes on to the next package.
LEMMA ResumesType ==
  ASSUME SessionsTypeOK, NEW c \in Consoles, Resumes(c) PROVE session' \in [Consoles -> SessionState]
<1>1. "opcode" \in SessionPcs /\ "none" \in {"none", "data", "garbage"} /\ 0 \in Int
  BY DEF SessionPcs
<1>2. QED
  BY <1>1, SessionUpdate DEF Resumes

\* The sessions keep their types.
LEMMA SessionTypeStep == ASSUME SessionsInv, [Next]_vars PROVE session' \in [Consoles -> SessionState]
<1> USE DEF SessionsInv, SessionsTypeOK
<1>1. CASE LaunchCreate
  <2>1. CASE main.tm = "kernel"
    BY <1>1, <2>1 DEF LaunchCreate
  <2>2. CASE main.tm # "kernel"
    <3>1. main.arg \in Consoles
      BY <1>1, <2>2 DEF LaunchCreate, ServerOK, MainTypeOK, MainState, Tables
    <3>2. "opcode" \in SessionPcs
      BY DEF SessionPcs
    <3>3. QED
      BY <1>1, <2>2, <3>1, <3>2, SessionUpdate DEF LaunchCreate
  <2>3. QED
    BY <2>1, <2>2
<1>2. ASSUME NEW c \in Consoles, HandleSyscall(c) PROVE session' \in [Consoles -> SessionState]
  <2>1. GetPidLibre \in Nat
    BY FreePid
  <2>2. (IF GetPidLibre = UNDEFINED THEN "opcode" ELSE "add") \in SessionPcs
    BY DEF SessionPcs
  <2>3. QED
    BY <1>2, <2>1, <2>2, SessionUpdate DEF HandleSyscall
<1>3. ASSUME NEW c \in Consoles, AddLocate(c) PROVE session' \in [Consoles -> SessionState]
  <2>1. (IF pcbs = <<>> THEN -1 ELSE Last(pcbs).pid) \in Int
    <3>1. pcbs # <<>> => Len(pcbs) \in 1 .. Len(pcbs) /\ pcbs[Len(pcbs)] \in Pcb
      BY DEF ListTypeOK
    <3>2. QED
      BY <3>1 DEF Pcb, Last
  <2>2. "link" \in SessionPcs
    BY DEF SessionPcs
  <2>3. QED
    BY <1>3, <2>1, <2>2, SessionUpdate DEF AddLocate
<1>4. ASSUME NEW c \in Consoles, AddLink(c) PROVE session' \in [Consoles -> SessionState]
  BY <1>4, ResumesType DEF AddLink
<1>5. ASSUME NEW c \in Consoles, FindPcb(c) PROVE session' \in [Consoles -> SessionState]
  <2> DEFINE found == {i \in DOMAIN pcbs : pcbs[i].pid = session[c].pid}
             at == IF freed THEN 0 ELSE Min(found)
  <2>1. CASE found = {} /\ ~freed
    BY <1>5, <2>1 DEF FindPcb
  <2>2. CASE ~(found = {} /\ ~freed)
    <3>1. found \in SUBSET Nat
      BY DEF ListTypeOK
    <3>2. at \in Int
      <4> HIDE DEF found
      <4>1. found # {} => Min(found) \in Nat
        BY <3>1, MinIsLeast
      <4>2. QED
        BY <2>2, <4>1
    <3>3. session' = [session EXCEPT ![c].pc = "remove", ![c].data = Body(c), ![c].at = at]
      BY <1>5, <2>2 DEF FindPcb
    <3> HIDE DEF found, at
    <3>4. "remove" \in SessionPcs /\ Body(c) \in {"none", "data", "garbage"}
      BY DEF SessionPcs, Body
    <3>5. QED
      BY <3>2, <3>3, <3>4, SessionUpdate
  <2>3. QED
    BY <2>1, <2>2
<1>6. ASSUME NEW c \in Consoles, RemovePcb(c) PROVE session' \in [Consoles -> SessionState]
  BY <1>6, ResumesType DEF RemovePcb
<1>7. ASSUME NEW c \in Consoles, ListGone(c) PROVE session' \in [Consoles -> SessionState]
  BY <1>7, ResumesType DEF ListGone
<1>8. ASSUME NEW c \in Consoles, Disconnect(c) PROVE session' \in [Consoles -> SessionState]
  <2>1. "end" \in SessionPcs
    BY DEF SessionPcs
  <2>2. QED
    BY <1>8, <2>1, SessionUpdate DEF Disconnect, Goes
<1>9. ASSUME NEW c \in Consoles, EndThread(c) PROVE session' \in [Consoles -> SessionState]
  <2>1. "gone" \in SessionPcs
    BY DEF SessionPcs
  <2>2. QED
    BY <1>9, <2>1, SessionUpdate DEF EndThread, Goes
<1>10. CASE UNCHANGED session
  BY <1>10
<1>11. QED
  BY <1>1, <1>2, <1>3, <1>4, <1>5, <1>6, <1>7, <1>8, <1>9, <1>10, SessionFrame

\* The pool of ids keeps its size.
LEMMA PoolTypeStep == ASSUME SessionsInv, [Next]_vars PROVE PoolTypeOK'
<1> USE DEF SessionsInv, SessionsTypeOK, PoolTypeOK
<1>1. ASSUME NEW c \in Consoles, HandleSyscall(c) PROVE PoolTypeOK'
  <2>1. pool' = [i \in DOMAIN pool |-> pool[i] \/ i = GetPidLibre]
    BY <1>1 DEF HandleSyscall
  <2>2. DOMAIN pool' = DOMAIN pool
    BY <2>1
  <2>3. \A i \in DOMAIN pool : (pool[i] \/ i = GetPidLibre) \in BOOLEAN
    BY Zenon
  <2>4. pool' \in [DOMAIN pool -> BOOLEAN]
    BY <2>1, <2>3, Zenon
  <2>5. QED
    BY <2>2, <2>4
<1>2. CASE UNCHANGED pool
  BY <1>2
<1>3. QED
  BY <1>1, <1>2, PoolFrame

\* The list of PCBs, and what became of them, keep their types.
LEMMA ListTypeStep == ASSUME SessionsInv, [Next]_vars PROVE ListTypeOK'
<1> USE DEF SessionsInv, SessionsTypeOK, ListTypeOK
<1>1. CASE DeletePcbs
  BY <1>1 DEF DeletePcbs
<1>2. ASSUME NEW c \in Consoles, AddLocate(c) PROVE ListTypeOK'
  <2>1. overlap' \in BOOLEAN
    BY <1>2, Zenon DEF AddLocate
  <2>2. QED
    BY <1>2, <2>1 DEF AddLocate
<1>3. ASSUME NEW c \in Consoles, AddLink(c) PROVE ListTypeOK'
  <2> DEFINE pcb == [pid |-> session[c].pid, of |-> c]
  <2>1. pcb \in Pcb
    BY DEF Pcb, SessionState
  <2>2. pcbs' = <<pcb>> \/ pcbs' = Append(pcbs, pcb) \/ pcbs' = pcbs
    BY <1>3 DEF AddLink
  <2> HIDE DEF pcb
  <2>3. <<pcb>> \in Seq(Pcb) /\ Append(pcbs, pcb) \in Seq(Pcb)
    BY <2>1
  <2>4. QED
    BY <1>3, <2>2, <2>3 DEF AddLink
<1>4. ASSUME NEW c \in Consoles, FindPcb(c) PROVE ListTypeOK'
  <2>1. overlap' \in BOOLEAN
    BY <1>4, Zenon DEF FindPcb
  <2>2. QED
    BY <1>4, <2>1 DEF FindPcb
<1>5. ASSUME NEW c \in Consoles, RemovePcb(c) PROVE ListTypeOK'
  <2> DEFINE k == session[c].at
             p == [pcb |-> pcbs[k], by |-> c, program |-> session[c].data]
  <2>1. k \in 1 .. Len(pcbs) /\ session[c].data \in {"data", "garbage"}
    BY <1>5 DEF RemovePcb, At, FoundOK, SessionState
  <2>2. pcbs[k] \in Pcb
    BY <2>1
  <2>3. p \in NewState
    BY <2>1, <2>2 DEF NewState
  <2>4. RemoveAt(pcbs, k) \in Seq(Pcb)
    <3> HIDE DEF k
    <3>1. QED
      BY <2>1, RemoveAtProperties
  <2>5. pcbs' = RemoveAt(pcbs, k) /\ (new' = new \/ new' = new \union {p})
    BY <1>5 DEF RemovePcb
  <2> HIDE DEF k, p
  <2>6. QED
    BY <1>5, <2>3, <2>4, <2>5 DEF RemovePcb
<1>6. ASSUME NEW c \in Consoles, ListGone(c) PROVE ListTypeOK'
  <2>1. dropped' \in SUBSET Consoles
    BY <1>6 DEF ListGone
  <2>2. QED
    BY <1>6, <2>1 DEF ListGone
<1>7. CASE UNCHANGED <<pcbs, freed, overlap, new, dropped>>
  BY <1>7
<1>8. QED
  BY <1>1, <1>2, <1>3, <1>4, <1>5, <1>6, <1>7, ListFrame
-----------------------------------------------------------------------------
(* The server and its table of threads.                                   *)

\* What each step does to the session that takes it, and to no other one.
Others(c) == \A d \in Consoles \ {c} : session'[d] = session[d]
Moves(c, pc, pid, data, at) ==
  /\ session'[c].pc = pc /\ session'[c].pid = pid /\ session'[c].data = data /\ session'[c].at = at

\* What each step of a session leaves in its local variables.
LEMMA SessionValues ==
  ASSUME SessionsTypeOK, NEW c \in Consoles
  PROVE  /\ Resumes(c) => Others(c) /\ Moves(c, "opcode", session[c].pid, "none", 0)
         /\ \A place : Goes(c, place) =>
              Others(c) /\ Moves(c, place, session[c].pid, session[c].data, session[c].at)
         /\ HandleSyscall(c) =>
              /\ Others(c)
              /\ Moves(c, IF GetPidLibre = UNDEFINED THEN "opcode" ELSE "add", GetPidLibre,
                       session[c].data, session[c].at)
         /\ AddLocate(c) =>
              /\ Others(c)
              /\ Moves(c, "link", session[c].pid, session[c].data,
                       IF pcbs = <<>> THEN -1 ELSE Last(pcbs).pid)
<1> USE DEF SessionsTypeOK, Others, Moves
<1>1. session \in [Consoles -> SessionState] /\ session[c] \in SessionState
  OBVIOUS
<1>2. Resumes(c) => Others(c) /\ Moves(c, "opcode", session[c].pid, "none", 0)
  BY <1>1 DEF Resumes, SessionState
<1>3. ASSUME NEW place, Goes(c, place)
      PROVE  Others(c) /\ Moves(c, place, session[c].pid, session[c].data, session[c].at)
  BY <1>1, <1>3 DEF Goes, SessionState
<1>4. HandleSyscall(c) =>
        /\ Others(c)
        /\ Moves(c, IF GetPidLibre = UNDEFINED THEN "opcode" ELSE "add", GetPidLibre,
                 session[c].data, session[c].at)
  BY <1>1 DEF HandleSyscall, SessionState
<1>5. AddLocate(c) =>
        /\ Others(c)
        /\ Moves(c, "link", session[c].pid, session[c].data,
                 IF pcbs = <<>> THEN -1 ELSE Last(pcbs).pid)
  BY <1>1 DEF AddLocate, SessionState
<1>6. QED
  BY <1>2, <1>3, <1>4, <1>5

\* FindPcb drops the instructions, or keeps what it found.
LEMMA FindValues ==
  ASSUME SessionsTypeOK, NEW c \in Consoles, FindPcb(c)
  PROVE  LET found == {i \in DOMAIN pcbs : pcbs[i].pid = session[c].pid}
         IN  \/ found = {} /\ ~freed /\ dropped' = dropped \union {c} /\ UNCHANGED session
             \/ /\ ~(found = {} /\ ~freed) /\ UNCHANGED dropped /\ Others(c)
                /\ Moves(c, "remove", session[c].pid, Body(c), IF freed THEN 0 ELSE Min(found))
<1> USE DEF SessionsTypeOK, Others, Moves
<1> DEFINE found == {i \in DOMAIN pcbs : pcbs[i].pid = session[c].pid}
<1>1. CASE found = {} /\ ~freed
  BY <1>1 DEF FindPcb
<1>2. CASE ~(found = {} /\ ~freed)
  <2>1. UNCHANGED dropped /\ session' = [session EXCEPT ![c].pc = "remove", ![c].data = Body(c),
                                                        ![c].at = IF freed THEN 0 ELSE Min(found)]
    BY <1>2 DEF FindPcb
  <2> HIDE DEF found
  <2>2. QED
    BY <1>2, <2>1 DEF found, SessionState
<1>3. QED
  BY <1>1, <1>2

\* Only a launch starts a session, and no session is ever undone.
LEMMA SessionNone ==
  ASSUME SessionsInv, [Next]_vars
  PROVE  LaunchCreate \/ \A d \in Consoles : session'[d].pc = "none" <=> session[d].pc = "none"
<1> USE DEF SessionsInv, SessionsTypeOK
<1>1. ASSUME NEW c \in Consoles,
             HandleSyscall(c) \/ AddLocate(c) \/ AddLink(c) \/ FindPcb(c) \/ RemovePcb(c) \/
             ListGone(c) \/ Disconnect(c) \/ EndThread(c)
      PROVE  \A d \in Consoles : session'[d].pc = "none" <=> session[d].pc = "none"
  <2>1. session[c].pc # "none"
    BY <1>1 DEF HandleSyscall, AddLocate, AddLink, FindPcb, RemovePcb, ListGone, Disconnect, EndThread, At
  <2>2. CASE HandleSyscall(c) \/ AddLocate(c)
    BY <2>1, <2>2, SessionValues DEF Others, Moves
  <2>3. CASE FindPcb(c)
    BY <2>1, <2>3, FindValues DEF Others, Moves
  <2>4. CASE AddLink(c) \/ RemovePcb(c) \/ ListGone(c)
    <3>1. UNCHANGED session \/ Resumes(c)
      BY <2>4 DEF AddLink, RemovePcb, ListGone
    <3>2. QED
      BY <2>1, <3>1, SessionValues DEF Others, Moves
  <2>5. CASE Disconnect(c) \/ EndThread(c)
    <3>1. Goes(c, "end") \/ Goes(c, "gone")
      BY <2>5 DEF Disconnect, EndThread
    <3>2. QED
      BY <2>1, <3>1, SessionValues DEF Others, Moves
  <2>6. QED
    BY <1>1, <2>2, <2>3, <2>4, <2>5
<1>2. QED
  BY <1>1, SessionFrame

\* The sessions that run are the same, but for a launch and an end.
LEMMA RunningFrame ==
  ASSUME SessionsInv, [Next]_vars
  PROVE  LaunchCreate \/ (\E c \in Consoles : EndThread(c)) \/ Running' = Running
<1> USE DEF SessionsInv, SessionsTypeOK
<1>1. ASSUME NEW c \in Consoles,
             HandleSyscall(c) \/ AddLocate(c) \/ AddLink(c) \/ FindPcb(c) \/ RemovePcb(c) \/
             ListGone(c) \/ Disconnect(c)
      PROVE  Running' = Running
  <2>1. session[c].pc \notin {"none", "gone"}
    BY <1>1 DEF HandleSyscall, AddLocate, AddLink, FindPcb, RemovePcb, ListGone, Disconnect, At
  <2>2. CASE HandleSyscall(c) \/ AddLocate(c)
    BY <2>1, <2>2, SessionValues DEF Others, Moves, Running
  <2>3. CASE FindPcb(c)
    BY <2>1, <2>3, FindValues DEF Others, Moves, Running
  <2>4. CASE AddLink(c) \/ RemovePcb(c) \/ ListGone(c)
    <3>1. UNCHANGED session \/ Resumes(c)
      BY <2>4 DEF AddLink, RemovePcb, ListGone
    <3>2. QED
      BY <2>1, <3>1, SessionValues DEF Others, Moves, Running
  <2>5. CASE Disconnect(c)
    <3>1. Goes(c, "end")
      BY <2>5 DEF Disconnect
    <3>2. QED
      BY <2>1, <3>1, SessionValues DEF Others, Moves, Running
  <2>6. QED
    BY <1>1, <2>2, <2>3, <2>4, <2>5
<1>2. UNCHANGED session => Running' = Running
  BY DEF Running
<1>3. QED
  BY <1>1, <1>2, SessionFrame

\* A console connects once.
LEMMA ConsoleOff ==
  ASSUME SessionsInv, [Next]_vars
  PROVE  \/ \E c \in Consoles : Connect(c)
         \/ \A d \in Consoles : console'[d] = "off" <=> console[d] = "off"
<1> USE DEF SessionsInv, SessionsTypeOK, NetTypeOK
<1>1. ASSUME NEW c \in Consoles, SendAction(c) \/ SendInstructions(c) \/ Close(c) \/ Break(c)
      PROVE  \A d \in Consoles : console'[d] = "off" <=> console[d] = "off"
  BY <1>1 DEF SendAction, SendInstructions, Send, Close, Break
<1>2. ASSUME NEW c \in Consoles, HandleSyscall(c) \/ UndefinedAction(c) \/ FindPcb(c)
      PROVE  console' = console
  BY <1>2 DEF HandleSyscall, UndefinedAction, FindPcb
<1>3. Accept => console' = console
  BY DEF Accept
<1>4. QED
  BY <1>1, <1>2, <1>3, NetFrame

\* The steps that change the list of connections that are not accepted.
LEMMA BacklogFrame ==
  ASSUME [Next]_vars
  PROVE  UNCHANGED backlog \/ Accept \/ \E c \in Consoles : Connect(c)
<1>1. ASSUME NEW c \in Consoles,
             HandleSyscall(c) \/ UndefinedAction(c) \/ FindPcb(c) \/ SendAction(c) \/ SendInstructions(c) \/
             Close(c) \/ Break(c)
      PROVE  UNCHANGED backlog
  BY <1>1 DEF HandleSyscall, UndefinedAction, FindPcb, SendAction, SendInstructions, Send, Close, Break
<1>2. QED
  BY <1>1, NetFrame

\* Only consoles connect.
LEMMA BacklogSet == ASSUME SessionsTypeOK PROVE ToSet(backlog) \subseteq Consoles
BY DEF SessionsTypeOK, NetTypeOK, ToSet

\* What the server knows of its consoles does not depend on how far they are.
LEMMA ServerKept ==
  ASSUME SessionsInv, [Next]_vars, ~LaunchCreate, ~(\E c \in Consoles : Connect(c))
  PROVE  /\ \A d \in Consoles : console'[d] = "off" <=> console[d] = "off"
         /\ \A d \in Consoles : session'[d].pc = "none" <=> session[d].pc = "none"
         /\ backlog' = backlog \/ Accept
BY SessionNone, ConsoleOff, BacklogFrame

\* A console is accepted once, and its session starts under the mutex.
LEMMA ServerStep == ASSUME SessionsInv, [Next]_vars PROVE ServerOK'
<1> USE DEF SessionsInv, SessionsTypeOK
<1>1. CASE OnInit
  <2>1. UNCHANGED session /\ UNCHANGED console
    BY <1>1 DEF OnInit, netVars
  <2>2. main'.tm = main.tm /\ main'.arg = main.arg /\ UNCHANGED <<mutex, table, backlog>>
    BY <1>1 DEF OnInit, netVars, MainTypeOK, MainState
  <2>3. QED
    BY <1>1, <2>1, <2>2 DEF OnInit, ServerOK, MainTypeOK, MainState
<1>2. CASE OnInitFails
  <2>1. UNCHANGED session /\ UNCHANGED console
    BY <1>2 DEF OnInitFails, Crash, netVars
  <2>2. main'.tm = main.tm /\ main'.arg = main.arg /\ UNCHANGED <<mutex, table, backlog>>
    BY <1>2 DEF OnInitFails, Crash, netVars, MainTypeOK, MainState
  <2>3. QED
    BY <1>2, <2>1, <2>2 DEF OnInitFails, Crash, ServerOK, MainTypeOK, MainState
<1>3. CASE LaunchCreate
  <2>1. /\ UNCHANGED <<console, backlog, table>> /\ main'.tm = main.tm /\ main'.arg = main.arg
        /\ main'.pc = "count" /\ main.tm \in Tables /\ main.pc = "launch"
    BY <1>3 DEF LaunchCreate, netVars, MainTypeOK, MainState
  <2>2. CASE main.tm = "kernel"
    <3>1. UNCHANGED session /\ mutex'["server"] = "free"
      BY <1>3, <2>2 DEF LaunchCreate, ServerOK, MainTypeOK, Tables
    <3>2. QED
      BY <2>1, <2>2, <3>1 DEF ServerOK
  <2>3. CASE main.tm = "server"
    <3>1. main.arg \in Consoles /\ main.arg \notin ToSet(backlog) /\ console[main.arg] # "off"
      BY <2>1, <2>3 DEF ServerOK
    <3>2. Goes(main.arg, "opcode") /\ mutex'["server"] = "main"
      BY <1>3, <2>3 DEF LaunchCreate, Goes, MainTypeOK, Tables, Mutexes
    <3>3. \A d \in Consoles \ {main.arg} : session'[d] = session[d]
      BY <3>1, <3>2, SessionValues DEF Others
    <3>4. QED
      BY <2>1, <2>3, <3>1, <3>2, <3>3, BacklogSet DEF ServerOK
  <2>4. QED
    BY <2>1, <2>2, <2>3 DEF Tables
<1>4. CASE LaunchCount
  <2>1. UNCHANGED session /\ UNCHANGED console
    BY <1>4 DEF LaunchCount, netVars
  <2>2. /\ main'.tm = main.tm /\ main'.arg = main.arg /\ UNCHANGED backlog
        /\ main'.pc \in {"accept", "listen", "launch"} /\ (main.tm = "server" => main'.pc = "accept")
        /\ main.tm \in Tables
    BY <1>4 DEF LaunchCount, netVars, MainTypeOK, MainState
  <2>3. mutex'["server"] = "free" /\ (main.tm = "kernel" => table'["server"] = table["server"])
    <3>1. CASE main.tm = "kernel"
      BY <1>4, <3>1 DEF LaunchCount, ServerOK, MainTypeOK, Tables
    <3>2. CASE main.tm = "server"
      BY <1>4, <3>2 DEF LaunchCount, MainTypeOK, Tables, Mutexes
    <3>3. QED
      BY <2>2, <3>1, <3>2 DEF Tables
  <2>4. QED
    BY <1>4, <2>1, <2>2, <2>3 DEF ServerOK, Tables
<1>5. CASE Listen
  <2>1. UNCHANGED session /\ UNCHANGED console
    BY <1>5 DEF Listen, netVars
  <2>2. main'.tm = "server" /\ main'.pc = "accept" /\ UNCHANGED <<mutex, table, backlog>>
    BY <1>5 DEF Listen, netVars, MainTypeOK, MainState
  <2>3. mutex["server"] = "free"
    BY <1>5 DEF Listen, ServerOK
  <2>4. QED
    BY <1>5, <2>1, <2>2, <2>3 DEF ServerOK, MainTypeOK
<1>6. CASE ListenFails
  <2>1. UNCHANGED session /\ UNCHANGED console
    BY <1>6 DEF ListenFails, netVars
  <2>2. main'.tm = main.tm /\ main'.arg = main.arg /\ UNCHANGED <<mutex, table, backlog>>
    BY <1>6 DEF ListenFails, netVars, MainTypeOK, MainState
  <2>3. QED
    BY <1>6, <2>1, <2>2 DEF ListenFails, ServerOK, MainTypeOK, MainState
<1>7. CASE Accept
  <2>1. UNCHANGED session /\ UNCHANGED console
    BY <1>7 DEF Accept, netVars
  <2>2. /\ main'.tm = main.tm /\ main'.arg = Head(backlog) /\ main'.pc = "launch" /\ main.pc = "accept"
        /\ UNCHANGED <<mutex, table>> /\ backlog' = Tail(backlog) /\ backlog # <<>>
    BY <1>7 DEF Accept, MainTypeOK, MainState
  <2>3. main.tm = "server" /\ mutex["server"] # "main"
    BY <2>2 DEF ServerOK, MainTypeOK, MainState, Tables
  <2>4. backlog \in Seq(Consoles) /\ IsInjective(backlog)
    BY DEF ServerOK, NetTypeOK
  <2>5. /\ Head(backlog) \in Consoles /\ IsInjective(Tail(backlog))
        /\ ToSet(Tail(backlog)) = ToSet(backlog) \ {Head(backlog)} /\ Head(backlog) \in ToSet(backlog)
    BY <2>2, <2>4, TailProperty
  <2>6. QED
    BY <2>1, <2>2, <2>3, <2>5 DEF ServerOK
<1>8. CASE DeleteThreads
  <2>1. UNCHANGED session /\ UNCHANGED console
    BY <1>8 DEF DeleteThreads, EndThreads, netVars
  <2>2. /\ main'.tm = main.tm /\ main'.arg = main.arg /\ UNCHANGED <<mutex, backlog>>
        /\ table'["server"] = table["server"] \/ table'["server"] = <<>>
    BY <1>8 DEF DeleteThreads, EndThreads, netVars, MainTypeOK, MainState, Tables
  <2>3. QED
    BY <1>8, <2>1, <2>2 DEF DeleteThreads, EndThreads, ServerOK, MainTypeOK, MainState
<1>9. CASE DeletePcbs \/ DeleteScheduler
  <2>1. UNCHANGED session /\ UNCHANGED console
    BY <1>9 DEF DeletePcbs, DeleteScheduler, netVars
  <2>2. /\ main'.tm = main.tm /\ main'.arg = main.arg /\ UNCHANGED <<mutex, table, backlog>>
        /\ main'.pc \in {"hung", "delete_pcbs", "delete_server"}
    BY <1>9 DEF DeletePcbs, DeleteScheduler, netVars, MainTypeOK, MainState
  <2>3. QED
    BY <1>9, <2>1, <2>2 DEF DeletePcbs, DeleteScheduler, ServerOK, MainTypeOK, MainState
<1>10. CASE DeleteServer
  <2>1. UNCHANGED session /\ UNCHANGED console
    BY <1>10 DEF DeleteServer, EndThreads, netVars
  <2>2. /\ main'.tm = main.tm /\ main'.arg = main.arg /\ UNCHANGED <<mutex, backlog>>
        /\ table'["server"] = table["server"] \/ table'["server"] = <<>>
    BY <1>10 DEF DeleteServer, EndThreads, netVars, MainTypeOK, MainState, Tables
  <2>3. QED
    BY <1>10, <2>1, <2>2 DEF DeleteServer, EndThreads, ServerOK, MainTypeOK, MainState
<1>11. CASE Exit
  <2>1. UNCHANGED session /\ UNCHANGED console
    BY <1>11 DEF Exit, netVars
  <2>2. main'.tm = main.tm /\ main'.arg = main.arg /\ UNCHANGED <<mutex, table, backlog>>
    BY <1>11 DEF Exit, netVars, MainTypeOK, MainState
  <2>3. QED
    BY <1>11, <2>1, <2>2 DEF Exit, ServerOK, MainTypeOK, MainState
<1>12. CASE Sigint
  <2>1. UNCHANGED session /\ UNCHANGED console
    BY <1>12 DEF Sigint, netVars
  <2>2. main'.tm = main.tm /\ main'.arg = main.arg /\ UNCHANGED <<mutex, table, backlog>>
    BY <1>12 DEF Sigint, netVars, MainTypeOK, MainState
  <2>3. QED
    BY <1>12, <2>1, <2>2 DEF Sigint, ServerOK, MainTypeOK, MainState
<1>13. ASSUME NEW c \in Consoles, RecvFails(c) \/ NewGone(c) PROVE ServerOK'
  <2>1. /\ main'.tm = main.tm /\ main'.arg = main.arg /\ UNCHANGED <<mutex, table, console, backlog>>
        /\ main'.pc = main.pc \/ main'.pc = "crashed"
    BY <1>13 DEF RecvFails, NewGone, Crash, At, netVars, MainTypeOK, MainState
  <2>2. session[c].pc # "none"
    BY <1>13 DEF RecvFails, NewGone, Crash, At
  <2>3. \A d \in Consoles : session'[d].pc = "none" <=> session[d].pc = "none"
    BY <1>13, <2>2, SessionValues DEF RecvFails, NewGone, Crash, At, Others, Moves
  <2>4. QED
    BY <2>1, <2>3, BacklogSet DEF ServerOK
<1>14. ASSUME NEW c \in Consoles, ListGone(c) PROVE ServerOK'
  <2>1. /\ main'.tm = main.tm /\ main'.arg = main.arg /\ UNCHANGED <<mutex, table, console, backlog>>
        /\ main'.pc = main.pc \/ main'.pc = "crashed"
    BY <1>14 DEF ListGone, Crash, Resumes, netVars, MainTypeOK, MainState
  <2>2. session[c].pc # "none"
    BY <1>14 DEF ListGone, Crash, Resumes
  <2>3. \A d \in Consoles : session'[d].pc = "none" <=> session[d].pc = "none"
    BY <1>14, <2>2, SessionValues DEF ListGone, Crash, Resumes, Others, Moves
  <2>4. QED
    BY <2>1, <2>3, BacklogSet DEF ServerOK
<1>15. ASSUME NEW c \in Consoles, EndThread(c) PROVE ServerOK'
  <2>1. /\ UNCHANGED <<main, mutex, console, backlog>> /\ session[c].pc # "none"
        /\ main.tm # "kernel"
    BY <1>15 DEF EndThread, At, netVars, ServerOK
  <2>2. \A d \in Consoles : session'[d].pc = "none" <=> session[d].pc = "none"
    BY <1>15, SessionValues DEF EndThread, Others, Moves, At
  <2>3. QED
    BY <2>1, <2>2, BacklogSet DEF ServerOK
<1>16. ASSUME NEW c \in Consoles, Connect(c) PROVE ServerOK'
  <2>1. /\ UNCHANGED <<main, mutex, table, session>> /\ main.tm = "server" /\ console[c] = "off"
        /\ console'[c] # "off" /\ \A d \in Consoles \ {c} : console'[d] = console[d]
        /\ backlog' = Append(backlog, c)
    BY <1>16 DEF Connect, Listening, mainVars, NetTypeOK
  <2>2. session[c].pc = "none" /\ c \notin ToSet(backlog)
    BY <2>1 DEF ServerOK
  <2>3. backlog \in Seq(Consoles) /\ IsInjective(backlog)
    BY DEF ServerOK, NetTypeOK
  <2>4. ToSet(backlog') = ToSet(backlog) \union {c} /\ IsInjective(backlog')
    BY <2>1, <2>2, <2>3, AppendProperty
  <2>5. QED
    BY <2>1, <2>2, <2>4, BacklogSet DEF ServerOK
<1>17. CASE UNCHANGED mainVars
  <2>1. UNCHANGED <<main, mutex, table>> /\ ~LaunchCreate /\ ~Accept
    BY <1>17 DEF mainVars, LaunchCreate, Accept, MainTypeOK, MainState
  <2>2. CASE \E c \in Consoles : Connect(c)
    BY <1>16, <2>2
  <2>3. CASE ~\E c \in Consoles : Connect(c)
    BY <2>1, <2>3, BacklogSet, ServerKept DEF ServerOK
  <2>4. QED
    BY <2>2, <2>3
<1>18. CASE TrackersLock \/ TrackersUnlock
  <2>1. /\ UNCHANGED <<main, table, session, console, backlog>> /\ mutex'["server"] = mutex["server"]
    BY <1>18 DEF TrackersLock, TrackersUnlock, netVars, MainTypeOK, Mutexes
  <2>2. QED
    BY <2>1 DEF ServerOK
<1>19. QED
  BY <1>1, <1>2, <1>3, <1>4, <1>5, <1>6, <1>7, <1>8,
     <1>9, <1>10, <1>11, <1>12, <1>13, <1>14, <1>15, <1>16, <1>17, <1>18, MainFrame

\* The table has the sessions that run, but for the one that is being launched.
LEMMA TableStep == ASSUME SessionsInv, [Next]_vars PROVE TableOK'
<1> USE DEF SessionsInv, SessionsTypeOK
<1>1. CASE OnInit
  <2>1. /\ UNCHANGED session /\ main'.arg = main.arg /\ UNCHANGED <<mutex, max>>
        /\ table'["server"] = table["server"] /\ main.pc \notin {"exit", "exited", "crashed"}
    BY <1>1 DEF OnInit, MainTypeOK, MainState, Tables
  <2>2. QED
    BY <2>1 DEF TableOK, Running
<1>2. CASE OnInitFails
  <2>1. main'.pc = "crashed"
    BY <1>2 DEF OnInitFails, Crash, MainTypeOK, MainState
  <2>2. QED
    BY <2>1 DEF TableOK
<1>3. CASE LaunchCreate
  <2>1. /\ UNCHANGED table /\ main'.tm = main.tm /\ main'.arg = main.arg
        /\ main'.pc = "count" /\ main.tm \in Tables /\ main.pc = "launch"
    BY <1>3 DEF LaunchCreate, netVars, MainTypeOK, MainState
  <2>2. CASE main.tm = "kernel"
    <3>1. UNCHANGED session /\ mutex'["server"] = mutex["server"] /\ max'["server"] = max["server"]
      BY <1>3, <2>2 DEF LaunchCreate, MainTypeOK, Tables
    <3>2. QED
      BY <2>1, <3>1 DEF TableOK, Running
  <2>3. CASE main.tm = "server"
    <3> DEFINE t == table["server"]
    <3>1. main.arg \in Consoles /\ main.arg \notin Running
      BY <2>1, <2>3 DEF ServerOK, Running
    <3>2. Goes(main.arg, "opcode") /\ mutex'["server"] = "main" /\ mutex["server"] = "free"
      BY <1>3, <2>3 DEF LaunchCreate, Goes, MainTypeOK, Tables, Mutexes
    <3>3. Running' = Running \union {main.arg}
      BY <3>1, <3>2, SessionValues DEF Others, Moves, Running
    <3>4. max'["server"] = IF Len(t) < max["server"] THEN max["server"] ELSE 2 * max["server"]
      BY <1>3, <2>3 DEF LaunchCreate, MainTypeOK, Tables
    <3>5. Len(t) \in Nat /\ max["server"] \in Nat \ {0}
      BY DEF MainTypeOK, Tables
    <3>6. IsInjective(t) /\ ToSet(t) = Running /\ Len(t) <= max["server"]
      BY <2>1, <3>2 DEF TableOK
    <3>7. Len(t) < max'["server"]
      BY <3>4, <3>5, <3>6
    <3>8. QED
      BY <2>1, <3>1, <3>2, <3>3, <3>6, <3>7 DEF TableOK
  <2>4. QED
    BY <2>1, <2>2, <2>3 DEF Tables
<1>4. CASE LaunchCount
  <2>1. /\ main'.arg = main.arg /\ UNCHANGED <<session, max>> /\ main.pc = "count" /\ main.tm \in Tables
    BY <1>4 DEF LaunchCount, MainTypeOK, MainState
  <2>2. CASE main.tm = "kernel"
    <3>1. mutex'["server"] = mutex["server"] /\ table'["server"] = table["server"]
      BY <1>4, <2>2 DEF LaunchCount, MainTypeOK, Tables
    <3>2. QED
      BY <2>1, <3>1 DEF TableOK, Running
  <2>3. CASE main.tm = "server"
    <3> DEFINE t == table["server"]
               a == main.arg
    <3>1. mutex["server"] = "main" /\ mutex'["server"] = "free" /\ table'["server"] = Append(t, a)
      BY <1>4, <2>1, <2>3 DEF LaunchCount, ServerOK, MainTypeOK, Tables, Mutexes
    <3>2. /\ IsInjective(t) /\ a \in Running /\ ToSet(t) = Running \ {a} /\ Len(t) < max["server"]
      BY <2>1, <3>1 DEF TableOK
    <3>3. /\ t \in Seq(Consoles \union {"worker"}) /\ a \in Consoles \union {"worker"}
          /\ max["server"] \in Nat
      BY DEF MainTypeOK, MainState, Tables
    <3> HIDE DEF t, a
    <3>4. /\ Len(Append(t, a)) = Len(t) + 1 /\ ToSet(Append(t, a)) = ToSet(t) \union {a}
          /\ IsInjective(Append(t, a)) /\ Len(t) \in Nat
      BY <3>2, <3>3, AppendProperty
    <3>5. Len(Append(t, a)) <= max["server"] /\ ToSet(Append(t, a)) = Running
      BY <3>2, <3>3, <3>4
    <3>6. Running' = Running
      BY <2>1 DEF Running
    <3>7. QED
      BY <2>1, <3>1, <3>4, <3>5, <3>6 DEF TableOK
  <2>4. QED
    BY <2>1, <2>2, <2>3 DEF Tables
<1>5. CASE Listen
  <2>1. /\ UNCHANGED session /\ main'.arg = main.arg /\ UNCHANGED <<mutex, max>>
        /\ table'["server"] = table["server"] /\ main.pc \notin {"exit", "exited", "crashed"}
    BY <1>5 DEF Listen, MainTypeOK, MainState, Tables
  <2>2. QED
    BY <2>1 DEF TableOK, Running
<1>6. CASE ListenFails
  <2>1. /\ UNCHANGED session /\ main'.arg = main.arg /\ UNCHANGED <<mutex, max>>
        /\ table'["server"] = table["server"] /\ main.pc \notin {"exit", "exited", "crashed"}
    BY <1>6 DEF ListenFails, MainTypeOK, MainState, Tables
  <2>2. QED
    BY <2>1 DEF TableOK, Running
<1>7. CASE Accept
  <2>1. /\ UNCHANGED session /\ UNCHANGED <<mutex, max, table>> /\ main.pc = "accept" /\ backlog # <<>>
    BY <1>7 DEF Accept, MainTypeOK, MainState
  <2>2. mutex["server"] # "main"
    BY <2>1 DEF ServerOK
  <2>3. QED
    BY <2>1, <2>2 DEF TableOK, Running
<1>8. CASE DeleteThreads
  <2>1. /\ UNCHANGED session /\ main'.arg = main.arg /\ UNCHANGED <<mutex, max>>
        /\ table'["server"] = table["server"] /\ main.pc \notin {"exit", "exited", "crashed"}
    BY <1>8 DEF DeleteThreads, EndThreads, MainTypeOK, MainState, Tables
  <2>2. QED
    BY <2>1 DEF TableOK, Running
<1>9. CASE DeletePcbs \/ DeleteScheduler
  <2>1. /\ UNCHANGED session /\ main'.arg = main.arg /\ UNCHANGED <<mutex, max>>
        /\ table'["server"] = table["server"] /\ main.pc \notin {"exit", "exited", "crashed"}
    BY <1>9 DEF DeletePcbs, DeleteScheduler, MainTypeOK, MainState, Tables
  <2>2. QED
    BY <2>1 DEF TableOK, Running
<1>10. CASE DeleteServer
  <2>1. main'.pc = "exit"
    BY <1>10 DEF DeleteServer, EndThreads, MainTypeOK, MainState
  <2>2. QED
    BY <2>1 DEF TableOK
<1>11. CASE Exit
  <2>1. main'.pc = "exited"
    BY <1>11 DEF Exit, MainTypeOK, MainState
  <2>2. QED
    BY <2>1 DEF TableOK
<1>12. CASE Sigint
  <2>1. /\ UNCHANGED session /\ main'.arg = main.arg /\ UNCHANGED <<mutex, max>>
        /\ table'["server"] = table["server"] /\ main.pc \notin {"exit", "exited", "crashed"}
    BY <1>12 DEF Sigint, MainTypeOK, MainState, Tables
  <2>2. QED
    BY <2>1 DEF TableOK, Running
<1>13. ASSUME NEW c \in Consoles, RecvFails(c) \/ NewGone(c) PROVE TableOK'
  <2>1. main'.pc = "crashed"
    BY <1>13 DEF RecvFails, NewGone, Crash, At, MainTypeOK, MainState
  <2>2. QED
    BY <2>1 DEF TableOK
<1>14. ASSUME NEW c \in Consoles, ListGone(c) PROVE TableOK'
  <2>1. UNCHANGED <<mutex, table, max>> /\ (main'.pc = "crashed" \/ UNCHANGED main)
    BY <1>14 DEF ListGone, Crash, MainTypeOK, MainState
  <2>2. main'.pc = main.pc => Running' = Running
    <3>1. session[c].pc \in {"add", "remove"} /\ (UNCHANGED session \/ Resumes(c))
      BY <1>14 DEF ListGone
    <3>2. QED
      BY <3>1, SessionValues DEF Others, Moves, Running
  <2>3. QED
    BY <2>1, <2>2 DEF TableOK
<1>15. ASSUME NEW c \in Consoles, EndThread(c) PROVE TableOK'
  <2> DEFINE t == table["server"]
  <2>1. /\ UNCHANGED <<main, mutex, max>> /\ mutex["server"] = "free" /\ Goes(c, "gone")
        /\ table'["server"] = Without(t, c) /\ session[c].pc = "end"
    BY <1>15 DEF EndThread, At, MainTypeOK, Tables
  <2>2. Running' = Running \ {c}
    BY <2>1, SessionValues DEF Others, Moves, Running
  <2>3. CASE main.pc \in {"exit", "exited", "crashed"}
    BY <2>1, <2>3 DEF TableOK
  <2>4. CASE main.pc \notin {"exit", "exited", "crashed"}
    <3>1. IsInjective(t) /\ ToSet(t) = Running /\ Len(t) <= max["server"]
      BY <2>1, <2>4 DEF TableOK
    <3>2. t \in Seq(Consoles \union {"worker"}) /\ max["server"] \in Nat
      BY DEF MainTypeOK, Tables
    <3> HIDE DEF t
    <3>3. /\ IsInjective(Without(t, c)) /\ ToSet(Without(t, c)) = Running \ {c}
          /\ Len(Without(t, c)) <= Len(t) /\ Len(Without(t, c)) \in Nat /\ Len(t) \in Nat
      BY <3>1, <3>2, WithoutProperties
    <3>4. QED
      BY <2>1, <2>2, <2>4, <3>1, <3>2, <3>3 DEF TableOK
  <2>5. QED
    BY <2>3, <2>4
<1>16. CASE UNCHANGED mainVars
  <2>1. UNCHANGED <<main, mutex, table, max>>
    BY <1>16 DEF mainVars
  <2>2. CASE Running' = Running
    BY <2>1, <2>2 DEF TableOK
  <2>3. QED
    BY <1>3, <1>15, <2>2, RunningFrame
<1>17. CASE TrackersLock \/ TrackersUnlock
  <2>1. UNCHANGED <<main, table, session, max>> /\ mutex'["server"] = mutex["server"]
    BY <1>17 DEF TrackersLock, TrackersUnlock, MainTypeOK, Mutexes
  <2>2. QED
    BY <2>1 DEF TableOK, Running
<1>18. QED
  BY <1>1, <1>2, <1>3, <1>4, <1>5, <1>6, <1>7, <1>8,
     <1>9, <1>10, <1>11, <1>12, <1>13, <1>14, <1>15, <1>16, <1>17, MainFrame
-----------------------------------------------------------------------------
(* The connections.                                                         *)

\* recibir_buffer takes three units, or what there is.
LEMMA ConsumedValues ==
  ASSUME NetTypeOK, NEW c \in Consoles, net' = Consumed(c)
  PROVE  /\ \A d \in Consoles \ {c} : net'[d] = net[d]
         /\ net'[c].end = net[c].end
         /\ net[c].units \in Seq(Unit) /\ net'[c].units \in Seq(Unit)
         /\ Len(net[c].units) <= 3 => net'[c].units = <<>>
         /\ Len(net[c].units) > 3 => /\ Len(net'[c].units) = Len(net[c].units) - 3
                                     /\ net'[c].units[1] = net[c].units[4]
                                     /\ net'[c].units # <<>>
<1> DEFINE u == net[c].units
           v == SubSeq(u, 4, Len(u))
<1>1. u \in Seq(Unit) /\ net[c] \in NetState /\ Len(u) \in Nat
  BY DEF NetTypeOK, NetState
<1>2. /\ \A d \in Consoles \ {c} : net'[d] = net[d]
      /\ net'[c].end = net[c].end /\ net'[c].units = v
  BY <1>1 DEF Consumed, NetTypeOK, NetState
<1> HIDE DEF u
<1>3. v \in Seq(Unit)
  BY <1>1
<1>4. Len(u) <= 3 => v = <<>>
  BY <1>1
<1>5. Len(u) > 3 => Len(v) = Len(u) - 3 /\ v[1] = u[4] /\ v # <<>>
  BY <1>1
<1>6. QED
  BY <1>1, <1>2, <1>3, <1>4, <1>5 DEF u

\* Where the units are in two lists that are joined.
LEMMA PackageBehind ==
  ASSUME NEW S, NEW u \in Seq(S), NEW w \in Seq(S), Len(w) = 3
  PROVE  /\ Len(u \o w) = Len(u) + 3 /\ u \o w # <<>>
         /\ u = <<>> => (u \o w)[1] = w[1]
         /\ Len(u) = 3 => (u \o w)[1] = u[1] /\ (u \o w)[4] = w[1]
<1>1. /\ Len(u \o w) = Len(u) + Len(w) /\ Len(u) \in Nat
      /\ \A i \in 1 .. Len(u) + Len(w) : (u \o w)[i] = IF i <= Len(u) THEN u[i] ELSE w[i - Len(u)]
  <2>1. /\ Len(u \o w) = Len(u) + Len(w)
        /\ \A i \in 1 .. Len(u) + Len(w) : (u \o w)[i] = IF i <= Len(u) THEN u[i] ELSE w[i - Len(u)]
    BY ConcatProperties, Zenon
  <2>2. QED
    BY <2>1
<1>2. Len(<<>>) = 0
  OBVIOUS
<1>3. u \o w # <<>>
  BY <1>1, <1>2
<1>4. u = <<>> => (u \o w)[1] = w[1]
  BY <1>1, <1>2
<1>5. Len(u) = 3 => (u \o w)[1] = u[1] /\ (u \o w)[4] = w[1]
  BY <1>1
<1>6. QED
  BY <1>1, <1>3, <1>4, <1>5

\* Sending puts a package behind what is on the way.
LEMMA SendValues ==
  ASSUME NetTypeOK, NEW c \in Consoles, NEW from, NEW to, NEW op \in {"SYS", "CMD"}, Send(c, from, to, op)
  PROVE  /\ \A d \in Consoles \ {c} : net'[d] = net[d] /\ console'[d] = console[d]
         /\ net'[c].end = net[c].end /\ console[c] = from /\ console'[c] = to
         /\ net[c].units \in Seq(Unit) /\ Len(net[c].units) \in Nat
         /\ Len(net'[c].units) = Len(net[c].units) + 3 /\ net'[c].units # <<>>
         /\ net[c].units = <<>> => net'[c].units[1] = op
         /\ Len(net[c].units) = 3 => net'[c].units[1] = net[c].units[1] /\ net'[c].units[4] = op
<1> DEFINE u == net[c].units
           v == u \o Package(op)
<1>1. u \in Seq(Unit) /\ net[c] \in NetState /\ Len(u) \in Nat
  BY DEF NetTypeOK, NetState
<1>2. /\ \A d \in Consoles \ {c} : net'[d] = net[d] /\ console'[d] = console[d]
      /\ net'[c].end = net[c].end /\ net'[c].units = v /\ console[c] = from /\ console'[c] = to
  BY <1>1 DEF Send, NetTypeOK, NetState
<1> HIDE DEF u
<1>3. Package(op) \in Seq(Unit) /\ Len(Package(op)) = 3 /\ Package(op)[1] = op
  BY DEF Package, Unit
<1>4. /\ Len(v) = Len(u) + 3 /\ v # <<>> /\ (u = <<>> => v[1] = op)
      /\ (Len(u) = 3 => v[1] = u[1] /\ v[4] = op)
  BY <1>1, <1>3, PackageBehind
<1>5. QED
  BY <1>1, <1>2, <1>4 DEF u

\* What is on the way from a console keeps its shape.
LEMMA UnitsStep == ASSUME SessionsInv, [Next]_vars PROVE UnitsOK'
<1> USE DEF SessionsInv, SessionsTypeOK
<1>1. CASE Accept
  BY <1>1 DEF Accept, UnitsOK, UnitsOf
<1>2. ASSUME NEW c \in Consoles, HandleSyscall(c) PROVE UnitsOK'
  <2>1. net' = Consumed(c) /\ UNCHANGED console /\ net[c].units # <<>> /\ net[c].units[1] = "SYS"
    BY <1>2 DEF HandleSyscall, Received, Opcode
  <2>2. Len(net[c].units) \in Nat
    BY DEF NetTypeOK, NetState
  <2>3. UnitsOf(c)'
    <3> DEFINE u == net[c].units
               v == net'[c].units
    <3>1. /\ Len(u) <= 3 => v = <<>>
          /\ Len(u) > 3 => Len(v) = Len(u) - 3 /\ v[1] = u[4] /\ v # <<>>
          /\ net'[c].end = net[c].end
      BY <2>1, ConsumedValues
    <3>2. UnitsOf(c) /\ u # <<>> /\ u[1] = "SYS" /\ Len(u) \in Nat
      BY <2>1, <2>2 DEF UnitsOK
    <3>3. /\ Len(u) > 3 => u[4] = "CMD" /\ Len(u) <= 6
          /\ console[c] \in {"cmd", "closed"} => Len(u) \in {3, 6}
          /\ console[c] = "sys" => Len(u) = 3
          /\ console[c] \notin {"off", "connected"}
          /\ net[c].end = "no" <=> console[c] \notin {"closed", "broken"}
      BY <3>2 DEF UnitsOf
    <3>4. v # <<>> => v[1] = "CMD" /\ Len(v) <= 3 /\ Len(u) > 3
      <4> HIDE DEF u, v
      <4>1. CASE Len(u) <= 3
        BY <3>1, <4>1
      <4>2. CASE Len(u) > 3
        <5>1. v[1] = "CMD"
          BY <3>1, <3>3, <4>2
        <5>2. Len(v) <= 3
          BY <3>1, <3>2, <3>3, <4>2
        <5>3. QED
          BY <4>2, <5>1, <5>2
      <4>3. QED
        BY <3>2, <4>1, <4>2
    <3>5. console[c] \in {"cmd", "closed"} => v = <<>> \/ (v[1] = "CMD" /\ Len(v) = 3)
      <4>1. Len(u) = 3 => v = <<>>
        BY <3>1
      <4>2. Len(u) = 6 => v[1] = "CMD" /\ Len(v) = 3
        BY <3>1, <3>4
      <4>3. QED
        BY <3>3, <4>1, <4>2
    <3>6. console[c] = "sys" => v = <<>>
      BY <3>1, <3>3
    <3>7. QED
      BY <2>1, <3>1, <3>3, <3>4, <3>5, <3>6 DEF UnitsOf
  <2>4. ASSUME NEW d \in Consoles, d # c PROVE UnitsOf(d)'
    <3>1. net'[d] = net[d] /\ console'[d] = console[d] /\ UnitsOf(d)
      BY <2>1, <2>4, ConsumedValues DEF UnitsOK
    <3>2. QED
      BY <3>1 DEF UnitsOf
  <2>5. QED
    BY <2>3, <2>4 DEF UnitsOK, UnitsOf
<1>3. ASSUME NEW c \in Consoles, UndefinedAction(c) PROVE UnitsOK'
  <2>1. net' = Consumed(c) /\ UNCHANGED console /\ net[c].units # <<>> /\ net[c].units[1] = "SYS"
    BY <1>3 DEF UndefinedAction, Received, Opcode
  <2>2. Len(net[c].units) \in Nat
    BY DEF NetTypeOK, NetState
  <2>3. UnitsOf(c)'
    <3> DEFINE u == net[c].units
               v == net'[c].units
    <3>1. /\ Len(u) <= 3 => v = <<>>
          /\ Len(u) > 3 => Len(v) = Len(u) - 3 /\ v[1] = u[4] /\ v # <<>>
          /\ net'[c].end = net[c].end
      BY <2>1, ConsumedValues
    <3>2. UnitsOf(c) /\ u # <<>> /\ u[1] = "SYS" /\ Len(u) \in Nat
      BY <2>1, <2>2 DEF UnitsOK
    <3>3. /\ Len(u) > 3 => u[4] = "CMD" /\ Len(u) <= 6
          /\ console[c] \in {"cmd", "closed"} => Len(u) \in {3, 6}
          /\ console[c] = "sys" => Len(u) = 3
          /\ console[c] \notin {"off", "connected"}
          /\ net[c].end = "no" <=> console[c] \notin {"closed", "broken"}
      BY <3>2 DEF UnitsOf
    <3>4. v # <<>> => v[1] = "CMD" /\ Len(v) <= 3 /\ Len(u) > 3
      <4> HIDE DEF u, v
      <4>1. CASE Len(u) <= 3
        BY <3>1, <4>1
      <4>2. CASE Len(u) > 3
        <5>1. v[1] = "CMD"
          BY <3>1, <3>3, <4>2
        <5>2. Len(v) <= 3
          BY <3>1, <3>2, <3>3, <4>2
        <5>3. QED
          BY <4>2, <5>1, <5>2
      <4>3. QED
        BY <3>2, <4>1, <4>2
    <3>5. console[c] \in {"cmd", "closed"} => v = <<>> \/ (v[1] = "CMD" /\ Len(v) = 3)
      <4>1. Len(u) = 3 => v = <<>>
        BY <3>1
      <4>2. Len(u) = 6 => v[1] = "CMD" /\ Len(v) = 3
        BY <3>1, <3>4
      <4>3. QED
        BY <3>3, <4>1, <4>2
    <3>6. console[c] = "sys" => v = <<>>
      BY <3>1, <3>3
    <3>7. QED
      BY <2>1, <3>1, <3>3, <3>4, <3>5, <3>6 DEF UnitsOf
  <2>4. ASSUME NEW d \in Consoles, d # c PROVE UnitsOf(d)'
    <3>1. net'[d] = net[d] /\ console'[d] = console[d] /\ UnitsOf(d)
      BY <2>1, <2>4, ConsumedValues DEF UnitsOK
    <3>2. QED
      BY <3>1 DEF UnitsOf
  <2>5. QED
    BY <2>3, <2>4 DEF UnitsOK, UnitsOf
<1>4. ASSUME NEW c \in Consoles, FindPcb(c) PROVE UnitsOK'
  <2>1. net' = Consumed(c) /\ UNCHANGED console /\ net[c].units # <<>> /\ net[c].units[1] = "CMD"
    BY <1>4 DEF FindPcb, Received, Opcode
  <2>2. Len(net[c].units) \in Nat
    BY DEF NetTypeOK, NetState
  <2>3. UnitsOf(c)'
    <3> DEFINE u == net[c].units
               v == net'[c].units
    <3>1. /\ Len(u) <= 3 => v = <<>>
          /\ Len(u) > 3 => Len(v) = Len(u) - 3 /\ v[1] = u[4] /\ v # <<>>
          /\ net'[c].end = net[c].end
      BY <2>1, ConsumedValues
    <3>2. UnitsOf(c) /\ u # <<>> /\ u[1] = "CMD" /\ Len(u) \in Nat
      BY <2>1, <2>2 DEF UnitsOK
    <3>3. /\ Len(u) > 3 => u[4] = "CMD" /\ Len(u) <= 6
          /\ console[c] \in {"cmd", "closed"} => Len(u) \in {3, 6}
          /\ console[c] = "sys" => Len(u) = 3
          /\ console[c] \notin {"off", "connected"}
          /\ net[c].end = "no" <=> console[c] \notin {"closed", "broken"}
      BY <3>2 DEF UnitsOf
    <3>4. v # <<>> => v[1] = "CMD" /\ Len(v) <= 3 /\ Len(u) > 3
      <4> HIDE DEF u, v
      <4>1. CASE Len(u) <= 3
        BY <3>1, <4>1
      <4>2. CASE Len(u) > 3
        <5>1. v[1] = "CMD"
          BY <3>1, <3>3, <4>2
        <5>2. Len(v) <= 3
          BY <3>1, <3>2, <3>3, <4>2
        <5>3. QED
          BY <4>2, <5>1, <5>2
      <4>3. QED
        BY <3>2, <4>1, <4>2
    <3>5. console[c] \in {"cmd", "closed"} => v = <<>> \/ (v[1] = "CMD" /\ Len(v) = 3)
      <4>1. Len(u) = 3 => v = <<>>
        BY <3>1
      <4>2. Len(u) = 6 => v[1] = "CMD" /\ Len(v) = 3
        BY <3>1, <3>4
      <4>3. QED
        BY <3>3, <4>1, <4>2
    <3>6. console[c] = "sys" => v = <<>>
      BY <3>1, <3>3
    <3>7. QED
      BY <2>1, <3>1, <3>3, <3>4, <3>5, <3>6 DEF UnitsOf
  <2>4. ASSUME NEW d \in Consoles, d # c PROVE UnitsOf(d)'
    <3>1. net'[d] = net[d] /\ console'[d] = console[d] /\ UnitsOf(d)
      BY <2>1, <2>4, ConsumedValues DEF UnitsOK
    <3>2. QED
      BY <3>1 DEF UnitsOf
  <2>5. QED
    BY <2>3, <2>4 DEF UnitsOK, UnitsOf
<1>5. ASSUME NEW c \in Consoles, Connect(c) PROVE UnitsOK'
  <2>1. /\ UNCHANGED net /\ console[c] = "off" /\ console'[c] = "connected"
        /\ \A d \in Consoles \ {c} : console'[d] = console[d]
    BY <1>5 DEF Connect, NetTypeOK
  <2>2. QED
    BY <2>1 DEF UnitsOK, UnitsOf
<1>6. ASSUME NEW c \in Consoles, SendAction(c) PROVE UnitsOK'
  <2>1. Send(c, "connected", "sys", "SYS")
    BY <1>6 DEF SendAction
  <2>2. UnitsOf(c)'
    <3>1. "SYS" \in {"SYS", "CMD"} /\ UnitsOf(c)
      BY DEF UnitsOK
    <3> DEFINE u == net[c].units
               v == net'[c].units
    <3>2. /\ net'[c].end = net[c].end /\ console[c] = "connected" /\ console'[c] = "sys"
          /\ Len(u) \in Nat /\ Len(v) = Len(u) + 3 /\ v # <<>> /\ (u = <<>> => v[1] = "SYS")
          /\ Len(u) = 3 => v[1] = u[1] /\ v[4] = "SYS"
      BY <2>1, <3>1, SendValues
    <3>3. u = <<>>  /\ net[c].end = "no"
      BY <3>1, <3>2 DEF UnitsOf
    <3>4. u = <<>> => Len(u) = 0
      BY EmptySeq
    <3>5. v[1] = "SYS" /\ Len(v) = 3
      <4>1. u = <<>> => v[1] = "SYS" /\ Len(v) = 3
        BY <3>2, <3>4
      <4>2. u[1] = "SYS" /\ Len(u) = 3 => v[1] = "SYS" /\ Len(v) = 6 /\ v[4] = "SYS"
        BY <3>2
      <4>3. QED
        BY <3>3, <4>1, <4>2
    <3>6. QED
      BY <3>2, <3>3, <3>5 DEF UnitsOf
  <2>3. ASSUME NEW d \in Consoles, d # c PROVE UnitsOf(d)'
    <3>1. net'[d] = net[d] /\ console'[d] = console[d] /\ UnitsOf(d)
      BY <2>1, <2>3, SendValues DEF UnitsOK
    <3>2. QED
      BY <3>1 DEF UnitsOf
  <2>4. QED
    BY <2>2, <2>3 DEF UnitsOK
<1>7. ASSUME NEW c \in Consoles, SendInstructions(c) PROVE UnitsOK'
  <2>1. Send(c, "sys", "cmd", "CMD")
    BY <1>7 DEF SendInstructions
  <2>2. UnitsOf(c)'
    <3>1. "CMD" \in {"SYS", "CMD"} /\ UnitsOf(c)
      BY DEF UnitsOK
    <3> DEFINE u == net[c].units
               v == net'[c].units
    <3>2. /\ net'[c].end = net[c].end /\ console[c] = "sys" /\ console'[c] = "cmd"
          /\ Len(u) \in Nat /\ Len(v) = Len(u) + 3 /\ v # <<>> /\ (u = <<>> => v[1] = "CMD")
          /\ Len(u) = 3 => v[1] = u[1] /\ v[4] = "CMD"
      BY <2>1, <3>1, SendValues
    <3>3. (u = <<>> \/ (u[1] = "SYS" /\ Len(u) = 3)) /\ net[c].end = "no"
      BY <3>1, <3>2 DEF UnitsOf
    <3>4. u = <<>> => Len(u) = 0
      BY EmptySeq
    <3>5. (v[1] = "CMD" /\ Len(v) = 3) \/ (v[1] = "SYS" /\ Len(v) = 6 /\ v[4] = "CMD")
      <4>1. u = <<>> => v[1] = "CMD" /\ Len(v) = 3
        BY <3>2, <3>4
      <4>2. u[1] = "SYS" /\ Len(u) = 3 => v[1] = "SYS" /\ Len(v) = 6 /\ v[4] = "CMD"
        BY <3>2
      <4>3. QED
        BY <3>3, <4>1, <4>2
    <3>6. QED
      BY <3>2, <3>3, <3>5 DEF UnitsOf
  <2>3. ASSUME NEW d \in Consoles, d # c PROVE UnitsOf(d)'
    <3>1. net'[d] = net[d] /\ console'[d] = console[d] /\ UnitsOf(d)
      BY <2>1, <2>3, SendValues DEF UnitsOK
    <3>2. QED
      BY <3>1 DEF UnitsOf
  <2>4. QED
    BY <2>2, <2>3 DEF UnitsOK
<1>8. ASSUME NEW c \in Consoles, Close(c) PROVE UnitsOK'
  <2>1. /\ console[c] = "cmd" /\ console'[c] = "closed" /\ net'[c].end = "eof"
        /\ net'[c].units = net[c].units
        /\ \A d \in Consoles \ {c} : console'[d] = console[d] /\ net'[d] = net[d]
    BY <1>8 DEF Close, NetTypeOK, NetState
  <2>2. QED
    BY <2>1 DEF UnitsOK, UnitsOf
<1>9. ASSUME NEW c \in Consoles, Break(c) PROVE UnitsOK'
  <2>1. PICK n \in 0 .. Len(net[c].units), e \in {"eof", "error"} :
          net' = [net EXCEPT ![c] = [units |-> SubSeq(@.units, 1, n), end |-> e]]
    BY <1>9 DEF Break
  <2> DEFINE u == net[c].units
  <2>2. u \in Seq(Unit) /\ Len(u) \in Nat
    BY DEF NetTypeOK, NetState
  <2>3. /\ console'[c] = "broken" /\ net'[c].end = e /\ net'[c].units = SubSeq(u, 1, n)
        /\ \A d \in Consoles \ {c} : console'[d] = console[d] /\ net'[d] = net[d]
    BY <1>9, <2>1 DEF Break, NetTypeOK
  <2>4. ASSUME SubSeq(u, 1, n) # <<>>
        PROVE  /\ u # <<>> /\ SubSeq(u, 1, n)[1] = u[1] /\ Len(SubSeq(u, 1, n)) <= Len(u)
               /\ Len(SubSeq(u, 1, n)) >= 4 => SubSeq(u, 1, n)[4] = u[4] /\ Len(u) >= 4
               /\ Len(SubSeq(u, 1, n)) \in Nat
    <3> HIDE DEF u
    <3>1. n \in 0 .. Len(u)
      BY DEF u
    <3>2. n # 0
      BY <2>2, <2>4
    <3>3. QED
      BY <2>2, <3>1, <3>2
  <2>5. UnitsOf(c)'
    <3>1. UnitsOf(c)
      BY DEF UnitsOK
    <3>2. CASE SubSeq(u, 1, n) = <<>>
      BY <2>3, <3>2 DEF UnitsOf
    <3>3. CASE SubSeq(u, 1, n) # <<>>
      BY <2>2, <2>3, <2>4, <3>1, <3>3 DEF UnitsOf
    <3>4. QED
      BY <3>2, <3>3
  <2>6. ASSUME NEW d \in Consoles, d # c PROVE UnitsOf(d)'
    <3>1. net'[d] = net[d] /\ console'[d] = console[d] /\ UnitsOf(d)
      BY <2>3, <2>6 DEF UnitsOK
    <3>2. QED
      BY <3>1 DEF UnitsOf
  <2>7. QED
    BY <2>5, <2>6 DEF UnitsOK
<1>10. CASE UNCHANGED <<console, net, backlog>>
  BY <1>10 DEF UnitsOK, UnitsOf
<1>11. QED
  BY <1>1, <1>2, <1>3, <1>4, <1>5, <1>6, <1>7, <1>8, <1>9, <1>10, NetFrame
-----------------------------------------------------------------------------
(* Process ids.                                                            *)

\* No step but a system call gives a session an id for a process.
LEMMA PendingFrame ==
  ASSUME SessionsInv, [Next]_vars, NEW d \in Consoles, Pending(d)'
  PROVE  HandleSyscall(d) \/ (Pending(d) /\ session'[d].pid = session[d].pid)
<1> USE DEF SessionsInv, SessionsTypeOK, Pending
<1>1. ASSUME NEW c \in Consoles, c # d \/ ~HandleSyscall(c),
             HandleSyscall(c) \/ AddLocate(c) \/ AddLink(c) \/ FindPcb(c) \/ RemovePcb(c) \/
             ListGone(c) \/ Disconnect(c) \/ EndThread(c)
      PROVE  Pending(d) /\ session'[d].pid = session[d].pid
  <2>1. CASE HandleSyscall(c)
    BY <1>1, <2>1, SessionValues DEF Others
  <2>2. CASE AddLocate(c)
    <3>1. session[c].pc = "add"
      BY <2>2 DEF AddLocate, At
    <3>2. QED
      BY <2>2, <3>1, SessionValues DEF Others, Moves
  <2>3. CASE FindPcb(c)
    BY <2>3, FindValues DEF Others, Moves
  <2>4. CASE AddLink(c) \/ RemovePcb(c) \/ ListGone(c)
    <3>1. UNCHANGED session \/ Resumes(c)
      BY <2>4 DEF AddLink, RemovePcb, ListGone
    <3>2. QED
      BY <3>1, SessionValues DEF Others, Moves
  <2>5. CASE Disconnect(c) \/ EndThread(c)
    <3>1. Goes(c, "end") \/ Goes(c, "gone")
      BY <2>5 DEF Disconnect, EndThread
    <3>2. QED
      BY <3>1, SessionValues DEF Others, Moves
  <2>6. QED
    BY <1>1, <2>1, <2>2, <2>3, <2>4, <2>5
<1>2. ASSUME LaunchCreate PROVE Pending(d) /\ session'[d].pid = session[d].pid
  <2>1. CASE main.tm = "kernel"
    BY <1>2, <2>1 DEF LaunchCreate
  <2>2. CASE main.tm # "kernel"
    <3>1. main.arg \in Consoles
      BY <1>2, <2>2 DEF LaunchCreate, ServerOK, MainTypeOK, MainState, Tables
    <3>2. Goes(main.arg, "opcode")
      BY <1>2, <2>2 DEF LaunchCreate, Goes
    <3>3. QED
      BY <3>1, <3>2, SessionValues DEF Others, Moves
  <2>3. QED
    BY <2>1, <2>2
<1>3. QED
  BY <1>1, <1>2, SessionFrame

\* What get_pid_libre takes was free, and what was taken stays so.
LEMMA PoolTaken ==
  ASSUME SessionsTypeOK, NEW c \in Consoles, HandleSyscall(c)
  PROVE  /\ DOMAIN pool' = DOMAIN pool /\ \A i \in DOMAIN pool : pool[i] => pool'[i]
         /\ GetPidLibre \in DOMAIN pool => pool'[GetPidLibre]
         /\ GetPidLibre # UNDEFINED => GetPidLibre \in DOMAIN pool /\ ~pool[GetPidLibre]
         /\ GetPidLibre = UNDEFINED => UsedUp
<1>1. pool' = [i \in DOMAIN pool |-> pool[i] \/ i = GetPidLibre]
  BY DEF HandleSyscall
<1>2. DOMAIN pool' = DOMAIN pool /\ \A i \in DOMAIN pool : pool'[i] = (pool[i] \/ i = GetPidLibre)
  BY <1>1, Zenon
<1>3. \A i \in DOMAIN pool : pool[i] => pool'[i]
  BY <1>2, Zenon
<1>4. GetPidLibre \in DOMAIN pool => pool'[GetPidLibre]
  BY <1>2, Zenon
<1>5. QED
  BY <1>2, <1>3, <1>4, FreePid

\* Steps that neither take an id nor touch a list of PCBs.
LEMMA IdsKept ==
  ASSUME SessionsInv, [Next]_vars, UNCHANGED <<pool, pcbs, new>>, \A c \in Consoles : ~HandleSyscall(c)
  PROVE  IdsOK'
<1> USE DEF SessionsInv
<1>1. \A d \in Consoles : Pending(d)' => Pending(d) /\ session'[d].pid = session[d].pid
  BY PendingFrame
<1>2. TakenOK' /\ UniqueOK'
  BY DEF IdsOK, TakenOK, UniqueOK
<1>3. PendingOK'
  <2> SUFFICES ASSUME NEW c \in Consoles, Pending(c)'
               PROVE  /\ session'[c].pid \in DOMAIN pool' /\ pool'[session'[c].pid]
                      /\ \A i \in DOMAIN pcbs' : pcbs'[i].pid # session'[c].pid
                      /\ \A p \in new' : p.pcb.pid # session'[c].pid
                      /\ \A d \in Consoles \ {c} : Pending(d)' => session'[d].pid # session'[c].pid
    BY DEF PendingOK
  <2>1. QED
    BY <1>1 DEF IdsOK, PendingOK
<1>4. QED
  BY <1>2, <1>3 DEF IdsOK

\* A system call takes an id that nobody has.
LEMMA SyscallIds ==
  ASSUME SessionsInv, [Next]_vars, NEW c \in Consoles, HandleSyscall(c) PROVE IdsOK'
<1> USE DEF SessionsInv, IdsOK
<1>1. UNCHANGED <<pcbs, new>> /\ session[c].pc = "opcode"
  BY DEF HandleSyscall, At
<1>2. TakenOK'
  BY <1>1, PoolTaken DEF TakenOK, SessionsTypeOK
<1>3. UniqueOK'
  BY <1>1 DEF UniqueOK
<1>4. /\ Others(c) /\ session'[c].pid = GetPidLibre
      /\ session'[c].pc = IF GetPidLibre = UNDEFINED THEN "opcode" ELSE "add"
  BY SessionValues DEF Moves
<1>5. ASSUME NEW d \in Consoles, Pending(d)', d # c
      PROVE  Pending(d) /\ session'[d] = session[d]
  BY <1>4, <1>5 DEF Others, Pending
<1>6. ASSUME Pending(c)' PROVE GetPidLibre \in DOMAIN pool /\ ~pool[GetPidLibre] /\ pool'[GetPidLibre]
  BY <1>4, <1>6, PoolTaken DEF Pending
<1>7. DOMAIN pool' = DOMAIN pool /\ \A i \in DOMAIN pool : pool[i] => pool'[i]
  BY PoolTaken
<1>8. ASSUME NEW d \in Consoles, Pending(d)'
      PROVE  /\ session'[d].pid \in DOMAIN pool' /\ pool'[session'[d].pid]
             /\ \A i \in DOMAIN pcbs' : pcbs'[i].pid # session'[d].pid
             /\ \A p \in new' : p.pcb.pid # session'[d].pid
             /\ \A e \in Consoles \ {d} : Pending(e)' => session'[e].pid # session'[d].pid
  <2>1. CASE d = c
    <3>1. \A e \in Consoles \ {c} : Pending(e)' => session'[e].pid # GetPidLibre
      BY <1>5, <1>6, <1>8, <2>1 DEF PendingOK
    <3>2. QED
      BY <1>1, <1>4, <1>6, <1>7, <1>8, <2>1, <3>1 DEF TakenOK
  <2>2. CASE d # c
    <3>1. Pending(d) /\ session'[d] = session[d]
      BY <1>5, <1>8, <2>2
    <3>2. /\ session[d].pid \in DOMAIN pool /\ pool[session[d].pid]
          /\ \A i \in DOMAIN pcbs : pcbs[i].pid # session[d].pid
          /\ \A p \in new : p.pcb.pid # session[d].pid
          /\ \A e \in Consoles \ {d} : Pending(e) => session[e].pid # session[d].pid
      BY <3>1 DEF PendingOK
    <3>3. \A e \in Consoles \ {d} : Pending(e)' => session'[e].pid # session[d].pid
      BY <1>4, <1>5, <1>6, <3>2
    <3>4. QED
      BY <1>1, <1>7, <3>1, <3>2, <3>3
  <2>3. QED
    BY <2>1, <2>2
<1>9. PendingOK'
  BY <1>8 DEF PendingOK
<1>10. QED
  BY <1>2, <1>3, <1>9

\* Linking a PCB: its id leaves the session and enters the list.
LEMMA LinkIds ==
  ASSUME SessionsInv, [Next]_vars, NEW c \in Consoles, AddLink(c) PROVE IdsOK'
<1> USE DEF SessionsInv, SessionsTypeOK, IdsOK
<1> DEFINE pcb == [pid |-> session[c].pid, of |-> c]
<1>1. UNCHANGED <<pool, new>> /\ Pending(c) /\ Resumes(c)
  BY DEF AddLink, At, Pending
<1>2. pcbs' = <<pcb>> \/ pcbs' = Append(pcbs, pcb) \/ pcbs' = pcbs
  BY DEF AddLink
<1>3. pcb \in Pcb /\ pcbs \in Seq(Pcb) /\ Len(pcbs) \in Nat /\ pcb.pid = session[c].pid
  BY DEF ListTypeOK, Pcb, SessionState
<1> HIDE DEF pcb
<1>4. /\ pcb.pid \in DOMAIN pool /\ pool[pcb.pid]
      /\ \A i \in DOMAIN pcbs : pcbs[i].pid # pcb.pid
      /\ \A p \in new : p.pcb.pid # pcb.pid
      /\ \A d \in Consoles \ {c} : Pending(d) => session[d].pid # pcb.pid
  BY <1>1, <1>3 DEF PendingOK
<1>5. \A i \in DOMAIN pcbs' : pcbs'[i] = pcb \/ (i \in DOMAIN pcbs /\ pcbs'[i] = pcbs[i])
  BY <1>2, <1>3
<1>6. \A i, j \in DOMAIN pcbs' : pcbs'[i] = pcb /\ pcbs'[j] = pcb => i = j
  <2>1. CASE pcbs' = <<pcb>>
    BY <2>1
  <2>2. CASE pcbs' = Append(pcbs, pcb)
    <3>1. \A i \in DOMAIN pcbs' : i # Len(pcbs) + 1 => i \in DOMAIN pcbs /\ pcbs'[i] = pcbs[i]
      BY <1>3, <2>2
    <3>2. QED
      BY <1>4, <3>1
  <2>3. CASE pcbs' = pcbs
    BY <1>4, <2>3
  <2>4. QED
    BY <1>2, <2>1, <2>2, <2>3
<1>7. TakenOK'
  BY <1>1, <1>4, <1>5 DEF TakenOK
<1>8. UniqueOK'
  <2>1. \A i, j \in DOMAIN pcbs' : pcbs'[i].pid = pcbs'[j].pid => i = j
    BY <1>4, <1>5, <1>6 DEF UniqueOK
  <2>2. \A i \in DOMAIN pcbs' : \A p \in new' : p.pcb.pid # pcbs'[i].pid
    BY <1>1, <1>4, <1>5 DEF UniqueOK
  <2>3. QED
    BY <1>1, <2>1, <2>2 DEF UniqueOK
<1>9. \A d \in Consoles : Pending(d)' => d # c /\ Pending(d) /\ session'[d].pid = session[d].pid
  BY <1>1, SessionValues DEF Moves, Others, Pending
<1>10. ASSUME NEW d \in Consoles, Pending(d)'
      PROVE  /\ session'[d].pid \in DOMAIN pool' /\ pool'[session'[d].pid]
             /\ \A i \in DOMAIN pcbs' : pcbs'[i].pid # session'[d].pid
             /\ \A p \in new' : p.pcb.pid # session'[d].pid
             /\ \A e \in Consoles \ {d} : Pending(e)' => session'[e].pid # session'[d].pid
  <2>1. Pending(d) /\ session'[d].pid = session[d].pid /\ d # c
    BY <1>9, <1>10
  <2>2. /\ session[d].pid \in DOMAIN pool /\ pool[session[d].pid]
        /\ \A i \in DOMAIN pcbs : pcbs[i].pid # session[d].pid
        /\ \A p \in new : p.pcb.pid # session[d].pid
        /\ \A e \in Consoles \ {d} : Pending(e) => session[e].pid # session[d].pid
    BY <2>1 DEF PendingOK
  <2>3. QED
    BY <1>1, <1>4, <1>5, <1>9, <2>1, <2>2
<1>11. PendingOK'
  BY <1>10 DEF PendingOK
<1>12. QED
  BY <1>7, <1>8, <1>11

\* The place of an element of a list after one was removed.
LEMMA RemovedPlace ==
  ASSUME NEW S, NEW s \in Seq(S), NEW k \in 1 .. Len(s)
  PROVE  LET r == RemoveAt(s, k)
             old(i) == IF i < k THEN i ELSE i + 1
         IN  /\ \A i \in DOMAIN r : old(i) \in DOMAIN s /\ old(i) # k /\ r[i] = s[old(i)]
             /\ \A i, j \in DOMAIN r : old(i) = old(j) => i = j
             /\ \A j \in DOMAIN s : j # k => \E i \in DOMAIN r : r[i] = s[j]
<1> DEFINE r == RemoveAt(s, k)
           old(i) == IF i < k THEN i ELSE i + 1
<1>1. /\ r \in Seq(S) /\ Len(r) = Len(s) - 1 /\ Len(s) \in Nat
      /\ \A j \in 1 .. Len(s) - 1 : r[j] = IF j < k THEN s[j] ELSE s[j + 1]
  BY RemoveAtProperties
<1> HIDE DEF r
<1>2. DOMAIN r = 1 .. Len(s) - 1 /\ DOMAIN s = 1 .. Len(s)
  BY <1>1
<1>3. \A i \in DOMAIN r : old(i) \in DOMAIN s /\ old(i) # k /\ r[i] = s[old(i)]
  BY <1>1, <1>2
<1>4. \A i, j \in DOMAIN r : old(i) = old(j) => i = j
  BY <1>2
<1>5. ASSUME NEW j \in DOMAIN s, j # k PROVE \E i \in DOMAIN r : r[i] = s[j]
  <2>1. CASE j < k
    <3>1. j \in DOMAIN r /\ r[j] = s[j]
      BY <1>1, <1>2, <2>1
    <3>2. QED
      BY <3>1
  <2>2. CASE j > k
    <3>1. j - 1 \in DOMAIN r /\ r[j - 1] = s[j]
      BY <1>1, <1>2, <2>2
    <3>2. QED
      BY <3>1
  <2>3. QED
    BY <1>2, <1>5, <2>1, <2>2
<1>6. QED
  BY <1>3, <1>4, <1>5 DEF r

\* What a session removes is an element of the list, and nothing else goes to NEW.
LEMMA RemoveValues ==
  ASSUME SessionsInv, NEW c \in Consoles, RemovePcb(c)
  PROVE  LET k == session[c].at
         IN  /\ k \in DOMAIN pcbs /\ pcbs \in Seq(Pcb) /\ k \in 1 .. Len(pcbs)
             /\ pcbs' = RemoveAt(pcbs, k)
             /\ new' \subseteq new \union {[pcb |-> pcbs[k], by |-> c, program |-> session[c].data]}
<1>1. session[c].at \in Int /\ pcbs \in Seq(Pcb)
  BY DEF SessionsInv, SessionsTypeOK, SessionState, ListTypeOK
<1>2. session[c].at \in 1 .. Len(pcbs)
  BY <1>1 DEF RemovePcb, At, SessionsInv, FoundOK
<1>3. QED
  BY <1>1, <1>2 DEF RemovePcb

\* Removing a PCB: its id leaves the list and may enter NEW.
LEMMA RemoveIds ==
  ASSUME SessionsInv, [Next]_vars, NEW c \in Consoles, RemovePcb(c) PROVE IdsOK'
<1> USE DEF SessionsInv, SessionsTypeOK, IdsOK
<1> DEFINE k == session[c].at
           q == [pcb |-> pcbs[k], by |-> c, program |-> session[c].data]
           old(i) == IF i < k THEN i ELSE i + 1
<1>1. UNCHANGED pool /\ Resumes(c)
  BY DEF RemovePcb
<1>2. /\ k \in DOMAIN pcbs /\ pcbs \in Seq(Pcb) /\ k \in 1 .. Len(pcbs)
      /\ pcbs' = RemoveAt(pcbs, k) /\ new' \subseteq new \union {q}
  BY RemoveValues
<1>3. q.pcb.pid = pcbs[k].pid
  OBVIOUS
<1> HIDE DEF k, q
<1>4. /\ \A i \in DOMAIN pcbs' : old(i) \in DOMAIN pcbs /\ old(i) # k /\ pcbs'[i] = pcbs[old(i)]
      /\ \A i, j \in DOMAIN pcbs' : old(i) = old(j) => i = j
  BY <1>2, RemovedPlace
<1> HIDE DEF old
<1>5. TakenOK'
  BY <1>1, <1>2, <1>3, <1>4 DEF TakenOK
<1>6. UniqueOK'
  <2>1. \A i, j \in DOMAIN pcbs' : pcbs'[i].pid = pcbs'[j].pid => i = j
    BY <1>4 DEF UniqueOK
  <2>2. \A i \in DOMAIN pcbs' : \A p \in new' : p.pcb.pid # pcbs'[i].pid
    BY <1>2, <1>3, <1>4 DEF UniqueOK
  <2>3. \A p, r \in new' : p.pcb.pid = r.pcb.pid => p = r
    BY <1>2, <1>3 DEF UniqueOK
  <2>4. QED
    BY <2>1, <2>2, <2>3 DEF UniqueOK
<1>7. \A d \in Consoles : Pending(d)' => Pending(d) /\ session'[d].pid = session[d].pid
  BY <1>1, SessionValues DEF Moves, Others, Pending
<1>8. ASSUME NEW d \in Consoles, Pending(d)'
      PROVE  /\ session'[d].pid \in DOMAIN pool' /\ pool'[session'[d].pid]
             /\ \A i \in DOMAIN pcbs' : pcbs'[i].pid # session'[d].pid
             /\ \A p \in new' : p.pcb.pid # session'[d].pid
             /\ \A e \in Consoles \ {d} : Pending(e)' => session'[e].pid # session'[d].pid
  <2>1. Pending(d) /\ session'[d].pid = session[d].pid
    BY <1>7, <1>8
  <2>2. /\ session[d].pid \in DOMAIN pool /\ pool[session[d].pid]
        /\ \A i \in DOMAIN pcbs : pcbs[i].pid # session[d].pid
        /\ \A p \in new : p.pcb.pid # session[d].pid
        /\ \A e \in Consoles \ {d} : Pending(e) => session[e].pid # session[d].pid
    BY <2>1 DEF PendingOK
  <2>3. QED
    BY <1>1, <1>2, <1>3, <1>4, <1>7, <2>1, <2>2
<1>9. PendingOK'
  BY <1>8 DEF PendingOK
<1>10. QED
  BY <1>5, <1>6, <1>9

\* No id is in two places, and those in use are taken.
LEMMA IdsStep == ASSUME SessionsInv, [Next]_vars PROVE IdsOK'
<1>1. ASSUME NEW c \in Consoles, HandleSyscall(c) PROVE IdsOK'
  BY <1>1, SyscallIds
<1>2. ASSUME NEW c \in Consoles, AddLink(c) PROVE IdsOK'
  BY <1>2, LinkIds
<1>3. ASSUME NEW c \in Consoles, RemovePcb(c) PROVE IdsOK'
  BY <1>3, RemoveIds
<1>4. CASE DeletePcbs
  <2>1. UNCHANGED <<pool, new, session>> /\ pcbs' = <<>>
    BY <1>4 DEF DeletePcbs
  <2>2. DOMAIN pcbs' = {}
    BY <2>1
  <2>3. QED
    BY <2>1, <2>2 DEF SessionsInv, IdsOK, TakenOK, UniqueOK, PendingOK, Pending
<1>5. CASE /\ ~DeletePcbs
           /\ \A c \in Consoles : ~HandleSyscall(c) /\ ~AddLink(c) /\ ~RemovePcb(c)
  <2>1. ASSUME NEW c \in Consoles, AddLocate(c) \/ FindPcb(c) \/ ListGone(c) PROVE UNCHANGED <<pcbs, new>>
    BY <2>1 DEF AddLocate, FindPcb, ListGone
  <2>2. UNCHANGED <<pool, pcbs, new>>
    BY <1>5, <2>1, PoolFrame, ListFrame
  <2>3. QED
    BY <1>5, <2>2, IdsKept
<1>6. QED
  BY <1>1, <1>2, <1>3, <1>4, <1>5
-----------------------------------------------------------------------------
(* The list of PCBs.                                                       *)

\* A session changes by its own steps, and when it is launched.
LEMMA OwnStep ==
  ASSUME SessionsInv, [Next]_vars, NEW d \in Consoles
  PROVE  \/ session'[d] = session[d]
         \/ /\ LaunchCreate /\ session[d].pc = "none"
            /\ session'[d].pc = "opcode" /\ session'[d].pid = session[d].pid
         \/ HandleSyscall(d) \/ AddLocate(d) \/ AddLink(d) \/ FindPcb(d) \/ RemovePcb(d) \/ ListGone(d)
         \/ Disconnect(d) \/ EndThread(d)
<1> USE DEF SessionsInv, SessionsTypeOK
<1>1. ASSUME NEW c \in Consoles, c # d,
             HandleSyscall(c) \/ AddLocate(c) \/ AddLink(c) \/ FindPcb(c) \/ RemovePcb(c) \/
             ListGone(c) \/ Disconnect(c) \/ EndThread(c)
      PROVE  session'[d] = session[d]
  <2>1. CASE HandleSyscall(c) \/ AddLocate(c)
    BY <1>1, <2>1, SessionValues DEF Others
  <2>2. CASE FindPcb(c)
    BY <1>1, <2>2, FindValues DEF Others
  <2>3. CASE AddLink(c) \/ RemovePcb(c) \/ ListGone(c) \/ Disconnect(c) \/ EndThread(c)
    <3>1. UNCHANGED session \/ Resumes(c) \/ Goes(c, "end") \/ Goes(c, "gone")
      BY <2>3 DEF AddLink, RemovePcb, ListGone, Disconnect, EndThread
    <3>2. QED
      BY <1>1, <3>1, SessionValues DEF Others
  <2>4. QED
    BY <1>1, <2>1, <2>2, <2>3
<1>2. ASSUME LaunchCreate, session'[d] # session[d]
      PROVE  session[d].pc = "none" /\ session'[d].pc = "opcode" /\ session'[d].pid = session[d].pid
  <2>1. main.tm # "kernel"
    BY <1>2 DEF LaunchCreate
  <2>2. main.arg \in Consoles /\ session[main.arg].pc = "none"
    BY <1>2, <2>1 DEF LaunchCreate, ServerOK, MainTypeOK, MainState, Tables
  <2>3. Goes(main.arg, "opcode")
    BY <1>2, <2>1 DEF LaunchCreate, Goes
  <2>4. d = main.arg
    BY <1>2, <2>2, <2>3, SessionValues DEF Others
  <2>5. QED
    BY <2>2, <2>3, <2>4, SessionValues DEF Moves
<1>3. QED
  BY <1>1, <1>2, SessionFrame

\* A connection changes by the steps of its console and of its session.
LEMMA OwnNet ==
  ASSUME SessionsInv, [Next]_vars, NEW d \in Consoles
  PROVE  \/ net'[d] = net[d] /\ console'[d] = console[d]
         \/ HandleSyscall(d) \/ UndefinedAction(d) \/ FindPcb(d)
         \/ Connect(d) \/ SendAction(d) \/ SendInstructions(d) \/ Close(d) \/ Break(d)
<1> USE DEF SessionsInv, SessionsTypeOK
<1>1. ASSUME NEW c \in Consoles, c # d, HandleSyscall(c) \/ UndefinedAction(c) \/ FindPcb(c)
      PROVE  net'[d] = net[d] /\ console'[d] = console[d]
  <2>1. net' = Consumed(c) /\ UNCHANGED console
    BY <1>1 DEF HandleSyscall, UndefinedAction, FindPcb
  <2>2. QED
    BY <1>1, <2>1, ConsumedValues
<1>2. ASSUME NEW c \in Consoles, c # d,
             Connect(c) \/ SendAction(c) \/ SendInstructions(c) \/ Close(c) \/ Break(c)
      PROVE  net'[d] = net[d] /\ console'[d] = console[d]
  BY <1>2 DEF Connect, SendAction, SendInstructions, Send, Close, Break, NetTypeOK
<1>3. Accept => UNCHANGED <<net, console>>
  BY DEF Accept
<1>4. QED
  BY <1>1, <1>2, <1>3, NetFrame

\* Each session handles its packages in their order.
LEMMA StageStep == ASSUME SessionsInv, [Next]_vars PROVE StageOK'
<1> USE DEF SessionsInv, SessionsTypeOK
<1> DEFINE Fresh(d) == /\ session[d].pc = "none" =>
                            /\ net[d].units # <<>> => net[d].units[1] = "SYS"
                            /\ console[d] = "sys" => net[d].units # <<>>
           Last3(d) == session[d].pc = "remove" =>
                         net[d].units = <<>> /\ console[d] \in {"cmd", "closed", "broken"}
<1> SUFFICES ASSUME NEW d \in Consoles PROVE Fresh(d)' /\ Last3(d)'
  BY DEF StageOK
<1>1. Fresh(d) /\ Last3(d) /\ UnitsOf(d)
  BY DEF StageOK, UnitsOK
<1>2. CASE HandleSyscall(d) \/ UndefinedAction(d) \/ FindPcb(d)
  <2>1. net' = Consumed(d) /\ UNCHANGED console /\ net[d].units # <<>> /\ session[d].pc = "opcode"
    BY <1>2 DEF HandleSyscall, UndefinedAction, FindPcb, Received, At
  <2>2. session'[d].pc # "none"
    BY <1>2, <2>1, SessionValues, FindValues DEF Moves, UndefinedAction
  <2>3. CASE session'[d].pc = "remove"
    <3>1. FindPcb(d)
      BY <1>2, <2>1, <2>3, SessionValues DEF Moves, UndefinedAction
    <3>2. net[d].units[1] = "CMD"
      BY <3>1 DEF FindPcb, Opcode
    <3>3. Len(net[d].units) <= 3 /\ console[d] \notin {"off", "connected", "sys"}
      BY <1>1, <2>1, <3>2 DEF UnitsOf
    <3>4. net'[d].units = <<>>
      BY <2>1, <3>3, ConsumedValues
    <3>5. QED
      BY <2>1, <2>2, <3>3, <3>4 DEF NetTypeOK
  <2>4. QED
    BY <2>2, <2>3
<1>3. CASE ~(HandleSyscall(d) \/ UndefinedAction(d) \/ FindPcb(d))
  <2>1. /\ session'[d].pc = "none" => session[d].pc = "none"
        /\ session'[d].pc = "remove" => session[d].pc = "remove"
    <3>1. CASE session'[d] = session[d]
      BY <3>1
    <3>2. CASE AddLocate(d)
      BY <3>2, SessionValues DEF Moves
    <3>3. CASE AddLink(d) \/ RemovePcb(d) \/ ListGone(d) \/ Disconnect(d) \/ EndThread(d)
      <4>1. UNCHANGED session \/ Resumes(d) \/ Goes(d, "end") \/ Goes(d, "gone")
        BY <3>3 DEF AddLink, RemovePcb, ListGone, Disconnect, EndThread
      <4>2. QED
        BY <4>1, SessionValues DEF Moves
    <3>4. QED
      BY <1>3, <3>1, <3>2, <3>3, OwnStep
  <2>2. CASE net'[d] = net[d] /\ console'[d] = console[d]
    BY <1>1, <2>1, <2>2
  <2>3. CASE Connect(d)
    <3>1. net'[d] = net[d] /\ console'[d] = "connected" /\ console[d] = "off" /\ session' = session
      BY <2>3 DEF Connect, NetTypeOK
    <3>2. QED
      BY <1>1, <3>1
  <2>4. CASE SendAction(d)
    <3>1. Send(d, "connected", "sys", "SYS") /\ "SYS" \in {"SYS", "CMD"}
      BY <2>4 DEF SendAction
    <3>2. /\ console[d] = "connected" /\ net'[d].units # <<>>
          /\ net[d].units = <<>> => net'[d].units[1] = "SYS"
      BY <3>1, SendValues
    <3>3. QED
      BY <1>1, <2>1, <3>2 DEF UnitsOf
  <2>5. CASE SendInstructions(d)
    <3>1. Send(d, "sys", "cmd", "CMD") /\ "CMD" \in {"SYS", "CMD"}
      BY <2>5 DEF SendInstructions
    <3>2. /\ console[d] = "sys" /\ console'[d] = "cmd" /\ net'[d].units # <<>>
          /\ Len(net[d].units) = 3 => net'[d].units[1] = net[d].units[1]
      BY <3>1, SendValues
    <3>3. QED
      BY <1>1, <2>1, <3>2 DEF UnitsOf
  <2>6. CASE Close(d)
    <3>1. net'[d].units = net[d].units /\ console'[d] = "closed"
      BY <2>6 DEF Close, NetTypeOK, NetState
    <3>2. QED
      BY <1>1, <2>1, <3>1
  <2>7. CASE Break(d)
    <3>1. PICK n \in 0 .. Len(net[d].units) : net'[d].units = SubSeq(net[d].units, 1, n)
      BY <2>7 DEF Break, NetTypeOK
    <3>2. net[d].units \in Seq(Unit) /\ console'[d] = "broken"
      BY <2>7 DEF Break, NetTypeOK, NetState
    <3>3. net'[d].units = <<>> \/ (net'[d].units[1] = net[d].units[1] /\ net[d].units # <<>>)
      BY <3>1, <3>2
    <3>4. QED
      BY <1>1, <2>1, <3>2, <3>3
  <2>8. QED
    BY <1>3, <2>2, <2>3, <2>4, <2>5, <2>6, <2>7, OwnNet
<1>4. QED
  BY <1>2, <1>3

\* Who is in the list of PCBs, and since when.
LEMMA ListEntry ==
  ASSUME SessionsInv, [Next]_vars, NEW d \in Consoles, InList(d)'
  PROVE  \/ session'[d] = session[d]
         \/ AddLocate(d) /\ session'[d].pc = "link"
         \/ FindPcb(d) /\ session'[d].pc = "remove"
<1> USE DEF SessionsInv, SessionsTypeOK, InList
<1>1. CASE AddLocate(d)
  BY <1>1, SessionValues DEF Moves
<1>2. CASE FindPcb(d)
  BY <1>2, FindValues DEF Moves
<1>3. CASE HandleSyscall(d)
  BY <1>3, SessionValues DEF Moves
<1>4. CASE AddLink(d) \/ RemovePcb(d) \/ ListGone(d) \/ Disconnect(d) \/ EndThread(d)
  <2>1. UNCHANGED session \/ Resumes(d) \/ Goes(d, "end") \/ Goes(d, "gone")
    BY <1>4 DEF AddLink, RemovePcb, ListGone, Disconnect, EndThread
  <2>2. QED
    BY <2>1, SessionValues DEF Moves
<1>5. QED
  BY <1>1, <1>2, <1>3, <1>4, OwnStep

\* The list is destroyed once.
LEMMA FreedFrame ==
  ASSUME [Next]_vars PROVE freed' = freed \/ DeletePcbs
<1>1. ASSUME NEW c \in Consoles, AddLocate(c) \/ AddLink(c) \/ FindPcb(c) \/ RemovePcb(c) \/ ListGone(c)
      PROVE  freed' = freed
  BY <1>1 DEF AddLocate, AddLink, FindPcb, RemovePcb, ListGone
<1>2. QED
  BY <1>1, ListFrame

\* The index that list_remove_by_condition found is one of the list.
LEMMA FoundIndex ==
  ASSUME SessionsTypeOK, NEW c \in Consoles, ~freed,
         {i \in DOMAIN pcbs : pcbs[i].pid = session[c].pid} # {}
  PROVE  LET k == Min({i \in DOMAIN pcbs : pcbs[i].pid = session[c].pid})
         IN  k \in DOMAIN pcbs /\ pcbs[k].pid = session[c].pid /\ k \in Nat /\ k >= 1
<1> DEFINE found == {i \in DOMAIN pcbs : pcbs[i].pid = session[c].pid}
<1>1. found \in SUBSET Nat /\ found # {} /\ DOMAIN pcbs = 1 .. Len(pcbs)
  BY DEF SessionsTypeOK, ListTypeOK
<1>2. Min(found) \in found
  <2> HIDE DEF found
  <2>1. QED
    BY <1>1, MinIsLeast
<1>3. QED
  BY <1>1, <1>2

\* What a session has found is an index, and no session links into a list that is gone.
LEMMA FoundStep == ASSUME SessionsInv, [Next]_vars PROVE FoundOK'
<1> USE DEF SessionsInv
<1> SUFFICES ASSUME NEW d \in Consoles, InList(d)'
             PROVE  /\ session'[d].pc = "link" => ~freed'
                    /\ session'[d].pc = "remove" => /\ session'[d].data \in {"data", "garbage"}
                                                    /\ ~freed' => session'[d].at >= 1
  BY DEF FoundOK, InList
<1>1. CASE session'[d] = session[d]
  <2>1. CASE freed' = freed
    BY <1>1, <2>1 DEF FoundOK
  <2>2. CASE DeletePcbs
    BY <1>1, <2>2 DEF DeletePcbs, FoundOK
  <2>3. QED
    BY <2>1, <2>2, FreedFrame
<1>2. CASE AddLocate(d) /\ session'[d].pc = "link"
  BY <1>2 DEF AddLocate
<1>3. CASE FindPcb(d) /\ session'[d].pc = "remove"
  <2> DEFINE found == {i \in DOMAIN pcbs : pcbs[i].pid = session[d].pid}
  <2>1. freed' = freed /\ session[d].pc = "opcode"
    BY <1>3 DEF FindPcb, At
  <2>2. /\ ~(found = {} /\ ~freed) /\ session'[d].data = Body(d)
        /\ session'[d].at = IF freed THEN 0 ELSE Min(found)
    BY <1>3, <2>1, FindValues DEF Moves
  <2>3. ~freed => Min(found) >= 1
    BY <2>2, FoundIndex
  <2>4. QED
    BY <1>3, <2>1, <2>2, <2>3 DEF Body
<1>4. QED
  BY <1>1, <1>2, <1>3, ListEntry

\* A connection that broke stays so.
LEMMA BrokenKept ==
  ASSUME SessionsInv, [Next]_vars, NEW d \in Consoles, Broken(d) PROVE Broken(d)'
<1>1. ~(Connect(d) \/ SendAction(d) \/ SendInstructions(d) \/ Close(d) \/ Break(d))
  BY DEF Broken, Connect, SendAction, SendInstructions, Send, Close, Break
<1>2. HandleSyscall(d) \/ UndefinedAction(d) \/ FindPcb(d) => UNCHANGED console
  BY DEF HandleSyscall, UndefinedAction, FindPcb
<1>3. QED
  BY <1>1, <1>2, OwnNet DEF Broken

\* Once the ids are used up they stay so.
LEMMA UsedUpKept == ASSUME SessionsInv, [Next]_vars, UsedUp PROVE UsedUp'
<1>1. ASSUME NEW c \in Consoles, HandleSyscall(c) PROVE UsedUp'
  <2>1. DOMAIN pool' = DOMAIN pool /\ \A i \in DOMAIN pool : pool[i] => pool'[i]
    BY <1>1, PoolTaken DEF SessionsInv
  <2>2. QED
    BY <2>1, Zenon DEF UsedUp
<1>2. UNCHANGED pool => UsedUp'
  BY DEF UsedUp
<1>3. QED
  BY <1>1, <1>2, PoolFrame

\* A session whose id is UNDEFINED keeps it when the ids are used up.
LEMMA UndefinedKept ==
  ASSUME SessionsInv, [Next]_vars, NEW d \in Consoles, session[d].pid = UNDEFINED, UsedUp
  PROVE  session'[d].pid = UNDEFINED /\ UsedUp'
<1> USE DEF SessionsInv
<1>1. CASE HandleSyscall(d) \/ AddLocate(d)
  BY <1>1, SessionValues, FreePid, UsedUpKept DEF Moves
<1>2. CASE FindPcb(d)
  BY <1>2, FindValues, UsedUpKept DEF Moves
<1>3. CASE AddLink(d) \/ RemovePcb(d) \/ ListGone(d) \/ Disconnect(d) \/ EndThread(d)
  <2>1. UNCHANGED session \/ Resumes(d) \/ Goes(d, "end") \/ Goes(d, "gone")
    BY <1>3 DEF AddLink, RemovePcb, ListGone, Disconnect, EndThread
  <2>2. QED
    BY <2>1, SessionValues, UsedUpKept DEF Moves
<1>4. QED
  BY <1>1, <1>2, <1>3, OwnStep, UsedUpKept

\* The history of overlaps, and who may change the list while there was none.
LEMMA OverlapKept ==
  ASSUME SessionsInv, [Next]_vars, ~overlap'
  PROVE  /\ ~overlap
         /\ \A c \in Consoles : AddLocate(c) \/ FindPcb(c) => \A d \in Consoles : ~InList(d)
<1>1. ASSUME NEW c \in Consoles, AddLocate(c) \/ FindPcb(c)
      PROVE  ~overlap /\ \A d \in Consoles : ~InList(d)
  <2>1. overlap' = (overlap \/ \E d \in Consoles : InList(d))
    BY <1>1 DEF AddLocate, FindPcb
  <2>2. QED
    BY <2>1, Zenon
<1>2. ASSUME NEW c \in Consoles, AddLink(c) \/ RemovePcb(c) \/ ListGone(c) PROVE ~overlap
  BY <1>2 DEF AddLink, RemovePcb, ListGone
<1>3. DeletePcbs => ~overlap
  BY DEF DeletePcbs
<1>4. QED
  BY <1>1, <1>2, <1>3, ListFrame

\* What ListOK says while nothing has gone wrong with the list.
Exact == AloneOK /\ PlacesOK /\ CreatedOK /\ NewOK /\ DroppedOK

\* While there was no overlap, only the session that is in the list changes it.
LEMMA PcbsFrame ==
  ASSUME SessionsInv, [Next]_vars, Exact, ~freed'
  PROVE  pcbs' = pcbs \/ \E c \in Consoles : InList(c) /\ (AddLink(c) \/ RemovePcb(c))
<1>1. ASSUME NEW c \in Consoles, AddLocate(c) \/ FindPcb(c) \/ ListGone(c) PROVE pcbs' = pcbs
  BY <1>1 DEF AddLocate, FindPcb, ListGone
<1>2. ASSUME NEW c \in Consoles, AddLink(c) \/ RemovePcb(c) PROVE InList(c)
  BY <1>2 DEF AddLink, RemovePcb, At, InList
<1>3. ~DeletePcbs
  BY DEF DeletePcbs
<1>4. QED
  BY <1>1, <1>2, <1>3, ListFrame

\* At most one session is in the list.
LEMMA AloneStep ==
  ASSUME SessionsInv, [Next]_vars, Exact, ~overlap' PROVE AloneOK'
<1> USE DEF SessionsInv
<1> SUFFICES ASSUME NEW c \in Consoles, NEW d \in Consoles, InList(c)', InList(d)', c # d PROVE FALSE
  BY DEF AloneOK
<1>1. ASSUME NEW e \in Consoles, InList(e)', NEW f \in Consoles, f # e, InList(f)',
             AddLocate(e) \/ FindPcb(e)
      PROVE  FALSE
  <2>1. \A g \in Consoles : ~InList(g)
    BY <1>1, OverlapKept
  <2>2. session'[f] = session[f] \/ UNCHANGED session
    BY <1>1, SessionValues, FindValues DEF Others
  <2>3. InList(f)
    BY <1>1, <2>2 DEF InList
  <2>4. QED
    BY <2>1, <2>3
<1>2. CASE session'[c] = session[c] /\ session'[d] = session[d]
  BY <1>2 DEF InList, Exact, AloneOK
<1>3. QED
  BY <1>1, <1>2, ListEntry

\* A package of instructions that is not whole comes from a connection that broke.
LEMMA BodyOK ==
  ASSUME SessionsInv, NEW c \in Consoles, FindPcb(c) PROVE Body(c) = "data" \/ Broken(c)
<1>1. net[c].units # <<>> /\ net[c].units[1] = "CMD" /\ UnitsOf(c)
  BY DEF FindPcb, Received, Opcode, SessionsInv, UnitsOK
<1>2. CASE Whole(c)
  BY <1>2 DEF Body
<1>3. CASE ~Whole(c)
  <2>1. console[c] \notin {"off", "connected", "sys", "cmd", "closed"}
    BY <1>1, <1>3 DEF UnitsOf, Whole
  <2>2. QED
    BY <2>1 DEF Broken, SessionsInv, SessionsTypeOK, NetTypeOK
<1>4. QED
  BY <1>2, <1>3

\* The PCB that FindPcb finds is the one that the session has created.
LEMMA FindsOwn ==
  ASSUME SessionsInv, Exact, ~freed, NEW c \in Consoles, FindPcb(c)
  PROVE  LET found == {i \in DOMAIN pcbs : pcbs[i].pid = session[c].pid}
         IN  IF found = {} THEN session[c].pid = UNDEFINED /\ UsedUp
             ELSE Min(found) \in DOMAIN pcbs /\ pcbs[Min(found)].of = c
<1> USE DEF SessionsInv
<1> DEFINE found == {i \in DOMAIN pcbs : pcbs[i].pid = session[c].pid}
<1>1. Created(c)
  BY DEF FindPcb, At, Received, Opcode, Created
<1>2. CASE found = {}
  <2>1. ~HasPcb(c)
    BY <1>2 DEF HasPcb
  <2>2. QED
    BY <1>1, <1>2, <2>1 DEF Exact, CreatedOK
<1>3. CASE found # {}
  <2>1. Min(found) \in DOMAIN pcbs /\ pcbs[Min(found)].pid = session[c].pid
    BY <1>3, FoundIndex
  <2>2. session[c].pid \in DOMAIN pool
    BY <2>1 DEF IdsOK, TakenOK
  <2>3. session[c].pid # UNDEFINED
    BY <2>2, FreePid
  <2>4. PICK i \in DOMAIN pcbs : pcbs[i].pid = session[c].pid /\ pcbs[i].of = c
    BY <1>1, <2>3 DEF Exact, CreatedOK, HasPcb
  <2>5. i = Min(found)
    BY <2>1, <2>4 DEF IdsOK, UniqueOK
  <2>6. QED
    BY <1>3, <2>1, <2>4, <2>5
<1>4. QED
  BY <1>2, <1>3

\* What a session has found stays where it is.
LEMMA PlacesStep ==
  ASSUME SessionsInv, [Next]_vars, Exact, ~overlap', ~freed, ~freed' PROVE PlacesOK'
<1> USE DEF SessionsInv
<1> SUFFICES ASSUME NEW d \in Consoles, InList(d)'
             PROVE  /\ session'[d].pc = "link" =>
                         session'[d].at = IF pcbs' = <<>> THEN -1 ELSE Last(pcbs').pid
                    /\ session'[d].pc = "remove" =>
                         /\ session'[d].at \in DOMAIN pcbs' /\ pcbs'[session'[d].at].of = d
                         /\ session'[d].data = "data" \/ Broken(d)'
  BY DEF PlacesOK, InList
<1>1. CASE session'[d] = session[d]
  <2>1. pcbs' = pcbs
    <3>1. ASSUME NEW c \in Consoles, InList(c), AddLink(c) \/ RemovePcb(c) PROVE FALSE
      <4>1. c = d
        BY <1>1, <3>1 DEF Exact, AloneOK, InList
      <4>2. session'[c].pc = "opcode"
        BY <3>1, SessionValues DEF AddLink, RemovePcb, Moves
      <4>3. QED
        BY <4>1, <4>2 DEF InList
    <3>2. QED
      BY <3>1, PcbsFrame
  <2>2. QED
    BY <1>1, <2>1, BrokenKept DEF Exact, PlacesOK
<1>2. CASE AddLocate(d) /\ session'[d].pc = "link"
  <2>1. pcbs' = pcbs
    BY <1>2 DEF AddLocate
  <2>2. session'[d].at = IF pcbs = <<>> THEN -1 ELSE Last(pcbs).pid
    BY <1>2, SessionValues DEF Moves
  <2>3. QED
    BY <1>2, <2>1, <2>2
<1>3. CASE FindPcb(d) /\ session'[d].pc = "remove"
  <2> DEFINE found == {i \in DOMAIN pcbs : pcbs[i].pid = session[d].pid}
  <2>1. pcbs' = pcbs /\ session[d].pc = "opcode"
    BY <1>3 DEF FindPcb, At
  <2>2. found # {} /\ session'[d].data = Body(d) /\ session'[d].at = Min(found)
    BY <1>3, <2>1, FindValues DEF Moves
  <2>3. Min(found) \in DOMAIN pcbs /\ pcbs[Min(found)].of = d
    BY <1>3, <2>2, FindsOwn
  <2>4. Body(d) = "data" \/ Broken(d)'
    BY <1>3, BodyOK, BrokenKept
  <2>5. QED
    BY <1>3, <2>1, <2>2, <2>3, <2>4
<1>4. QED
  BY <1>1, <1>2, <1>3, ListEntry

\* The processes that went to NEW are those of the sessions that sent them.
LEMMA NewStep ==
  ASSUME SessionsInv, [Next]_vars, Exact PROVE NewOK'
<1> USE DEF SessionsInv
<1>1. \A p \in new : p.by \in Consoles
  BY DEF SessionsTypeOK, ListTypeOK, NewState
<1>2. ASSUME NEW p \in new PROVE p.pcb.of = p.by /\ (p.program = "data" \/ Broken(p.by)')
  BY <1>1, BrokenKept DEF Exact, NewOK
<1>3. ASSUME NEW c \in Consoles, RemovePcb(c) PROVE NewOK'
  <2>0. PICK q : q = [pcb |-> pcbs[session[c].at], by |-> c, program |-> session[c].data]
    OBVIOUS
  <2>1. new' \subseteq new \union {q}
    BY <1>3, <2>0, RemoveValues
  <2>2. q.pcb.of = q.by /\ (q.program = "data" \/ Broken(q.by))
    BY <1>3, <2>0 DEF Exact, PlacesOK, RemovePcb, At
  <2>3. q.by = c /\ (Broken(c) => Broken(c)')
    BY <2>0, BrokenKept
  <2>4. q.program = "data" \/ Broken(q.by)'
    BY <2>2, <2>3
  <2>5. QED
    BY <1>2, <2>1, <2>2, <2>4 DEF NewOK
<1>4. ASSUME NEW c \in Consoles, AddLocate(c) \/ AddLink(c) \/ FindPcb(c) \/ ListGone(c) PROVE new' = new
  BY <1>4 DEF AddLocate, AddLink, FindPcb, ListGone
<1>5. DeletePcbs => new' = new
  BY DEF DeletePcbs
<1>6. QED
  BY <1>2, <1>3, <1>4, <1>5, ListFrame DEF NewOK

\* Instructions are dropped only when there was no id for the process.
LEMMA DroppedStep ==
  ASSUME SessionsInv, [Next]_vars, Exact, ~freed PROVE DroppedOK'
<1> USE DEF SessionsInv
<1>1. dropped \subseteq Consoles
  BY DEF SessionsTypeOK, ListTypeOK
<1>2. ASSUME NEW c \in dropped PROVE session'[c].pid = UNDEFINED /\ UsedUp'
  BY <1>1, UndefinedKept DEF Exact, DroppedOK
<1>3. ASSUME NEW c \in Consoles, FindPcb(c), dropped' # dropped PROVE DroppedOK'
  <2>1. {i \in DOMAIN pcbs : pcbs[i].pid = session[c].pid} = {} /\ dropped' = dropped \union {c}
    BY <1>3, FindValues
  <2>2. session[c].pid = UNDEFINED /\ UsedUp
    BY <1>3, <2>1, FindsOwn
  <2>3. session'[c].pid = UNDEFINED /\ UsedUp'
    BY <2>2, UndefinedKept
  <2>4. QED
    BY <1>2, <2>1, <2>3 DEF DroppedOK
<1>4. ASSUME NEW c \in Consoles, ListGone(c) PROVE FALSE
  <2>1. session[c].pc = "remove" /\ session[c].at > Len(pcbs)
    BY <1>4 DEF ListGone
  <2>2. session[c].at \in DOMAIN pcbs /\ pcbs \in Seq(Pcb)
    BY <2>1 DEF Exact, PlacesOK, SessionsTypeOK, ListTypeOK
  <2>3. QED
    BY <2>1, <2>2
<1>5. ASSUME NEW c \in Consoles, AddLocate(c) \/ AddLink(c) \/ RemovePcb(c) PROVE dropped' = dropped
  BY <1>5 DEF AddLocate, AddLink, RemovePcb
<1>6. DeletePcbs => dropped' = dropped
  BY DEF DeletePcbs
<1>7. CASE dropped' = dropped
  BY <1>2, <1>7 DEF DroppedOK
<1>8. QED
  BY <1>3, <1>4, <1>5, <1>6, <1>7, ListFrame

\* How a session comes to have created its process.
LEMMA CreatedFrame ==
  ASSUME SessionsInv, [Next]_vars, ~freed, NEW d \in Consoles, Created(d)'
  PROVE  \/ Created(d) /\ session'[d].pid = session[d].pid /\ session'[d] = session[d]
         \/ HandleSyscall(d) \/ AddLink(d) \/ ListGone(d)
<1> USE DEF SessionsInv, SessionsTypeOK
<1>0. /\ session'[d].pc = "opcode" /\ UnitsOf(d)
      /\ \/ console'[d] = "sys" /\ net'[d].units = <<>>
         \/ net'[d].units # <<>> /\ net'[d].units[1] = "CMD"
  BY DEF Created, UnitsOK
<1>1. ASSUME UndefinedAction(d) PROVE FALSE
  <2>1. /\ net' = Consumed(d) /\ UNCHANGED console /\ net[d].units # <<>> /\ net[d].units[1] = "SYS"
        /\ ~Whole(d)
    BY <1>1 DEF UndefinedAction, Received, Opcode
  <2>2. Len(net[d].units) <= 3 /\ Len(net[d].units) # 3
    <3>1. Len(net[d].units) \in Nat
      BY DEF NetTypeOK, NetState
    <3>2. ~(Len(net[d].units) >= 3)
      BY <2>1 DEF Whole
    <3>3. \A n \in Nat : ~(n >= 3) => n <= 3 /\ n # 3
      OBVIOUS
    <3>4. QED
      BY <3>1, <3>2, <3>3
  <2>3. net'[d].units = <<>>
    BY <2>1, <2>2, ConsumedValues
  <2>4. QED
    BY <1>0, <2>1, <2>2, <2>3 DEF UnitsOf
<1>2. ASSUME FindPcb(d) PROVE FALSE
  <2>1. net' = Consumed(d) /\ UNCHANGED console /\ net[d].units # <<>> /\ net[d].units[1] = "CMD"
    BY <1>2 DEF FindPcb, Received, Opcode
  <2>2. Len(net[d].units) <= 3 /\ console[d] # "sys"
    BY <1>0, <2>1 DEF UnitsOf
  <2>3. net'[d].units = <<>>
    BY <2>1, <2>2, ConsumedValues
  <2>4. QED
    BY <1>0, <2>1, <2>2, <2>3
<1>3. ASSUME RemovePcb(d) PROVE FALSE
  <2>1. session[d].pc = "remove" /\ UNCHANGED <<net, console>>
    BY <1>3 DEF RemovePcb, At, netVars
  <2>2. QED
    BY <1>0, <2>1 DEF StageOK
<1>4. ASSUME LaunchCreate, session[d].pc = "none" PROVE FALSE
  <2>1. UNCHANGED <<net, console>>
    BY <1>4 DEF LaunchCreate, netVars
  <2>2. QED
    BY <1>0, <1>4, <2>1 DEF StageOK
<1>5. ~AddLocate(d) /\ ~Disconnect(d) /\ ~EndThread(d)
  <2>1. AddLocate(d) => session'[d].pc = "link"
    BY SessionValues DEF Moves
  <2>2. Disconnect(d) => session'[d].pc = "end"
    BY SessionValues DEF Moves, Disconnect
  <2>3. EndThread(d) => session'[d].pc = "gone"
    BY SessionValues DEF Moves, EndThread
  <2>4. QED
    BY <1>0, <2>1, <2>2, <2>3
<1>6. CASE session'[d] = session[d] /\ ~HandleSyscall(d)
  <2>1. session[d].pc = "opcode"
    BY <1>0, <1>6
  <2>2. ASSUME SendAction(d) PROVE FALSE
    <3>1. Send(d, "connected", "sys", "SYS") /\ "SYS" \in {"SYS", "CMD"}
      BY <2>2 DEF SendAction
    <3>2. /\ console[d] = "connected" /\ net'[d].units # <<>>
          /\ net[d].units = <<>> => net'[d].units[1] = "SYS"
      BY <3>1, SendValues
    <3>3. QED
      BY <1>0, <3>2 DEF UnitsOf
  <2>3. ASSUME SendInstructions(d) PROVE Created(d)
    <3>1. Send(d, "sys", "cmd", "CMD") /\ "CMD" \in {"SYS", "CMD"}
      BY <2>3 DEF SendInstructions
    <3>2. /\ console[d] = "sys" /\ console'[d] = "cmd"
          /\ Len(net[d].units) = 3 => net'[d].units[1] = net[d].units[1]
      BY <3>1, SendValues
    <3>3. QED
      BY <1>0, <2>1, <3>2 DEF UnitsOf, Created
  <2>4. ASSUME Close(d) PROVE Created(d)
    <3>1. net'[d].units = net[d].units /\ console'[d] = "closed"
      BY <2>4 DEF Close, NetTypeOK, NetState
    <3>2. QED
      BY <1>0, <2>1, <3>1 DEF Created
  <2>5. ASSUME Break(d) PROVE Created(d)
    <3>1. PICK n \in 0 .. Len(net[d].units) : net'[d].units = SubSeq(net[d].units, 1, n)
      BY <2>5 DEF Break, NetTypeOK
    <3>2. net[d].units \in Seq(Unit) /\ console'[d] = "broken"
      BY <2>5 DEF Break, NetTypeOK, NetState
    <3>3. net'[d].units = <<>> \/ (net'[d].units[1] = net[d].units[1] /\ net[d].units # <<>>)
      BY <3>1, <3>2
    <3>4. QED
      BY <1>0, <2>1, <3>2, <3>3 DEF Created
  <2>6. ASSUME Connect(d) PROVE FALSE
    <3>1. net'[d] = net[d] /\ console'[d] = "connected" /\ console[d] = "off"
      BY <2>6 DEF Connect, NetTypeOK
    <3>2. QED
      BY <1>0, <3>1 DEF UnitsOf
  <2>7. CASE net'[d] = net[d] /\ console'[d] = console[d]
    BY <1>6, <2>7 DEF Created
  <2>8. QED
    BY <1>1, <1>2, <1>6, <2>2, <2>3, <2>4, <2>5, <2>6, <2>7, OwnNet
<1>7. QED
  BY <1>2, <1>3, <1>4, <1>5, <1>6, OwnStep

\* A session that has created its process finds it in the list, unless there was
\* no id for it.
LEMMA CreatedStep ==
  ASSUME SessionsInv, [Next]_vars, Exact, ~freed, ~freed' PROVE CreatedOK'
<1> USE DEF SessionsInv
<1> SUFFICES ASSUME NEW d \in Consoles, Created(d)'
             PROVE  HasPcb(d)' \/ (session'[d].pid = UNDEFINED /\ UsedUp')
  BY DEF CreatedOK, UNDEFINED
<1>1. CASE HandleSyscall(d)
  <2>1. session'[d].pc = "opcode"
    BY DEF Created
  <2>2. GetPidLibre = UNDEFINED /\ session'[d].pid = GetPidLibre
    BY <1>1, <2>1, SessionValues DEF Moves
  <2>3. UsedUp
    BY <1>1, <2>2, PoolTaken
  <2>4. QED
    BY <2>2, <2>3, UsedUpKept
<1>2. CASE AddLink(d)
  <2> DEFINE pcb == [pid |-> session[d].pid, of |-> d]
  <2>1. session'[d].pid = session[d].pid /\ session[d].pc = "link"
    BY <1>2, SessionValues DEF AddLink, Moves, At
  <2>2. session[d].at = IF pcbs = <<>> THEN -1 ELSE Last(pcbs).pid
    BY <2>1 DEF Exact, PlacesOK
  <2>3. pcbs \in Seq(Pcb) /\ pcb.pid = session[d].pid /\ pcb.of = d
    BY DEF SessionsTypeOK, ListTypeOK
  <2>4. pcbs # <<>> => Len(pcbs) \in DOMAIN pcbs /\ pcbs[Len(pcbs)].pid = Last(pcbs).pid
    BY <2>3 DEF Last
  <2>5. pcbs' = CASE session[d].at = -1 -> <<pcb>>
                  [] \E i \in DOMAIN pcbs : pcbs[i].pid = session[d].at -> Append(pcbs, pcb)
                  [] OTHER -> pcbs
    BY <1>2 DEF AddLink
  <2> HIDE DEF pcb
  <2>6. pcbs' = <<pcb>> \/ pcbs' = Append(pcbs, pcb)
    <3>1. CASE session[d].at = -1
      BY <2>5, <3>1
    <3>2. CASE session[d].at # -1
      <4>1. \E i \in DOMAIN pcbs : pcbs[i].pid = session[d].at
        BY <2>2, <2>4, <3>2
      <4>2. QED
        BY <2>5, <3>2, <4>1
    <3>3. QED
      BY <3>1, <3>2
  <2>7. \E i \in DOMAIN pcbs' : pcbs'[i] = pcb
    <3>1. CASE pcbs' = <<pcb>>
      <4>1. 1 \in DOMAIN pcbs' /\ pcbs'[1] = pcb
        BY <3>1
      <4>2. QED
        BY <4>1
    <3>2. CASE pcbs' = Append(pcbs, pcb)
      <4>1. Len(pcbs) + 1 \in DOMAIN pcbs' /\ pcbs'[Len(pcbs) + 1] = pcb
        BY <2>3, <3>2
      <4>2. QED
        BY <4>1
    <3>3. QED
      BY <2>6, <3>1, <3>2
  <2>8. QED
    BY <2>1, <2>3, <2>7 DEF HasPcb
<1>3. ASSUME ListGone(d) PROVE FALSE
  <2>1. session[d].pc = "remove" /\ session[d].at > Len(pcbs)
    BY <1>3 DEF ListGone
  <2>2. session[d].at \in DOMAIN pcbs /\ pcbs \in Seq(Pcb)
    BY <2>1 DEF Exact, PlacesOK, SessionsTypeOK, ListTypeOK
  <2>3. QED
    BY <2>1, <2>2
<1>4. CASE Created(d) /\ session'[d] = session[d]
  <2>1. CASE session[d].pid = UNDEFINED /\ UsedUp
    BY <1>4, <2>1, UsedUpKept
  <2>2. CASE HasPcb(d)
    <3>1. PICK i \in DOMAIN pcbs : pcbs[i].pid = session[d].pid /\ pcbs[i].of = d
      BY <2>2 DEF HasPcb
    <3>2. \E j \in DOMAIN pcbs' : pcbs'[j] = pcbs[i]
      <4>1. CASE pcbs' = pcbs
        BY <4>1
      <4>2. ASSUME NEW c \in Consoles, AddLink(c) PROVE \E j \in DOMAIN pcbs' : pcbs'[j] = pcbs[i]
        <5> DEFINE pcb == [pid |-> session[c].pid, of |-> c]
        <5>1. pcbs \in Seq(Pcb) /\ pcbs # <<>> /\ pcb \in Pcb
          BY <3>1 DEF SessionsTypeOK, ListTypeOK, SessionState, Pcb
        <5>2. session[c].at # -1
          <6>1. session[c].at = Last(pcbs).pid
            BY <4>2, <5>1 DEF Exact, PlacesOK, AddLink, At
          <6>2. Last(pcbs) \in Pcb
            BY <5>1 DEF Last
          <6>3. QED
            BY <6>1, <6>2 DEF Pcb
        <5>3. pcbs' = Append(pcbs, pcb) \/ pcbs' = pcbs
          BY <4>2, <5>2 DEF AddLink
        <5> HIDE DEF pcb
        <5>4. i \in DOMAIN pcbs' /\ pcbs'[i] = pcbs[i]
          BY <3>1, <5>1, <5>3
        <5>5. QED
          BY <5>4
      <4>3. ASSUME NEW c \in Consoles, RemovePcb(c) PROVE \E j \in DOMAIN pcbs' : pcbs'[j] = pcbs[i]
        <5> DEFINE k == session[c].at
        <5>1. k \in DOMAIN pcbs /\ pcbs \in Seq(Pcb) /\ k \in 1 .. Len(pcbs) /\ pcbs' = RemoveAt(pcbs, k)
          BY <4>3, RemoveValues
        <5>2. session[c].pc = "remove" /\ pcbs[k].of = c
          BY <4>3 DEF RemovePcb, At, Exact, PlacesOK
        <5>3. c # d
          BY <1>4, <5>2 DEF Created
        <5>4. i # k
          BY <3>1, <5>2, <5>3
        <5> HIDE DEF k
        <5>5. QED
          BY <3>1, <5>1, <5>4, RemovedPlace
      <4>4. QED
        BY <4>1, <4>2, <4>3, PcbsFrame
    <3>3. QED
      BY <1>4, <3>1, <3>2 DEF HasPcb
  <2>3. QED
    BY <1>4, <2>1, <2>2 DEF Exact, CreatedOK
<1>5. QED
  BY <1>1, <1>2, <1>3, <1>4, CreatedFrame

\* What ListOK says holds until two sessions meet in the list, or it is destroyed.
LEMMA ListStep == ASSUME SessionsInv, [Next]_vars PROVE ListOK'
<1> USE DEF SessionsInv
<1>1. CASE overlap' \/ freed'
  BY <1>1 DEF ListOK
<1>2. CASE ~overlap' /\ ~freed'
  <2>1. ~overlap /\ ~freed
    <3>1. DeletePcbs => freed'
      BY DEF DeletePcbs
    <3>2. QED
      BY <1>2, <3>1, OverlapKept, FreedFrame
  <2>2. Exact
    BY <2>1 DEF ListOK, Exact
  <2>3. AloneOK' /\ PlacesOK' /\ CreatedOK' /\ NewOK' /\ DroppedOK'
    BY <1>2, <2>1, <2>2, AloneStep, PlacesStep, CreatedStep, NewStep, DroppedStep
  <2>4. QED
    BY <2>3 DEF ListOK
<1>3. QED
  BY <1>1, <1>2
-----------------------------------------------------------------------------
(* The theorems.                                                           *)

\* SessionsInv is an invariant: the bookkeeping of the server, its connections, the
\* process ids and the list of PCBs (server.c, thread_manager.c, pids.c and
\* dispatcher.c), in every reachable state.
THEOREM SessionsInvariant == Spec => []SessionsInv
<1>1. Init => SessionsInv
  BY InitInv
<1>2. SessionsInv /\ [Next]_vars => SessionsInv'
  BY MainTypeStep, NetTypeStep, SessionTypeStep, PoolTypeStep, ListTypeStep, ServerStep, TableStep,
     UnitsStep, IdsStep, StageStep, FoundStep, ListStep DEF SessionsInv, SessionsTypeOK
<1>3. QED
  BY <1>1, <1>2, PTL DEF Spec

\* The table of threads (thread_manager.c) has each session that runs exactly once
\* and no other one, and fits into its array, whenever its mutex is free.
THEOREM TableExactAlways == Spec => []TableExact
<1>1. SessionsInv => TableExact
  BY DEF SessionsInv, TableOK, TableExact, Running
<1>2. QED
  BY <1>1, SessionsInvariant, PTL

\* Every process in NEW has the id and the instructions of its own console, and no
\* id is given twice (dispatcher.c, pids.c), but for the ways out that OwnProgram
\* names.
THEOREM OwnProgramAlways == Spec => []OwnProgram
<1>1. SessionsInv => OwnProgram
  <2> SUFFICES ASSUME SessionsInv PROVE OwnProgram
    OBVIOUS
  <2>1. overlap \/ freed \/ (NewOK /\ DroppedOK)
    BY DEF SessionsInv, ListOK
  <2>2. UniqueOK
    BY DEF SessionsInv, IdsOK
  <2>3. QED
    BY <2>1, <2>2 DEF OwnProgram, NewOK, DroppedOK, UniqueOK
<1>2. QED
  BY <1>1, SessionsInvariant, PTL
=============================================================================
