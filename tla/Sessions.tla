------------------------------- MODULE Sessions -------------------------------
(***************************************************************************)
(* The kernel as a server of consoles: its life from main to exit          *)
(* (kernel.c, signals.c), the threads it launches (thread_manager.c), the  *)
(* connections and packages (server.c, conexion.c, package.c), the session *)
(* of each console (routines.c, dispatcher.c) and the process ids          *)
(* (pids.c).                                                               *)
(*                                                                         *)
(* The main thread launches the threads of the kernel, then accepts        *)
(* consoles.  SIGINT runs the shutdown on top of it, wherever it is.  A    *)
(* package is three units on the connection: opcode, size, data.  A        *)
(* connection may break anywhere, at its end or with an error.  pcbs is a  *)
(* linked list of the commons library: safe_list_add locks it, while       *)
(* get_pcb_by_pid does not, so each is two steps here.                     *)
(***************************************************************************)
EXTENDS Integers, Sequences, SequencesExt

CONSTANTS
  Consoles,   \* each connects once
  PoolSizes,  \* PIDS, the size of the pool of process ids
  Workers,    \* threads that on_run launches
  N_THREADS,  \* first size of a table of threads
  MaxBreaks   \* bound: connections that break

ASSUME SessionsAssumption ==
  /\ PoolSizes \subseteq Nat \ {0} /\ PoolSizes # {} /\ IsFiniteSet(PoolSizes)
  /\ Workers \in Nat \ {0} /\ N_THREADS \in Nat \ {0} /\ MaxBreaks \in Nat

VARIABLES
  main,      \* the main thread: place, and what it launches where
  mutex,     \* of the tables of threads (kernel, server, scheduler): who has it
  table,     \* tm->threads, the first tm->size of them
  max,       \* tm->max_threads
  console,   \* the consoles: how far they are
  net,       \* the connections: units on the way and how they ended
  backlog,   \* connections that are not accepted yet
  session,   \* the threads of the sessions, in routine
  pool,      \* of each process id, whether it is taken
  pcbs,      \* g_kernel.pcbs
  freed,     \* the list was destroyed
  new,       \* the processes that went to NEW
  overlap,   \* history: two sessions were in pcbs at once
  dropped,   \* history: sessions whose instructions found no PCB
  breaks     \* connections that broke, for the bound

mainVars == <<main, mutex, table, max>>
netVars  == <<console, net, backlog, breaks>>
kernelVars == <<pool, pcbs, freed, new, overlap, dropped>>
vars == <<mainVars, netVars, session, kernelVars>>

UNDEFINED == Max(PoolSizes) + 1
NoSession == [pc |-> "none", pid |-> 0, data |-> "none", at |-> 0]

Init ==
  /\ main = [pc |-> "init", tm |-> "kernel", arg |-> "worker"]
  /\ mutex = [t \in {"kernel", "server", "scheduler"} |-> "free"]
  /\ table = [t \in {"kernel", "server"} |-> <<>>] /\ max = [t \in {"kernel", "server"} |-> N_THREADS]
  /\ console = [c \in Consoles |-> "off"] /\ net = [c \in Consoles |-> [units |-> <<>>, end |-> "no"]]
  /\ backlog = <<>> /\ breaks = 0
  /\ session = [c \in Consoles |-> NoSession]
  /\ \E n \in PoolSizes : pool = [i \in 0 .. n - 1 |-> FALSE]
  /\ pcbs = <<>> /\ freed = FALSE /\ new = {} /\ overlap = FALSE /\ dropped = {}

Stopped == main.pc \in {"exited", "crashed"}
Crash == main' = [main EXCEPT !.pc = "crashed"]

\* scheduler_delete has destroyed the queues.
QueuesGone == main.pc \in {"hung", "delete_pcbs", "delete_server", "exit"}
-----------------------------------------------------------------------------
(* The main thread.                                                        *)

\* on_init: servidor_create, new_thread_manager, new_pids.
OnInit ==
  /\ main.pc = "init" /\ main' = [main EXCEPT !.pc = "launch"]
  /\ UNCHANGED <<mutex, table, max, netVars, session, kernelVars>>

\* Log or configuration fail: on_before_exit destroys what was never created.
OnInitFails ==
  /\ main.pc = "init" /\ Crash /\ UNCHANGED <<mutex, table, max, netVars, session, kernelVars>>

\* thread_manager_launch, of handle_memory, handle_cpu and schedule_kernel, and
\* then of servidor_run.  The table is doubled if it is full, and the thread may
\* run before it is counted.
LaunchCreate ==
  /\ main.pc = "launch" /\ mutex[main.tm] = "free"
  /\ mutex' = [mutex EXCEPT ![main.tm] = "main"] /\ main' = [main EXCEPT !.pc = "count"]
  /\ max' = [max EXCEPT ![main.tm] = IF Len(table[main.tm]) < @ THEN @ ELSE 2 * @]
  /\ session' = IF main.tm = "kernel" THEN session ELSE [session EXCEPT ![main.arg].pc = "opcode"]
  /\ UNCHANGED <<table, netVars, kernelVars>>

\* handle_cpu, handle_memory and schedule_kernel have launched their threads.
Launched == Len(table["kernel"]) + 1 = Workers

LaunchCount ==
  /\ main.pc = "count" /\ table' = [table EXCEPT ![main.tm] = Append(@, main.arg)]
  /\ mutex' = [mutex EXCEPT ![main.tm] = "free"]
  /\ main' = [main EXCEPT !.pc = IF main.tm = "server" THEN "accept"
                                 ELSE IF Launched THEN "listen" ELSE "launch"]
  /\ UNCHANGED <<max, netVars, session, kernelVars>>

\* handle_consoles
Listen ==
  /\ main.pc = "listen" /\ main' = [main EXCEPT !.pc = "accept", !.tm = "server"]
  /\ UNCHANGED <<mutex, table, max, netVars, session, kernelVars>>

\* conexion_servidor_create found no socket to bind.
ListenFails ==
  /\ main.pc = "listen" /\ main' = [main EXCEPT !.pc = "delete_tm"]
  /\ UNCHANGED <<mutex, table, max, netVars, session, kernelVars>>

\* servidor_run, server_accept_client
Accept ==
  /\ main.pc = "accept" /\ backlog # <<>> /\ backlog' = Tail(backlog)
  /\ main' = [main EXCEPT !.pc = "launch", !.arg = Head(backlog)]
  /\ UNCHANGED <<mutex, table, max, console, net, breaks, session, kernelVars>>

\* The handler of SIGINT calls on_before_exit, and does not return.
Sigint ==
  /\ main.pc \in {"launch", "count", "listen", "accept"}
  /\ main' = [main EXCEPT !.pc = "delete_tm"]
  /\ UNCHANGED <<mutex, table, max, netVars, session, kernelVars>>

\* Fault: the threads are joined.
EndThreadsJoin(t) == mutex[t] = "free" /\ table[t] = <<>> /\ UNCHANGED table

\* thread_manager_end_threads
EndThreads(t) == mutex[t] = "free" /\ table' = [table EXCEPT ![t] = <<>>]

\* on_delete_kernel: thread_manager_destroy of the kernel's threads ...
DeleteThreads ==
  /\ main.pc = "delete_tm" /\ EndThreads("kernel") /\ main' = [main EXCEPT !.pc = "delete_sched"]
  /\ UNCHANGED <<mutex, max, netVars, session, kernelVars>>

\* ... scheduler_delete, that gets the scheduler by value: it destroys the queues
\* and then locks its copy of the mutex of the trackers' table.  If that was held
\* when it was copied, nobody ever unlocks the copy ...
DeleteScheduler ==
  /\ main.pc = "delete_sched"
  /\ main' = [main EXCEPT !.pc = IF mutex["scheduler"] = "free" THEN "delete_pcbs" ELSE "hung"]
  /\ UNCHANGED <<mutex, table, max, netVars, session, kernelVars>>

\* ... safe_list_destroy_with of the PCBs, while the sessions go on ...
DeletePcbs ==
  /\ main.pc = "delete_pcbs" /\ \A c \in Consoles : session[c].pc # "link"
  /\ pcbs' = <<>> /\ freed' = TRUE /\ main' = [main EXCEPT !.pc = "delete_server"]
  /\ UNCHANGED <<mutex, table, max, netVars, session, pool, new, overlap, dropped>>

\* ... and servidor_destroy: the socket is closed, the sessions are cancelled, at
\* their next cancellation point.
DeleteServer ==
  /\ main.pc = "delete_server" /\ EndThreads("server") /\ main' = [main EXCEPT !.pc = "exit"]
  /\ UNCHANGED <<mutex, max, netVars, session, kernelVars>>

Exit ==
  /\ main.pc = "exit" /\ main' = [main EXCEPT !.pc = "exited"]
  /\ UNCHANGED <<mutex, table, max, netVars, session, kernelVars>>

Main ==
  \/ OnInit \/ OnInitFails \/ LaunchCreate \/ LaunchCount \/ Listen \/ ListenFails
  \/ Accept \/ DeleteThreads \/ DeleteScheduler \/ DeletePcbs \/ DeleteServer \/ Exit
-----------------------------------------------------------------------------
(* The trackers of the scheduler, once a process is in NEW that may block.  *)

\* STS launches one (notify_mts), or one ends (track_time), between lock and
\* unlock.  The main thread only meets this mutex in scheduler_delete, so it is
\* followed there.
TrackersLock ==
  /\ mutex["scheduler"] = "free" /\ new # {} /\ main.pc = "delete_sched"
  /\ mutex' = [mutex EXCEPT !["scheduler"] = "trackers"]
  /\ UNCHANGED <<main, table, max, netVars, session, kernelVars>>

TrackersUnlock ==
  /\ mutex["scheduler"] = "trackers" /\ main.pc = "delete_sched"
  /\ mutex' = [mutex EXCEPT !["scheduler"] = "free"]
  /\ UNCHANGED <<main, table, max, netVars, session, kernelVars>>
-----------------------------------------------------------------------------
(* Consoles and their connections.                                         *)

Listening == main.tm = "server" /\ main.pc \in {"accept", "launch", "count"}

\* on_module_connect: it tries until the kernel listens.
Connect(c) ==
  /\ console[c] = "off" /\ Listening
  /\ console' = [console EXCEPT ![c] = "connected"] /\ backlog' = Append(backlog, c)
  /\ UNCHANGED <<net, breaks, mainVars, session, kernelVars>>

\* enviar_stream, package_serialize
Package(op) == <<op, "size", "data">>

Send(c, from, to, op) ==
  /\ console[c] = from /\ console' = [console EXCEPT ![c] = to]
  /\ net' = [net EXCEPT ![c].units = @ \o Package(op)]
  /\ UNCHANGED <<backlog, breaks, mainVars, session, kernelVars>>

SendAction(c) == Send(c, "connected", "sys", "SYS")
SendInstructions(c) == Send(c, "sys", "cmd", "CMD")

\* conexion_destroy, when it is done.
Close(c) ==
  /\ console[c] = "cmd" /\ console' = [console EXCEPT ![c] = "closed"] /\ net' = [net EXCEPT ![c].end = "eof"]
  /\ UNCHANGED <<backlog, breaks, mainVars, session, kernelVars>>

\* The console is interrupted, or the connection breaks, and what was on the way
\* is lost from some point on.
Break(c) ==
  /\ console[c] \in {"connected", "sys", "cmd"} /\ breaks < MaxBreaks /\ breaks' = breaks + 1
  /\ console' = [console EXCEPT ![c] = "broken"]
  /\ \E n \in 0 .. Len(net[c].units), e \in {"eof", "error"} :
       net' = [net EXCEPT ![c] = [units |-> SubSeq(@.units, 1, n), end |-> e]]
  /\ UNCHANGED <<backlog, mainVars, session, kernelVars>>
-----------------------------------------------------------------------------
(* A session: routine.                                                     *)

At(c, place) == session[c].pc = place /\ ~Stopped
Goes(c, place) == session' = [session EXCEPT ![c].pc = place]
Resumes(c) == session' = [session EXCEPT ![c].pc = "opcode", ![c].at = 0, ![c].data = "none"]

Received(c) == net[c].units # <<>>
Opcode(c) == Head(net[c].units)

\* recibir_buffer notices an error, but not an end: the buffer then has what
\* malloc found.
Whole(c) == Len(net[c].units) >= 3
BodyEnds(c) == Whole(c) \/ net[c].end = "eof"
Body(c) == IF Whole(c) THEN "data" ELSE "garbage"
Consumed(c) == [net EXCEPT ![c].units = SubSeq(@, 4, Len(@))]

\* An error gives NULL, which accion_from_stream and instruction_list_from read.
RecvFails(c) ==
  /\ At(c, "opcode") /\ Received(c) /\ ~Whole(c) /\ net[c].end = "error" /\ Crash
  /\ UNCHANGED <<mutex, table, max, netVars, session, kernelVars>>

UsedUp == \A i \in DOMAIN pool : pool[i]

\* Fault: ids that are taken are not passed over.
GetPidTaken == IF UsedUp THEN UNDEFINED ELSE Min(DOMAIN pool)

\* get_pid_libre
GetPidLibre == IF UsedUp THEN UNDEFINED ELSE Min({i \in DOMAIN pool : ~pool[i]})

\* SYS: dispatch_handle_syscall, up to safe_list_add.
HandleSyscall(c) ==
  /\ At(c, "opcode") /\ Received(c) /\ Opcode(c) = "SYS" /\ BodyEnds(c) /\ net' = Consumed(c)
  /\ session' = [session EXCEPT ![c].pid = GetPidLibre,
                                ![c].pc = IF GetPidLibre = UNDEFINED THEN "opcode" ELSE "add"]
  /\ pool' = [i \in DOMAIN pool |-> pool[i] \/ i = GetPidLibre]
  /\ UNCHANGED <<console, backlog, breaks, mainVars, pcbs, freed, new, overlap, dropped>>

\* The default of its switch, for a code that is none.
UndefinedAction(c) ==
  /\ At(c, "opcode") /\ Received(c) /\ Opcode(c) = "SYS" /\ ~Whole(c) /\ BodyEnds(c)
  /\ net' = Consumed(c) /\ UNCHANGED <<console, backlog, breaks, session, mainVars, kernelVars>>

InList(d) == session[d].pc \in {"link", "remove"}

\* safe_list_add: list_add looks for the last element ...
AddLocate(c) ==
  /\ At(c, "add") /\ ~freed /\ \A d \in Consoles : session[d].pc # "link"
  /\ session' = [session EXCEPT ![c].pc = "link", ![c].at = IF pcbs = <<>> THEN -1 ELSE Last(pcbs).pid]
  /\ overlap' = (overlap \/ \E d \in Consoles : InList(d))
  /\ UNCHANGED <<mainVars, netVars, pool, pcbs, freed, new, dropped>>

\* ... and links the new one behind it, or behind one that is no longer there.
AddLink(c) ==
  /\ At(c, "link") /\ Resumes(c)
  /\ LET pcb == [pid |-> session[c].pid, of |-> c]
     IN  pcbs' = CASE session[c].at = -1 -> <<pcb>>
                   [] \E i \in DOMAIN pcbs : pcbs[i].pid = session[c].at -> Append(pcbs, pcb)
                   [] OTHER -> pcbs
  /\ UNCHANGED <<mainVars, netVars, pool, freed, new, overlap, dropped>>

\* CMD: dispatch_handle_instruction.  list_remove_by_condition looks for the
\* index of the PCB ...
FindPcb(c) ==
  /\ At(c, "opcode") /\ Received(c) /\ Opcode(c) = "CMD" /\ BodyEnds(c) /\ net' = Consumed(c)
  /\ LET found == {i \in DOMAIN pcbs : pcbs[i].pid = session[c].pid}
     IN  IF found = {} /\ ~freed THEN dropped' = dropped \union {c} /\ UNCHANGED session
         ELSE /\ session' = [session EXCEPT ![c].pc = "remove", ![c].data = Body(c),
                                            ![c].at = IF freed THEN 0 ELSE Min(found)]
              /\ UNCHANGED dropped
  /\ overlap' = (overlap \/ \E d \in Consoles : InList(d))
  /\ UNCHANGED <<console, backlog, breaks, mainVars, pool, pcbs, freed, new>>

\* ... and removes what is at that index, which gets the instructions and goes
\* to NEW, unless NEW is gone.
RemovePcb(c) ==
  /\ At(c, "remove") /\ ~freed /\ session[c].at <= Len(pcbs) /\ Resumes(c)
  /\ pcbs' = RemoveAt(pcbs, session[c].at)
  /\ new' = IF QueuesGone THEN new
            ELSE new \union {[pcb |-> pcbs[session[c].at], by |-> c, program |-> session[c].data]}
  /\ UNCHANGED <<mainVars, netVars, pool, freed, overlap, dropped>>

\* Pushing to NEW when it is gone may also crash; a destroyed mutex does not block.
NewGone(c) ==
  /\ At(c, "remove") /\ QueuesGone /\ ~freed /\ Crash
  /\ UNCHANGED <<mutex, table, max, netVars, session, kernelVars>>

\* The index is beyond the list, or the list is gone: the outcome may be a crash.
ListGone(c) ==
  /\ ~Stopped
  /\ \/ session[c].pc \in {"add", "remove"} /\ freed
     \/ session[c].pc = "remove" /\ session[c].at > Len(pcbs)
  /\ \/ Crash /\ UNCHANGED <<session, dropped>>
     \/ Resumes(c) /\ dropped' = dropped \union {c} /\ UNCHANGED main
  /\ UNCHANGED <<mutex, table, max, netVars, pool, pcbs, freed, new, overlap>>

\* recibir_operacion has nothing more, or an error: servidor_desconectar_cliente.
Disconnect(c) ==
  /\ At(c, "opcode") /\ ~Received(c) /\ net[c].end # "no" /\ Goes(c, "end")
  /\ UNCHANGED <<mainVars, netVars, kernelVars>>

\* thread_manager_get_index
IndexOf(t, c) == {i \in DOMAIN t : t[i] = c}

\* The last thread takes the place of the one that ends.
Without(t, c) ==
  IF IndexOf(t, c) = {} THEN t ELSE Front([t EXCEPT ![Min(IndexOf(t, c))] = Last(t)])

\* Fault: the table is not locked.
EndThreadUnlocked(c) ==
  /\ At(c, "end") /\ Goes(c, "gone")
  /\ table' = [table EXCEPT !["server"] = Without(@, c)]
  /\ UNCHANGED <<main, mutex, max, netVars, kernelVars>>

\* thread_manager_end_thread, between lock and unlock; one that is not in the
\* table returns to routine, and ends there.
EndThread(c) ==
  /\ At(c, "end") /\ mutex["server"] = "free"
  /\ Goes(c, "gone") /\ table' = [table EXCEPT !["server"] = Without(@, c)]
  /\ UNCHANGED <<main, mutex, max, netVars, kernelVars>>

Session(c) ==
  \/ RecvFails(c) \/ HandleSyscall(c) \/ UndefinedAction(c)
  \/ AddLocate(c) \/ AddLink(c) \/ FindPcb(c) \/ RemovePcb(c) \/ NewGone(c)
  \/ ListGone(c) \/ Disconnect(c) \/ EndThread(c)
-----------------------------------------------------------------------------
Console(c) == Connect(c) \/ SendAction(c) \/ SendInstructions(c) \/ Close(c) \/ Break(c)

Next == Main \/ Sigint \/ TrackersLock \/ TrackersUnlock \/ \E c \in Consoles : Session(c) \/ Console(c)

Spec == Init /\ [][Next]_vars

\* The threads of the kernel go on; no console need do anything.
FairSpec == Spec /\ WF_vars(Main) /\ \A c \in Consoles : WF_vars(Session(c))
-----------------------------------------------------------------------------
(* Properties.                                                             *)

Broken(c) == console[c] = "broken"

\* Every process in NEW was created by the session that gave it its instructions,
\* and has those that the console sent; no id is given twice; and instructions
\* are dropped only when the ids are used up (pids.c:38).  The ways out are a
\* connection that broke in the middle of a package (server.c:86), two sessions
\* that are in the list of PCBs at once (dispatcher.c:51), and the shutdown, that
\* destroys the list under the sessions (kernel.c:90).
OwnProgram ==
  /\ overlap \/ freed \/
       /\ \A p \in new : p.pcb.of = p.by /\ (p.program = "data" \/ Broken(p.by))
       /\ \A c \in dropped : session[c].pid = UNDEFINED /\ UsedUp
  /\ \A p, q \in new : p.pcb.pid = q.pcb.pid => p = q
  /\ \A i \in DOMAIN pcbs : /\ \A p \in new : p.pcb.pid # pcbs[i].pid
                            /\ \A j \in DOMAIN pcbs : pcbs[i].pid = pcbs[j].pid => i = j

\* The PCB that a session moves to NEW, and logs as its own (dispatcher.c:66), is
\* the one with its process id.
MovedIsOwn == \A p \in new : p.pcb.pid = session[p.by].pid

\* Outside of the steps that hold its mutex, the table has each session that runs
\* exactly once and no other, so that every one finds its place when it ends,
\* and none that has ended is cancelled; it never outgrows its array.
TableExact ==
  LET Runs(c) == session[c].pc \notin {"none", "gone"}
  IN  mutex["server"] = "free" /\ main.pc \notin {"exit", "exited", "crashed"} =>
        /\ IsInjective(table["server"]) /\ ToSet(table["server"]) = {c \in Consoles : Runs(c)}
        /\ Len(table["server"]) <= max["server"]

\* A session ends after its console has gone, and a shutdown comes to its end,
\* but for two locks that nobody gives back.  SIGINT may meet the main thread in
\* thread_manager_launch: the handler then waits for the mutex of the very thread
\* it runs on (thread_manager.c:180).  And it may meet the trackers' table locked,
\* as STS launches a tracker or one ends: scheduler_delete copies that mutex
\* locked (kernel.c:88).
Ends ==
  /\ \A c \in Consoles :
       (session[c].pc # "none" /\ net[c].end # "no") ~> (session[c].pc = "gone" \/ Stopped \/ mutex["server"] = "main")
  /\ (main.pc = "delete_tm" /\ \A t \in DOMAIN mutex : mutex[t] # "main") ~> (Stopped \/ main.pc = "hung")
=============================================================================
