------------------------------ MODULE StartUp ------------------------------
(***************************************************************************)
(* The life of one basket object on one node: how the processes of an MPI  *)
(* job construct it around a backing file, use it and delete it, when      *)
(* processes die at any point and the job is run again over what the last  *)
(* one left in BACKED_FILE_DIR.                                            *)
(*                                                                         *)
(* A process is a sequence of steps, its script: those statements of its   *)
(* constructor and destructor that other processes can notice.  A server   *)
(* removes the backing file, creates and fills a new one and binds its     *)
(* handlers to an RPC server that listens already; a client opens the file *)
(* and looks the objects up by name.  The programs of test/ let the        *)
(* clients construct after an MPI_Barrier that follows the servers'        *)
(* constructors and delete after another one; programs without the first   *)
(* barrier are modelled, too.                                              *)
(*                                                                         *)
(* There are three kinds of objects.  The containers bind last and put the *)
(* server's index into the name of the file.  global_sequence binds first  *)
(* and has one file name for all servers; global_clock, moreover, one name *)
(* for the object in the file.                                             *)
(***************************************************************************)
EXTENDS Naturals, Sequences, FiniteSets

CONSTANTS
    Servers,       \* server indices, one process each
    Clients,       \* client processes
    MyServer,      \* MyServer[c]: BASKET_CONF->MY_SERVER of client c
    ServerOnNode,  \* ServerOnNode[c]: BASKET_CONF->SERVER_ON_NODE of client c
    Programs,      \* what may be run: the class of the object, the servers
                   \* on the node, whether clients construct after an
                   \* MPI_Barrier and, a bound, how many processes are killed
    Inodes,        \* bound: the files that exist at a time, linked or mapped
    Free,          \* an unlocked interprocess_mutex
    Dead,          \* the holder of a mutex that died holding it
    None           \* no file, no object, no mutex

ASSUME ProcessesAssumption ==
    /\ IsFiniteSet(Servers) /\ Clients \cap Servers = {}
    /\ Programs \subseteq [kind : {"container", "sequence", "clock"},
                            node : SUBSET Servers,
                            barrier : BOOLEAN, kills : Nat]
    /\ MyServer \in [Clients -> Servers]
    /\ ServerOnNode \in [Clients -> BOOLEAN]
    /\ \A x \in Programs, c \in Clients :
          ServerOnNode[c] => MyServer[c] \in x.node
ASSUME ValuesAssumption ==
    /\ None \notin Servers \cup Clients \cup Inodes \cup {Free, Dead}
    /\ Dead \notin Clients \cup {Free}

VARIABLES
    program,       \* the program that is run
    at,            \* at[p]: how many steps of its script p has done
    fate,          \* fate[p]: how p has ended, unless it is "alive"
    dir,           \* dir[n]: the file linked under name n, or None
    file,          \* file[i]: what is in a file
    maps,          \* maps[p]: the file p has mapped, or None
    found,         \* found[c]: c's look-ups found the object and the mutex
    stage,         \* stage[c]: how far c's call is
    target,        \* target[c]: the server c's call addresses
    crashes        \* how many processes have been killed

kind == program.kind
node == program.node
barrier == program.barrier

files == <<dir, file, maps, found>>
calls == <<stage, target>>
vars == <<program, at, fate, files, calls, crashes>>

Procs == node \cup Clients

\* The name of the file ends in the server's index, or it does not.
Names == Servers \cup {"shared"}
MutantBackedFileWithoutIndex(s) == "shared"

BackedFile(s) == IF kind = "container" THEN s ELSE "shared"

\* A file that has just been created.
Blank == [object |-> None, mutex |-> None, old |-> FALSE]

FileTypes == [object : Servers \cup {None},
              mutex : Clients \cup {Free, Dead, None},
              old : BOOLEAN]

-----------------------------------------------------------------------------
MutantContainerBindsFirst ==
    <<"Bind", "RemoveOld", "Create", "ConstructMutex", "ConstructObject",
      "Delete">>

\* A container's constructor and destructor in its server ...
ContainerScript ==
    <<"RemoveOld", "Create", "ConstructMutex", "ConstructObject", "Bind",
      "Delete">>

\* ... those of global_sequence and global_clock ...
SequenceScript ==
    <<"Bind", "RemoveOld", "Create", "ConstructObject", "ConstructMutex",
      "Delete">>

\* ... and constructor, one operation and destructor in a client.
ClientScript(c) ==
    IF ServerOnNode[c] THEN <<"Open", "Find", "Call", "Delete">>
                       ELSE <<"Call", "Delete">>

Script(p) ==
    IF p \in Clients THEN ClientScript(p)
    ELSE IF kind = "container" THEN ContainerScript ELSE SequenceScript

Alive(p) == fate[p] = "alive"
Has(p, step) == \E i \in 1 .. at[p] : Script(p)[i] = step
Done(p) == at[p] = Len(Script(p))
AtExit(p) == at[p] >= Len(Script(p)) - 1

\* The barrier between the servers' constructors and the clients'.
MutantMayStart(c) == TRUE
MayStart(p) == p \in Clients /\ barrier => \A s \in node : AtExit(s)

\* p is about to do the step of its script.
At(p, step) == /\ Alive(p) /\ MayStart(p)
               /\ ~Done(p) /\ Script(p)[at[p] + 1] = step

Advance(p) == at' = [at EXCEPT ![p] = @ + 1]

\* The pointers that the server's handlers follow are set.
Ready(s) == Has(s, "ConstructObject") /\ Has(s, "ConstructMutex")

\* Whether c's call needs no RPC, and the process that executes it.
IsLocal(c) == ServerOnNode[c] /\ target[c] = MyServer[c]
Executor(c) == IF IsLocal(c) THEN c ELSE target[c]

TypeOK ==
    /\ program \in Programs
    /\ at \in [Servers \cup Clients -> Nat]
    /\ \A p \in Procs : at[p] <= Len(Script(p))
    /\ fate \in [Servers \cup Clients ->
                    {"alive", "crashed", "construct", "call"}]
    /\ dir \in [Names -> Inodes \cup {None}]
    /\ file \in [Inodes -> FileTypes]
    /\ maps \in [Servers \cup Clients -> Inodes \cup {None}]
    /\ found \in [Clients -> BOOLEAN]
    /\ stage \in [Clients -> {"none", "sent", "entry", "locked", "wild",
                              "returned"}]
    /\ target \in [Clients -> Servers]
    /\ crashes \in 0 .. program.kills

\* What the processes of a job start with.
AllStart == [p \in Servers \cup Clients |-> 0]
AllAlive == [p \in Servers \cup Clients |-> "alive"]
NothingMapped == [p \in Servers \cup Clients |-> None]
NothingFound == [c \in Clients |-> FALSE]
NoCalls == [c \in Clients |-> "none"]

Init ==
    /\ program \in Programs
    /\ at = AllStart /\ fate = AllAlive
    /\ maps = NothingMapped /\ found = NothingFound
    /\ stage = NoCalls /\ target = MyServer
    /\ dir = [n \in Names |-> None]
    /\ file = [i \in Inodes |-> Blank]
    /\ crashes = 0

-----------------------------------------------------------------------------
\* p ends: its mapping goes, and what its threads had locked stays locked.
Die(p, how) ==
    LET held == {c \in Clients : stage[c] = "locked" /\ Executor(c) = p}
    IN  /\ fate' = [fate EXCEPT ![p] = how]
        /\ maps' = [maps EXCEPT ![p] = None]
        /\ file' = [i \in Inodes |->
              [file[i] EXCEPT !.mutex = IF @ \in held THEN Dead ELSE @]]
        /\ stage' = [c \in Clients |->
              IF c = p /\ IsLocal(c) THEN "none" ELSE stage[c]]
        /\ UNCHANGED <<program, at, dir, found, target>>

\* file_mapping::remove(backed_file): other processes keep their mappings.
MutantRemoveOldForgets(s) == At(s, "RemoveOld") /\ Advance(s)
                             /\ UNCHANGED <<program, fate, files, calls, crashes>>

RemoveOld(s) ==
    /\ At(s, "RemoveOld") /\ Advance(s)
    /\ dir' = [dir EXCEPT ![BackedFile(s)] = None]
    /\ UNCHANGED <<program, fate, file, maps, found, calls, crashes>>

\* managed_mapped_file(create_only): throws if the name is taken.
InUse == {i \in Inodes : (\E n \in Names : dir[n] = i)
                         \/ (\E p \in Procs : maps[p] = i)}

Create(s) ==
    LET i == CHOOSE j \in Inodes : j \notin InUse
    IN  /\ At(s, "Create") /\ dir[BackedFile(s)] = None /\ InUse # Inodes
        /\ Advance(s)
        /\ dir' = [dir EXCEPT ![BackedFile(s)] = i]
        /\ file' = [file EXCEPT ![i] = Blank]
        /\ maps' = [maps EXCEPT ![s] = i]
        /\ UNCHANGED <<program, fate, found, calls, crashes>>

CreateThrows(s) ==
    /\ At(s, "Create") /\ dir[BackedFile(s)] # None
    /\ Die(s, "construct") /\ UNCHANGED crashes

\* segment.construct: the mutex and the object, each under its name.
ConstructMutex(s) ==
    /\ At(s, "ConstructMutex") /\ Advance(s)
    /\ file' = [file EXCEPT ![maps[s]].mutex = Free]
    /\ UNCHANGED <<program, fate, dir, maps, found, calls, crashes>>

ConstructObject(s) ==
    /\ At(s, "ConstructObject") /\ Advance(s)
    /\ file' = [file EXCEPT ![maps[s]].object = s]
    /\ UNCHANGED <<program, fate, dir, maps, found, calls, crashes>>

\* rpc->bind: from now on the worker threads call the handlers.
Bind(s) ==
    /\ At(s, "Bind") /\ Advance(s)
    /\ UNCHANGED <<program, fate, files, calls, crashes>>

\* managed_mapped_file(open_only): throws if there is no file of that name.
Open(c) ==
    LET i == dir[BackedFile(MyServer[c])]
    IN  /\ At(c, "Open") /\ i # None
        /\ Advance(c)
        /\ maps' = [maps EXCEPT ![c] = i]
        /\ UNCHANGED <<program, fate, dir, file, found, calls, crashes>>

OpenThrows(c) ==
    /\ At(c, "Open") /\ dir[BackedFile(MyServer[c])] = None
    /\ Die(c, "construct") /\ UNCHANGED crashes

\* segment.find: global_clock's object is "Time" whoever constructed it, the
\* others have their server's index in their names.
MutantFindsObject(c) == file[maps[c]].object # None

FindsObject(c) ==
    IF kind = "clock" THEN file[maps[c]].object # None
                      ELSE file[maps[c]].object = MyServer[c]

Find(c) ==
    /\ At(c, "Find") /\ Advance(c)
    /\ kind = "container" => FindsObject(c)
    /\ found' = [found EXCEPT
          ![c] = FindsObject(c) /\ file[maps[c]].mutex # None]
    /\ UNCHANGED <<program, fate, dir, file, maps, calls, crashes>>

\* A container's constructor calls size() through the pointer.
FindCrashes(c) ==
    /\ At(c, "Find") /\ kind = "container" /\ ~FindsObject(c)
    /\ Die(c, "construct") /\ UNCHANGED crashes

-----------------------------------------------------------------------------
\* c calls an operation whose data are at server s.
Invoke(c) ==
    /\ At(c, "Call") /\ stage[c] = "none"
    /\ \E s \in node : target' = [target EXCEPT ![c] = s]
    /\ IsLocal(c)' => found[c]
    /\ stage' = [stage EXCEPT ![c] = IF IsLocal(c)' THEN "entry" ELSE "sent"]
    /\ UNCHANGED <<program, at, fate, files, crashes>>

\* The pointers of a local operation are null.
InvokeCrashes(c) ==
    /\ At(c, "Call") /\ stage[c] = "none" /\ ServerOnNode[c] /\ ~found[c]
    /\ Die(c, "call") /\ UNCHANGED crashes

\* A worker thread of the server calls the handler, whatever it points to.
Accept(c) ==
    /\ stage[c] = "sent" /\ Alive(target[c]) /\ Has(target[c], "Bind")
    /\ stage' = [stage EXCEPT
          ![c] = IF Ready(target[c]) THEN "entry" ELSE "wild"]
    /\ UNCHANGED <<program, at, fate, files, target, crashes>>

\* No such function, or nobody there: the exception leaves the caller.
Refused(c) ==
    /\ Alive(c) /\ stage[c] \in {"sent", "entry", "locked", "wild"}
    /\ ~IsLocal(c)
    /\ ~Alive(target[c]) \/ (stage[c] = "sent" /\ ~Has(target[c], "Bind"))
    /\ Die(c, "call") /\ UNCHANGED crashes

\* A handler that follows pointers nobody has set: the process dies or the
\* call returns something; what else it may do is not followed up.
WildCrashes(c) ==
    /\ stage[c] = "wild" /\ Alive(target[c])
    /\ Die(target[c], "call") /\ UNCHANGED crashes

WildReturns(c) ==
    /\ stage[c] = "wild" /\ Alive(target[c])
    /\ stage' = [stage EXCEPT ![c] = "returned"]
    /\ UNCHANGED <<program, at, fate, files, target, crashes>>

\* The Local* function of the call: scoped_lock lock(*mutex) to its end.
Lock(c) ==
    LET i == maps[Executor(c)]
    IN  /\ stage[c] = "entry" /\ Alive(Executor(c)) /\ file[i].mutex = Free
        /\ file' = [file EXCEPT ![i].mutex = c]
        /\ stage' = [stage EXCEPT ![c] = "locked"]
        /\ UNCHANGED <<program, at, fate, dir, maps, found, target, crashes>>

Unlock(c) ==
    /\ stage[c] = "locked" /\ Alive(Executor(c))
    /\ file' = [file EXCEPT ![maps[Executor(c)]].mutex = Free]
    /\ stage' = [stage EXCEPT ![c] = "returned"]
    /\ UNCHANGED <<program, at, fate, dir, maps, found, target, crashes>>

Return(c) ==
    /\ stage[c] = "returned" /\ Alive(c) /\ Advance(c)
    /\ stage' = [stage EXCEPT ![c] = "none"]
    /\ target' = [target EXCEPT ![c] = MyServer[c]]
    /\ UNCHANGED <<program, fate, files, crashes>>

-----------------------------------------------------------------------------
\* The destructor, after a barrier of all processes; a server's removes the
\* file of that name.
Delete(p) ==
    /\ At(p, "Delete") /\ \A q \in Procs : AtExit(q)
    /\ Advance(p)
    /\ dir' = IF p \in Clients THEN dir
              ELSE [dir EXCEPT ![BackedFile(p)] = None]
    /\ maps' = [maps EXCEPT ![p] = None]
    /\ UNCHANGED <<program, fate, file, found, calls, crashes>>

\* A process is killed.
Crash(p) ==
    /\ Alive(p) /\ ~Done(p) /\ crashes < program.kills
    /\ Die(p, "crashed")
    /\ crashes' = crashes + 1

\* A process has died, mpirun kills the others, and the job is run again: the
\* linked files are still there, locked where they were locked.
NextJob ==
    /\ \E p \in Procs : ~Alive(p)
    /\ at' = AllStart /\ fate' = AllAlive
    /\ maps' = NothingMapped /\ found' = NothingFound
    /\ stage' = NoCalls /\ target' = MyServer
    /\ file' = [i \in Inodes |->
          IF \E n \in Names : dir[n] = i
          THEN [file[i] EXCEPT !.old = TRUE,
                               !.mutex = IF @ \in Clients THEN Dead ELSE @]
          ELSE Blank]
    /\ UNCHANGED <<program, dir, crashes>>

ServerStep(s) ==
    \/ RemoveOld(s) \/ Create(s) \/ CreateThrows(s)
    \/ ConstructMutex(s) \/ ConstructObject(s) \/ Bind(s) \/ Delete(s)

ClientStep(c) ==
    \/ Open(c) \/ OpenThrows(c) \/ Find(c) \/ FindCrashes(c)
    \/ Invoke(c) \/ InvokeCrashes(c) \/ Refused(c) \/ Return(c) \/ Delete(c)

\* A worker thread's steps, or the caller's own when its call is local.
CallStep(c) ==
    Accept(c) \/ WildCrashes(c) \/ WildReturns(c) \/ Lock(c) \/ Unlock(c)

Next ==
    \/ \E s \in node : ServerStep(s)
    \/ \E c \in Clients : ClientStep(c) \/ CallStep(c)
    \/ \E p \in Procs : Crash(p)
    \/ NextJob

\* Processes and worker threads run on, and mpirun ends a job that has lost a
\* process.  Nothing has to crash.
Fairness ==
    /\ \A s \in Servers : WF_vars(s \in node /\ ServerStep(s))
    /\ \A c \in Clients : WF_vars(ClientStep(c)) /\ WF_vars(CallStep(c))
    /\ WF_vars(NextJob)

Spec == Init /\ [][Next]_vars /\ Fairness

-----------------------------------------------------------------------------
\* No two servers of the node use one file.
Distinct == kind = "container" \/ Cardinality(node) = 1

\* With the tests' barrier every constructor succeeds over whatever earlier
\* jobs have left, and no call fails unless a process was killed in this job.
\* Containers with several servers on a node are included (the comment at
\* unordered_map.cpp:47), global_sequence and global_clock only with one.
NobodyFails ==
    barrier /\ Distinct =>
        \A p \in Procs :
            /\ fate[p] # "construct"
            /\ fate[p] = "call" => \E q \in Procs : fate[q] = "crashed"

\* No handler runs before the constructor has set the pointers it follows:
\* containers bind last and need no barrier for it, global_sequence
\* (global_sequence.cpp:48) and global_clock (global_clock.cpp:52) do.
HandlersFindState ==
    kind = "container" \/ barrier => \A c \in Clients : stage[c] # "wild"

\* A client that constructs over a file of this node works on the very file
\* its server works on, never on one of an earlier job or of another server;
\* of global_clock only one server may be on the node.
ClientsMeetServer ==
    barrier /\ (kind = "clock" => Cardinality(node) = 1) =>
        \A c \in Clients : found[c] /\ maps[c] # None =>
            /\ file[maps[c]].object = MyServer[c] /\ ~file[maps[c]].old
            /\ maps[MyServer[c]] \in {maps[c], None}

\* A lock whose holder has died stops nobody in a later job: as long as nobody
\* is killed in this one, no mutex that anybody has mapped is held by the dead.
NoStaleLock ==
    barrier /\ (\A p \in Procs : fate[p] # "crashed") =>
        \A p \in Procs : maps[p] # None => file[maps[p]].mutex # Dead

(***************************************************************************)
(* Why.  A call is made where the script says so, to a server of the node, *)
(* and after the barrier, if there is one (CallsInPlace, AfterBarrier);    *)
(* two names never lead to one file (LinksDiffer); what a process of this  *)
(* job has linked or mapped is a file of this job, and the object in it is *)
(* there because its server has just constructed it in the file that it    *)
(* has mapped (FilesAreNew, ObjectsAreNew).  Where servers do not share a  *)
(* file name, what a server has constructed stays linked under its name    *)
(* until all are at their exits, and the clients find it (DeleteTogether,  *)
(* Serving, Attached).                                                     *)
(***************************************************************************)
CallsInPlace ==
    \A c \in Clients : stage[c] # "none" =>
        /\ ~Done(c) /\ Script(c)[at[c] + 1] = "Call"
        /\ target[c] \in node

AfterBarrier ==
    barrier => \A c \in Clients : at[c] > 0 \/ stage[c] # "none" =>
        \A s \in node : AtExit(s)

DeleteTogether == \A p \in Procs : Done(p) => \A q \in Procs : AtExit(q)

MappedByOpen ==
    \A c \in Clients :
        /\ maps[c] # None => ServerOnNode[c] /\ Has(c, "Open")
        /\ found[c] => Has(c, "Find")

LinksDiffer == \A m, n \in Names : dir[m] = dir[n] => m = n \/ dir[m] = None

FilesAreNew ==
    /\ \A s \in node :
          /\ maps[s] # None => Has(s, "Create") /\ ~file[maps[s]].old
          /\ LET i == dir[BackedFile(s)]
             IN  Has(s, "RemoveOld") /\ i # None => ~file[i].old
    /\ barrier => \A c \in Clients : maps[c] # None => ~file[maps[c]].old

ObjectsAreNew ==
    \A i \in Inodes : LET s == file[i].object IN
        ~file[i].old /\ s # None =>
            s \in node /\ Has(s, "ConstructObject") /\ maps[s] \in {i, None}

FoundIsOwn ==
    barrier /\ (kind = "clock" => Cardinality(node) = 1) =>
        \A c \in Clients : found[c] /\ maps[c] # None =>
            file[maps[c]].object = MyServer[c]

NoDeadLocks ==
    barrier /\ (\A p \in Procs : fate[p] # "crashed") =>
        \A i \in Inodes : ~file[i].old => file[i].mutex # Dead

Serving ==
    \A s \in node : LET i == dir[BackedFile(s)] IN
        /\ Has(s, "RemoveOld") /\ ~Has(s, "Create") => i = None
        /\ Has(s, "Create") /\ ~Done(s) =>
              /\ i # None /\ (Alive(s) => maps[s] = i)
              /\ Has(s, "ConstructObject") => file[i].object = s
              /\ Has(s, "ConstructMutex") => file[i].mutex # None

Attached ==
    \A c \in Clients : ServerOnNode[c] /\ Alive(c) =>
        /\ Has(c, "Open") /\ ~AtExit(c) => maps[c] = dir[BackedFile(MyServer[c])]
        /\ Has(c, "Find") => found[c]

IndInv ==
    /\ TypeOK /\ CallsInPlace /\ AfterBarrier /\ DeleteTogether
    /\ MappedByOpen /\ LinksDiffer /\ FilesAreNew /\ ObjectsAreNew /\ FoundIsOwn /\ NoDeadLocks
    /\ HandlersFindState /\ NobodyFails
    /\ barrier /\ Distinct => Serving /\ Attached

\* However often processes are killed, a later job runs to its end and the
\* directory is empty then.
Recovers ==
    barrier /\ Distinct =>
        <>(/\ \A p \in Procs : Done(p)
           /\ \A n \in Names : dir[n] = None)

=============================================================================
