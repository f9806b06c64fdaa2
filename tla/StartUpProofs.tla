---------------------------- MODULE StartUpProofs ----------------------------
(***************************************************************************)
(* Theorems about StartUp, for any number of servers and clients, any      *)
(* placement of them, any number of killed processes and of jobs.          *)
(***************************************************************************)
EXTENDS StartUp, FiniteSetTheorems, TLAPS

\* The places of the steps in a container's script ...
LEMMA ContainerPlaces ==
    /\ Len(ContainerScript) = 6
    /\ \A n \in Nat :
          /\ (\E i \in 1 .. n : ContainerScript[i] = "RemoveOld") <=> n >= 1
          /\ (\E i \in 1 .. n : ContainerScript[i] = "Create") <=> n >= 2
          /\ (\E i \in 1 .. n : ContainerScript[i] = "ConstructMutex") <=> n >= 3
          /\ (\E i \in 1 .. n : ContainerScript[i] = "ConstructObject") <=> n >= 4
          /\ (\E i \in 1 .. n : ContainerScript[i] = "Bind") <=> n >= 5
          /\ n < 6 => /\ ContainerScript[n + 1] = "RemoveOld" <=> n = 0
                      /\ ContainerScript[n + 1] = "Create" <=> n = 1
                      /\ ContainerScript[n + 1] = "ConstructMutex" <=> n = 2
                      /\ ContainerScript[n + 1] = "ConstructObject" <=> n = 3
                      /\ ContainerScript[n + 1] = "Bind" <=> n = 4
                      /\ ContainerScript[n + 1] = "Delete" <=> n = 5
  BY DEF ContainerScript

\* ... in that of global_sequence and global_clock ...
LEMMA SequencePlaces ==
    /\ Len(SequenceScript) = 6
    /\ \A n \in Nat :
          /\ (\E i \in 1 .. n : SequenceScript[i] = "Bind") <=> n >= 1
          /\ (\E i \in 1 .. n : SequenceScript[i] = "RemoveOld") <=> n >= 2
          /\ (\E i \in 1 .. n : SequenceScript[i] = "Create") <=> n >= 3
          /\ (\E i \in 1 .. n : SequenceScript[i] = "ConstructObject") <=> n >= 4
          /\ (\E i \in 1 .. n : SequenceScript[i] = "ConstructMutex") <=> n >= 5
          /\ n < 6 => /\ SequenceScript[n + 1] = "Bind" <=> n = 0
                      /\ SequenceScript[n + 1] = "RemoveOld" <=> n = 1
                      /\ SequenceScript[n + 1] = "Create" <=> n = 2
                      /\ SequenceScript[n + 1] = "ConstructObject" <=> n = 3
                      /\ SequenceScript[n + 1] = "ConstructMutex" <=> n = 4
                      /\ SequenceScript[n + 1] = "Delete" <=> n = 5
  BY DEF SequenceScript

\* ... and in a client's, with the file mapped ...
MappedScript == <<"Open", "Find", "Call", "Delete">>

LEMMA MappedPlaces ==
    /\ Len(MappedScript) = 4
    /\ \A n \in Nat :
          /\ (\E i \in 1 .. n : MappedScript[i] = "Open") <=> n >= 1
          /\ (\E i \in 1 .. n : MappedScript[i] = "Find") <=> n >= 2
          /\ n < 4 => /\ MappedScript[n + 1] = "Open" <=> n = 0
                      /\ MappedScript[n + 1] = "Find" <=> n = 1
                      /\ MappedScript[n + 1] = "Call" <=> n = 2
                      /\ MappedScript[n + 1] = "Delete" <=> n = 3
  BY DEF MappedScript

\* ... and without.
RemoteScript == <<"Call", "Delete">>

LEMMA RemotePlaces ==
    /\ Len(RemoteScript) = 2
    /\ \A n \in 0 .. 2 :
          /\ ~\E i \in 1 .. n : RemoteScript[i] = "Open"
          /\ ~\E i \in 1 .. n : RemoteScript[i] = "Find"
          /\ n < 2 => /\ RemoteScript[n + 1] \notin {"Open", "Find"}
                      /\ RemoteScript[n + 1] = "Call" <=> n = 0
                      /\ RemoteScript[n + 1] = "Delete" <=> n = 1
  BY DEF RemoteScript

-----------------------------------------------------------------------------
\* What a server has done, as a number.
ServerFacts(s) ==
    /\ s \in Servers /\ s \notin Clients /\ at[s] \in 0 .. 6
    /\ Len(Script(s)) = 6
    /\ AtExit(s) <=> at[s] >= 5
    /\ Done(s) <=> at[s] = 6
    /\ Has(s, "ConstructObject") <=> at[s] >= 4
    /\ kind = "container" =>
          /\ Has(s, "RemoveOld") <=> at[s] >= 1
          /\ Has(s, "Create") <=> at[s] >= 2
          /\ Has(s, "ConstructMutex") <=> at[s] >= 3
          /\ Has(s, "Bind") <=> at[s] >= 5
    /\ kind # "container" =>
          /\ Has(s, "RemoveOld") <=> at[s] >= 2
          /\ Has(s, "Create") <=> at[s] >= 3
          /\ Has(s, "ConstructMutex") <=> at[s] >= 5
          /\ Has(s, "Bind") <=> at[s] >= 1

LEMMA ServerPlaces == TypeOK => \A s \in node : ServerFacts(s)
  <1> SUFFICES ASSUME TypeOK, NEW s \in node PROVE ServerFacts(s)
    OBVIOUS
  <1>1. /\ s \in Servers /\ s \notin Clients /\ s \in Procs /\ at[s] \in Nat
        /\ at[s] <= Len(Script(s))
    BY ProcessesAssumption DEF TypeOK, node, Procs
  <1>2. CASE kind = "container"
    <2>1. Script(s) = ContainerScript
      BY <1>1, <1>2 DEF Script
    <2> QED
      BY <1>1, <1>2, <2>1, ContainerPlaces DEF ServerFacts, AtExit, Done, Has
  <1>3. CASE kind # "container"
    <2>1. Script(s) = SequenceScript
      BY <1>1, <1>3 DEF Script
    <2> QED
      BY <1>1, <1>3, <2>1, SequencePlaces DEF ServerFacts, AtExit, Done, Has
  <1> QED
    BY <1>2, <1>3

LEMMA ServerPlacesNext == TypeOK' => (\A s \in node : ServerFacts(s))'
  BY ServerPlaces, PTL

\* What a server is about to do.
LEMMA ServerAt ==
    ASSUME TypeOK, NEW s \in node
    PROVE  /\ At(s, "RemoveOld") =>
                Alive(s) /\ at[s] = IF kind = "container" THEN 0 ELSE 1
           /\ At(s, "Create") =>
                Alive(s) /\ at[s] = IF kind = "container" THEN 1 ELSE 2
           /\ At(s, "ConstructMutex") =>
                Alive(s) /\ at[s] = IF kind = "container" THEN 2 ELSE 4
           /\ At(s, "ConstructObject") => Alive(s) /\ at[s] = 3
           /\ At(s, "Bind") =>
                Alive(s) /\ at[s] = IF kind = "container" THEN 4 ELSE 0
           /\ At(s, "Delete") => Alive(s) /\ at[s] = 5
  <1>1. ServerFacts(s)
    BY ServerPlaces
  <1>2. at[s] # Len(Script(s)) => at[s] < 6 /\ at[s] \in Nat
    BY <1>1 DEF ServerFacts
  <1>3. CASE kind = "container"
    <2>1. Script(s) = ContainerScript
      BY <1>1, <1>3 DEF Script, ServerFacts
    <2> QED
      BY <1>2, <1>3, <2>1, ContainerPlaces DEF At, Done
  <1>4. CASE kind # "container"
    <2>1. Script(s) = SequenceScript
      BY <1>1, <1>4 DEF Script, ServerFacts
    <2> QED
      BY <1>2, <1>4, <2>1, SequencePlaces DEF At, Done
  <1> QED
    BY <1>3, <1>4

\* What a client has done.
ClientFacts(c) ==
    /\ c \notin Servers /\ Len(Script(c)) = IF ServerOnNode[c] THEN 4 ELSE 2
    /\ at[c] \in 0 .. Len(Script(c))
    /\ AtExit(c) <=> at[c] >= IF ServerOnNode[c] THEN 3 ELSE 1
    /\ Done(c) <=> at[c] = Len(Script(c))
    /\ Has(c, "Open") <=> ServerOnNode[c] /\ at[c] >= 1
    /\ Has(c, "Find") <=> ServerOnNode[c] /\ at[c] >= 2
    /\ ~Done(c) /\ Script(c)[at[c] + 1] = "Call"
          <=> at[c] = IF ServerOnNode[c] THEN 2 ELSE 0

LEMMA ClientPlace == TypeOK => \A c \in Clients : ClientFacts(c)
  <1> SUFFICES ASSUME TypeOK, NEW c \in Clients PROVE ClientFacts(c)
    OBVIOUS
  <1>1. /\ c \notin Servers /\ at[c] \in Nat /\ at[c] <= Len(Script(c))
    BY ProcessesAssumption DEF TypeOK, Procs
  <1>2. CASE ServerOnNode[c]
    <2>1. Script(c) = MappedScript
      BY <1>2 DEF Script, ClientScript, MappedScript
    <2> QED
      BY <1>1, <1>2, <2>1, MappedPlaces DEF ClientFacts, AtExit, Done, Has
  <1>3. CASE ~ServerOnNode[c]
    <2>1. Script(c) = RemoteScript
      BY <1>3 DEF Script, ClientScript, RemoteScript
    <2>2. at[c] \in 0 .. 2
      BY <1>1, <2>1, RemotePlaces
    <2> QED
      BY <1>1, <1>3, <2>1, <2>2, RemotePlaces DEF ClientFacts, AtExit, Done, Has
  <1> QED
    BY <1>2, <1>3

LEMMA ClientPlaceNext == TypeOK' => (\A c \in Clients : ClientFacts(c))'
  BY ClientPlace, PTL

\* What a client is about to do.
LEMMA ClientAt ==
    ASSUME TypeOK, NEW c \in Clients
    PROVE  /\ At(c, "Open") => Alive(c) /\ MayStart(c) /\ ServerOnNode[c] /\ at[c] = 0
           /\ At(c, "Find") => Alive(c) /\ MayStart(c) /\ ServerOnNode[c] /\ at[c] = 1
           /\ At(c, "Call") => /\ Alive(c) /\ MayStart(c)
                               /\ at[c] = IF ServerOnNode[c] THEN 2 ELSE 0
           /\ At(c, "Delete") => /\ Alive(c) /\ MayStart(c)
                                 /\ at[c] = IF ServerOnNode[c] THEN 3 ELSE 1
  <1>1. ClientFacts(c)
    BY ClientPlace
  <1>2. CASE ServerOnNode[c]
    <2>1. Script(c) = MappedScript
      BY <1>2 DEF Script, ClientScript, MappedScript
    <2> QED
      BY <1>1, <1>2, <2>1, MappedPlaces DEF ClientFacts, At, Done
  <1>3. CASE ~ServerOnNode[c]
    <2>1. Script(c) = RemoteScript
      BY <1>3 DEF Script, ClientScript, RemoteScript
    <2>2. at[c] \in 0 .. 2 /\ (~Done(c) => at[c] < 2)
      BY <1>1, <1>3, <2>1, RemotePlaces DEF ClientFacts
    <2> QED
      BY <1>1, <1>3, <2>1, <2>2, RemotePlaces DEF At
  <1> QED
    BY <1>2, <1>3

-----------------------------------------------------------------------------
\* The program does not change, and with it neither do the scripts.
LEMMA SameProgram ==
    ASSUME program' = program
    PROVE  /\ kind' = kind /\ node' = node /\ barrier' = barrier
           /\ Procs' = Procs /\ Distinct' = Distinct
           /\ \A p : Script(p)' = Script(p)
           /\ \A s : BackedFile(s)' = BackedFile(s)
  BY DEF kind, node, barrier, Procs, Distinct, Script, BackedFile

LEMMA ProgramTypes ==
    ASSUME TypeOK
    PROVE  /\ kind \in {"container", "sequence", "clock"}
           /\ node \subseteq Servers /\ barrier \in BOOLEAN
           /\ program.kills \in Nat /\ Procs \subseteq Servers \cup Clients
           /\ \A s \in Servers : BackedFile(s) \in Names
           /\ \A c \in Clients : ServerOnNode[c] => MyServer[c] \in node
           /\ MyServer \in [Clients -> Servers]
           /\ ServerOnNode \in [Clients -> BOOLEAN]
  <1>1. program \in [kind : {"container", "sequence", "clock"},
                     node : SUBSET Servers, barrier : BOOLEAN, kills : Nat]
    BY ProcessesAssumption DEF TypeOK
  <1> QED
    BY <1>1, ProcessesAssumption
    DEF TypeOK, kind, node, barrier, Procs, BackedFile, Names

LEMMA SingleServer ==
    ASSUME TypeOK, Cardinality(node) = 1
    PROVE  \E x : node = {x}
  <1>1. IsFiniteSet(node)
    BY ProgramTypes, ProcessesAssumption, FS_Subset
  <1> QED
    BY <1>1, FS_Singleton

\* The deaths: what each of them has in common with the others.
Death ==
    \E p \in Procs, how \in {"crashed", "construct", "call"} :
        /\ Alive(p) /\ Die(p, how)
        /\ crashes' \in {crashes, crashes + 1} /\ crashes' <= program.kills

\* The step of a server's constructor, but for those that fail.
Construct(s) ==
    RemoveOld(s) \/ Create(s) \/ ConstructMutex(s) \/ ConstructObject(s) \/ Bind(s)

\* The constructor and the calls of a client.
Use(c) == \/ Open(c) \/ Find(c) \/ Invoke(c) \/ Return(c)
          \/ Accept(c) \/ WildReturns(c) \/ Lock(c) \/ Unlock(c)

\* A constructor or a call that fails.
Failure ==
    \/ \E s \in node : CreateThrows(s)
    \/ \E c \in Clients : \/ OpenThrows(c) \/ FindCrashes(c)
                          \/ InvokeCrashes(c) \/ Refused(c) \/ WildCrashes(c)

LEMMA StepsInDetail ==
    ASSUME Next
    PROVE  \/ Failure \/ (\E p \in Procs : Crash(p)) \/ NextJob
           \/ \E s \in node : Construct(s) \/ Delete(s)
           \/ \E c \in Clients : Use(c) \/ Delete(c)
  BY DEF Next, ServerStep, ClientStep, CallStep, Construct, Use, Failure

LEMMA Steps ==
    ASSUME TypeOK, CallsInPlace, Next
    PROVE  \/ Death \/ NextJob
           \/ \E s \in node : Construct(s) \/ Delete(s)
           \/ \E c \in Clients : Use(c) \/ Delete(c)
  <1>1. /\ crashes \in Nat /\ program.kills \in Nat /\ crashes <= program.kills
        /\ node \subseteq Procs /\ Clients \subseteq Procs
    BY ProgramTypes DEF TypeOK, Procs
  <1>2. ASSUME NEW s \in node, CreateThrows(s) PROVE Death
    BY <1>1, <1>2 DEF CreateThrows, At, Death
  <1>3. ASSUME NEW c \in Clients,
               OpenThrows(c) \/ FindCrashes(c) \/ InvokeCrashes(c) \/ Refused(c)
        PROVE  Death
    BY <1>1, <1>3
    DEF OpenThrows, FindCrashes, InvokeCrashes, Refused, At, Death
  <1>4. ASSUME NEW c \in Clients, WildCrashes(c) PROVE Death
    BY <1>1, <1>4 DEF WildCrashes, CallsInPlace, Death
  <1>5. ASSUME NEW p \in Procs, Crash(p) PROVE Death
    BY <1>1, <1>5 DEF Crash, Death
  <1> QED
    BY <1>2, <1>3, <1>4, <1>5, StepsInDetail DEF Failure

-----------------------------------------------------------------------------
\* The file that create_only makes is a new one.
FreshFile == CHOOSE j \in Inodes : j \notin InUse

LEMMA FreshInode ==
    ASSUME InUse # Inodes
    PROVE  FreshFile \in Inodes /\ FreshFile \notin InUse
  <1>1. \E j \in Inodes : j \notin InUse
    BY DEF InUse
  <1> QED
    BY <1>1 DEF FreshFile

\* Every step keeps the types.
LEMMA TypeAdvance ==
    ASSUME TypeOK, NEW p \in Procs, at[p] # Len(Script(p)), Advance(p),
           program' = program
    PROVE  /\ at' \in [Servers \cup Clients -> Nat]
           /\ \A q \in Procs' : at'[q] <= Len(Script(q))'
  <1>1. p \in Servers \cup Clients
    BY ProgramTypes
  <1>2. Len(Script(p)) \in Nat
    BY ServerPlaces, ClientPlace DEF ServerFacts, ClientFacts, Procs
  <1> QED
    BY <1>1, <1>2, SameProgram DEF TypeOK, Advance

LEMMA DeathType == TypeOK /\ Death => TypeOK'
  <1> SUFFICES ASSUME TypeOK,
                      NEW p \in Procs, NEW how \in {"crashed", "construct", "call"},
                      Die(p, how), crashes' \in {crashes, crashes + 1},
                      crashes' <= program.kills
               PROVE  TypeOK'
    BY DEF Death
  <1> USE DEF TypeOK, Die
  <1>1. p \in Servers \cup Clients
    BY ProgramTypes
  <1>2. \A f \in FileTypes, m \in Clients \cup {Free, Dead, None} :
           [f EXCEPT !.mutex = m] \in FileTypes
    BY DEF FileTypes
  <1>3. \A f \in FileTypes : f.mutex \in Clients \cup {Free, Dead, None}
    BY DEF FileTypes
  <1>4. file' \in [Inodes -> FileTypes]
    <2>1. ASSUME NEW i \in Inodes, NEW held
          PROVE  [file[i] EXCEPT !.mutex = IF @ \in held THEN Dead ELSE @] \in FileTypes
      BY <1>2, <1>3
    <2> QED
      BY <2>1
  <1>5. \A q \in Procs' : at'[q] <= Len(Script(q))'
    BY SameProgram
  <1>6. crashes' \in 0 .. program.kills
    BY ProgramTypes
  <1> QED
    BY <1>1, <1>4, <1>5, <1>6

LEMMA ConstructType ==
    ASSUME TypeOK, NEW s \in node, Construct(s)
    PROVE  TypeOK'
  <1>1. /\ s \in Servers /\ s \in Procs /\ at[s] # Len(Script(s))
        /\ BackedFile(s) \in Names
    BY ServerPlaces, ProgramTypes
    DEF ServerFacts, Procs, Construct, RemoveOld, Create, ConstructMutex,
        ConstructObject, Bind, At, Done
  <1>2. Advance(s) /\ program' = program
    BY DEF Construct, RemoveOld, Create, ConstructMutex, ConstructObject, Bind
  <1>3. /\ at' \in [Servers \cup Clients -> Nat]
        /\ \A q \in Procs' : at'[q] <= Len(Script(q))'
    BY <1>1, <1>2, TypeAdvance
  <1> USE DEF TypeOK, files, calls
  <1>4. CASE RemoveOld(s)
    BY <1>1, <1>3, <1>4 DEF RemoveOld
  <1>5. CASE Create(s)
    <2>1. /\ dir' = [dir EXCEPT ![BackedFile(s)] = FreshFile]
          /\ file' = [file EXCEPT ![FreshFile] = Blank]
          /\ maps' = [maps EXCEPT ![s] = FreshFile]
          /\ UNCHANGED <<program, fate, found, calls, crashes>>
      BY <1>5 DEF Create, FreshFile
    <2>2. Blank \in FileTypes
      BY DEF Blank, FileTypes
    <2>3. FreshFile \in Inodes
      BY <1>5, FreshInode DEF Create
    <2> QED
      BY <1>1, <1>3, <2>1, <2>2, <2>3
  <1>6. CASE ConstructMutex(s)
    <2>1. \A f \in FileTypes : [f EXCEPT !.mutex = Free] \in FileTypes
      BY DEF FileTypes
    <2>2. file' = [file EXCEPT ![maps[s]] = [file[maps[s]] EXCEPT !.mutex = Free]]
      BY <1>6 DEF ConstructMutex
    <2>3. file' \in [Inodes -> FileTypes]
      BY <2>1, <2>2
    <2> QED
      BY <1>3, <1>6, <2>3 DEF ConstructMutex
  <1>7. CASE ConstructObject(s)
    <2>1. \A f \in FileTypes : [f EXCEPT !.object = s] \in FileTypes
      BY <1>1 DEF FileTypes
    <2>2. file' = [file EXCEPT ![maps[s]] = [file[maps[s]] EXCEPT !.object = s]]
      BY <1>7 DEF ConstructObject
    <2>3. file' \in [Inodes -> FileTypes]
      BY <2>1, <2>2
    <2> QED
      BY <1>3, <1>7, <2>3 DEF ConstructObject
  <1>8. CASE Bind(s)
    BY <1>3, <1>8 DEF Bind
  <1> QED
    BY <1>4, <1>5, <1>6, <1>7, <1>8 DEF Construct

LEMMA DeleteType ==
    ASSUME TypeOK, NEW p \in Procs, Delete(p)
    PROVE  TypeOK'
  <1>1. p \in Servers \cup Clients /\ (p \notin Clients => BackedFile(p) \in Names)
    BY ProgramTypes
  <1>2. at[p] # Len(Script(p)) /\ Advance(p) /\ program' = program
    BY DEF Delete, At, Done
  <1>3. /\ at' \in [Servers \cup Clients -> Nat]
        /\ \A q \in Procs' : at'[q] <= Len(Script(q))'
    BY <1>2, TypeAdvance
  <1> QED
    BY <1>1, <1>3 DEF TypeOK, calls, Delete

LEMMA UseType ==
    ASSUME TypeOK, CallsInPlace, NEW c \in Clients, Use(c)
    PROVE  TypeOK'
  <1> USE DEF TypeOK, files, calls
  <1>0. /\ c \in Procs /\ node \subseteq Servers /\ MyServer[c] \in Servers
        /\ (ServerOnNode[c] => BackedFile(MyServer[c]) \in Names)
        /\ program' = program
    BY ProgramTypes
    DEF Procs, Use, Open, Find, Invoke, Return, Accept, WildReturns, Lock, Unlock
  <1>1. ASSUME Open(c) \/ Find(c) \/ Return(c)
        PROVE  /\ at' \in [Servers \cup Clients -> Nat]
               /\ \A q \in Procs' : at'[q] <= Len(Script(q))'
    <2>1. at[c] # Len(Script(c)) /\ Advance(c)
      BY <1>1 DEF Open, Find, Return, At, Done, CallsInPlace
    <2> QED
      BY <1>0, <2>1, TypeAdvance
  <1>2. ASSUME at' = at
        PROVE  /\ at' \in [Servers \cup Clients -> Nat]
               /\ \A q \in Procs' : at'[q] <= Len(Script(q))'
    BY <1>0, <1>2, SameProgram
  <1>3. CASE Open(c)
    <2>1. dir[BackedFile(MyServer[c])] \in Inodes
      BY <1>0, <1>3, ClientAt DEF Open
    <2> QED
      BY <1>1, <1>3, <2>1 DEF Open
  <1>4. CASE Find(c)
    <2>1. (FindsObject(c) /\ file[maps[c]].mutex # None) \in BOOLEAN
      BY DEF FindsObject
    <2> QED
      BY <1>1, <1>4, <2>1 DEF Find
  <1>5. CASE Invoke(c)
    BY <1>0, <1>2, <1>5 DEF Invoke
  <1>6. CASE Return(c)
    BY <1>0, <1>1, <1>6 DEF Return
  <1>7. CASE Accept(c) \/ WildReturns(c)
    BY <1>2, <1>7 DEF Accept, WildReturns
  <1>8. ASSUME NEW m \in Clients \cup {Free},
               file' = [file EXCEPT ![maps[Executor(c)]] =
                          [file[maps[Executor(c)]] EXCEPT !.mutex = m]]
        PROVE  file' \in [Inodes -> FileTypes]
    <2>1. \A f \in FileTypes : [f EXCEPT !.mutex = m] \in FileTypes
      BY DEF FileTypes
    <2> QED
      BY <1>8, <2>1
  <1>9. CASE Lock(c)
    BY <1>2, <1>8, <1>9 DEF Lock
  <1>10. CASE Unlock(c)
    BY <1>2, <1>8, <1>10 DEF Unlock
  <1> QED
    BY <1>3, <1>4, <1>5, <1>6, <1>7, <1>9, <1>10 DEF Use

LEMMA NextJobType == TypeOK /\ NextJob => TypeOK'
  <1> SUFFICES ASSUME TypeOK, NextJob PROVE TypeOK'
    OBVIOUS
  <1>1. /\ at' = AllStart /\ fate' = AllAlive /\ maps' = NothingMapped
        /\ found' = NothingFound /\ stage' = NoCalls /\ target' = MyServer
        /\ program' = program /\ dir' = dir /\ crashes' = crashes
    BY DEF NextJob
  <1>2. \A f \in FileTypes, m \in Clients \cup {Free, Dead, None} :
           [f EXCEPT !.old = TRUE, !.mutex = m] \in FileTypes
    BY DEF FileTypes
  <1>3. Blank \in FileTypes /\ \A f \in FileTypes : f.mutex \in Clients \cup {Free, Dead, None}
    BY DEF Blank, FileTypes
  <1>4. file' \in [Inodes -> FileTypes]
    <2>1. ASSUME NEW i \in Inodes
          PROVE  [file[i] EXCEPT !.old = TRUE,
                                 !.mutex = IF @ \in Clients THEN Dead ELSE @] \in FileTypes
      BY <1>2, <1>3 DEF TypeOK
    <2> QED
      BY <1>3, <2>1 DEF NextJob
  <1>5. \A p \in Procs : AllStart[p] <= Len(Script(p))
    <2>1. ASSUME NEW p \in Procs PROVE Len(Script(p)) \in Nat /\ AllStart[p] = 0
      BY ServerPlaces, ClientPlace, ProgramTypes
      DEF ServerFacts, ClientFacts, Procs, AllStart
    <2> QED
      BY <2>1
  <1>6. \A q \in Procs' : at'[q] <= Len(Script(q))'
    BY <1>1, <1>5, SameProgram
  <1> QED
    BY <1>1, <1>4, <1>6, ProgramTypes
    DEF TypeOK, AllStart, AllAlive, NothingMapped, NothingFound, NoCalls

LEMMA TypeStep == TypeOK /\ CallsInPlace /\ Next => TypeOK'
  BY Steps, DeathType, NextJobType, ConstructType, DeleteType, UseType DEF Procs

-----------------------------------------------------------------------------
\* What a death leaves alone.
LEMMA DeathFrame ==
    ASSUME TypeOK, Death
    PROVE  /\ UNCHANGED <<program, at, dir, found, target>>
           /\ \A q \in Servers \cup Clients :
                 /\ maps'[q] \in {maps[q], None}
                 /\ fate'[q] = "alive" => fate[q] = "alive" /\ maps'[q] = maps[q]
           /\ \A c \in Clients : stage'[c] \in {stage[c], "none"}
           /\ \A i \in Inodes : /\ file'[i].object = file[i].object
                                /\ file'[i].old = file[i].old
  <1>1. PICK p \in Procs, how \in {"crashed", "construct", "call"} :
           Alive(p) /\ Die(p, how)
    BY DEF Death
  <1>2. p \in Servers \cup Clients
    BY ProgramTypes
  <1>3. ASSUME NEW i \in Inodes
        PROVE  file'[i].object = file[i].object /\ file'[i].old = file[i].old
    BY <1>1 DEF Die, TypeOK, FileTypes
  <1> QED
    BY <1>1, <1>2, <1>3 DEF Die, TypeOK

\* What a client's step leaves alone.
LEMMA UseFrame ==
    ASSUME TypeOK, CallsInPlace, NEW c \in Clients, Use(c)
    PROVE  /\ UNCHANGED <<program, fate, dir, crashes>>
           /\ \A q \in (Servers \cup Clients) \ {c} :
                 at'[q] = at[q] /\ maps'[q] = maps[q]
           /\ \A d \in Clients \ {c} : /\ stage'[d] = stage[d]
                                       /\ target'[d] = target[d]
                                       /\ found'[d] = found[d]
           /\ \A i \in Inodes : /\ file'[i].object = file[i].object
                                /\ file'[i].old = file[i].old
           /\ Lock(c) \/ Unlock(c) \/ file' = file
           /\ Open(c) \/ maps' = maps
           /\ Find(c) \/ found' = found
           /\ Open(c) \/ Find(c) \/ Return(c) \/ at' = at
           /\ Invoke(c) \/ Return(c) \/ target' = target
  <1>1. CASE Open(c) \/ Find(c)
    BY <1>1 DEF Open, Find, Advance, TypeOK, calls
  <1>2. CASE Invoke(c) \/ Accept(c) \/ WildReturns(c)
    BY <1>2 DEF Invoke, Accept, WildReturns, files, TypeOK
  <1>3. CASE Return(c)
    BY <1>3 DEF Return, Advance, files, TypeOK
  <1>4. CASE Lock(c)
    <2>1. \A i \in Inodes : /\ file'[i].object = file[i].object
                            /\ file'[i].old = file[i].old
      BY <1>4 DEF Lock, TypeOK, FileTypes
    <2> QED
      BY <1>4, <2>1 DEF Lock, TypeOK
  <1>5. CASE Unlock(c)
    <2>1. \A i \in Inodes : /\ file'[i].object = file[i].object
                            /\ file'[i].old = file[i].old
      BY <1>5 DEF Unlock, TypeOK, FileTypes
    <2> QED
      BY <1>5, <2>1 DEF Unlock, TypeOK
  <1> QED
    BY <1>1, <1>2, <1>3, <1>4, <1>5 DEF Use

\* What a server's constructor leaves alone.
LEMMA ConstructFrame ==
    ASSUME TypeOK, NEW s \in node, Construct(s)
    PROVE  /\ UNCHANGED <<program, fate, found, stage, target, crashes>>
           /\ s \in Servers /\ at[s] \in Nat /\ at[s] < 5 /\ at'[s] = at[s] + 1
           /\ \A q \in (Servers \cup Clients) \ {s} :
                 at'[q] = at[q] /\ maps'[q] = maps[q]
           /\ RemoveOld(s) \/ Create(s) \/ dir' = dir
           /\ Create(s) \/ maps' = maps
           /\ Create(s) \/ ConstructMutex(s) \/ ConstructObject(s) \/ file' = file
           /\ ~Create(s) => \A i \in Inodes : file'[i].old = file[i].old
           /\ ~Create(s) /\ ~ConstructObject(s) =>
                 \A i \in Inodes : file'[i].object = file[i].object
  <1>1. s \in Servers /\ at[s] < 5 /\ at[s] \in Nat
    BY ServerPlaces, ServerAt
    DEF ServerFacts, Construct, RemoveOld, Create, ConstructMutex, ConstructObject, Bind
  <1>a. at'[s] = at[s] + 1 /\ \A q \in (Servers \cup Clients) \ {s} : at'[q] = at[q]
    BY <1>1 DEF Construct, RemoveOld, Create, ConstructMutex, ConstructObject,
                Bind, Advance, TypeOK
  <1>2. CASE RemoveOld(s) \/ Bind(s)
    BY <1>1, <1>a, <1>2 DEF RemoveOld, Bind, files, calls
  <1>3. CASE Create(s)
    BY <1>1, <1>a, <1>3 DEF Create, TypeOK, calls
  <1>4. CASE ConstructMutex(s)
    <2>1. \A i \in Inodes : /\ file'[i].object = file[i].object
                            /\ file'[i].old = file[i].old
      BY <1>4 DEF ConstructMutex, TypeOK, FileTypes
    <2> QED
      BY <1>1, <1>a, <1>4, <2>1 DEF ConstructMutex, calls
  <1>5. CASE ConstructObject(s)
    <2>1. \A i \in Inodes : file'[i].old = file[i].old
      BY <1>5 DEF ConstructObject, TypeOK, FileTypes
    <2> QED
      BY <1>1, <1>a, <1>5, <2>1 DEF ConstructObject, calls
  <1> QED
    BY <1>2, <1>3, <1>4, <1>5 DEF Construct

\* What a destructor leaves alone, and when it runs.
LEMMA DeleteFrame ==
    ASSUME TypeOK, NEW p \in Procs, Delete(p)
    PROVE  /\ UNCHANGED <<program, fate, file, found, stage, target, crashes>>
           /\ p \in Servers \cup Clients /\ Alive(p)
           /\ at[p] \in Nat /\ at'[p] = at[p] + 1 /\ maps'[p] = None
           /\ \A q \in (Servers \cup Clients) \ {p} :
                 at'[q] = at[q] /\ maps'[q] = maps[q]
           /\ dir' = IF p \in Clients THEN dir
                     ELSE [dir EXCEPT ![BackedFile(p)] = None]
           /\ \A s \in node : at[s] >= 5
           /\ \A c \in Clients : at[c] >= IF ServerOnNode[c] THEN 3 ELSE 1
           /\ p \in node => at[p] = 5
           /\ p \in Clients => at[p] = IF ServerOnNode[p] THEN 3 ELSE 1
  <1>1. /\ \A q \in Procs : AtExit(q)
        /\ At(p, "Delete")
    BY DEF Delete
  <1>2. \A s \in node : at[s] >= 5
    BY <1>1, ServerPlaces DEF ServerFacts, Procs
  <1>3. \A c \in Clients : at[c] >= IF ServerOnNode[c] THEN 3 ELSE 1
    BY <1>1, ClientPlace DEF ClientFacts, Procs
  <1>4. p \in Servers \cup Clients
    BY ProgramTypes
  <1>5. /\ at[p] \in Nat /\ at'[p] = at[p] + 1 /\ maps'[p] = None
        /\ \A q \in (Servers \cup Clients) \ {p} :
              at'[q] = at[q] /\ maps'[q] = maps[q]
    BY <1>4 DEF Delete, Advance, TypeOK
  <1> QED
    BY <1>1, <1>2, <1>3, <1>4, <1>5, ServerAt, ClientAt DEF Delete, calls, At

\* A new job starts with nothing but what is linked.
LEMMA NextJobFrame ==
    ASSUME TypeOK, NextJob
    PROVE  /\ program' = program /\ dir' = dir
           /\ \A q \in Servers \cup Clients :
                 at'[q] = 0 /\ fate'[q] = "alive" /\ maps'[q] = None
           /\ \A c \in Clients : ~found'[c] /\ stage'[c] = "none"
           /\ \A i \in Inodes : \/ file'[i].old = TRUE
                                \/ file'[i] = Blank
  <1>1. ASSUME NEW i \in Inodes PROVE file'[i].old = TRUE \/ file'[i] = Blank
    BY DEF NextJob, TypeOK, FileTypes
  <1> QED
    BY <1>1
    DEF NextJob, AllStart, AllAlive, NothingMapped, NothingFound, NoCalls

\* One program is run all the time.
LEMMA ProgramStays ==
    ASSUME TypeOK, CallsInPlace, Next
    PROVE  program' = program
  BY Steps, DeathFrame, NextJobFrame, UseFrame, ConstructFrame, DeleteFrame DEF Procs

-----------------------------------------------------------------------------
\* When a client is past the barrier, the servers are past their constructors.
LEMMA PastBarrier ==
    ASSUME TypeOK, AfterBarrier, barrier, NEW c \in Clients,
           at[c] > 0 \/ stage[c] # "none"
    PROVE  \A s \in node : at[s] >= 5
  BY ServerPlaces DEF AfterBarrier, ServerFacts

\* Calls stay where the script has them.
LEMMA CallPlace ==
    TypeOK => (CallsInPlace <=> \A c \in Clients : stage[c] # "none" =>
                    /\ at[c] = IF ServerOnNode[c] THEN 2 ELSE 0
                    /\ target[c] \in node)
  BY ClientPlace DEF CallsInPlace, ClientFacts

LEMMA CallPlaceNext ==
    TypeOK' => (CallsInPlace <=> \A c \in Clients : stage[c] # "none" =>
                    /\ at[c] = IF ServerOnNode[c] THEN 2 ELSE 0
                    /\ target[c] \in node)'
  BY CallPlace, PTL

LEMMA CallsStep == TypeOK /\ CallsInPlace /\ Next => CallsInPlace'
  <1> SUFFICES ASSUME TypeOK, CallsInPlace, Next,
                      NEW c \in Clients, stage'[c] # "none"
               PROVE  /\ at'[c] = IF ServerOnNode[c] THEN 2 ELSE 0
                      /\ target'[c] \in node'
    BY TypeStep, CallPlaceNext
  <1>1. stage[c] # "none" => /\ at[c] = IF ServerOnNode[c] THEN 2 ELSE 0
                             /\ target[c] \in node
    BY CallPlace
  <1>2. c \in Procs /\ c \notin Servers /\ node \subseteq Servers
    BY ProcessesAssumption, ProgramTypes DEF Procs
  <1>3. CASE Death
    BY <1>1, <1>3, DeathFrame, SameProgram
  <1>4. CASE NextJob
    BY <1>4, NextJobFrame
  <1>5. ASSUME NEW s \in node, Construct(s)
        PROVE  at'[c] = at[c] /\ target' = target /\ stage' = stage /\ node' = node
    BY <1>2, <1>5, ConstructFrame, SameProgram DEF TypeOK
  <1>6. ASSUME NEW p \in Procs, Delete(p)
        PROVE  /\ target' = target /\ stage' = stage /\ node' = node
               /\ at'[c] = at[c]
    <2>1. p = c => stage[c] = "none"
      BY <1>1, <1>6, DeleteFrame
    <2> QED
      BY <1>6, <2>1, DeleteFrame, SameProgram DEF TypeOK
  <1>7. ASSUME NEW d \in Clients, Use(d)
        PROVE  /\ at'[c] = IF ServerOnNode[c] THEN 2 ELSE 0
               /\ target'[c] \in node'
    <2>1. node' = node
      BY <1>7, UseFrame, SameProgram
    <2>2. CASE d # c
      BY <1>1, <1>7, <2>1, <2>2, UseFrame
    <2>3. CASE d = c /\ Invoke(c)
      <3>1. at[c] = IF ServerOnNode[c] THEN 2 ELSE 0
        BY <2>3, ClientAt DEF Invoke
      <3>2. at' = at /\ target'[c] \in node
        BY <2>3 DEF Invoke, TypeOK
      <3> QED
        BY <2>1, <3>1, <3>2
    <2>4. CASE d = c /\ (Open(c) \/ Find(c))
      <3>1. stage[c] = "none"
        BY <1>1, <2>4, ClientAt DEF Open, Find
      <3> QED
        BY <2>4, <3>1 DEF Open, Find, calls
    <2>5. CASE d = c /\ Return(c)
      BY <2>5 DEF Return, TypeOK
    <2>6. CASE d = c /\ (Accept(c) \/ WildReturns(c) \/ Lock(c) \/ Unlock(c))
      <3>1. stage[c] # "none" /\ at' = at /\ target' = target
        BY <2>6 DEF Accept, WildReturns, Lock, Unlock
      <3> QED
        BY <1>1, <2>1, <3>1
    <2> QED
      BY <1>7, <2>2, <2>3, <2>4, <2>5, <2>6 DEF Use
  <1> QED
    BY <1>1, <1>3, <1>4, <1>5, <1>6, <1>7, Steps DEF Procs

\* No client is past the barrier before every server is.
LEMMA BarrierPlace ==
    TypeOK => (AfterBarrier <=> (barrier => \A c \in Clients :
                    at[c] > 0 \/ stage[c] # "none" => \A s \in node : at[s] >= 5))
  BY ServerPlaces DEF AfterBarrier, ServerFacts

LEMMA BarrierPlaceNext ==
    TypeOK' => (AfterBarrier <=> (barrier => \A c \in Clients :
                    at[c] > 0 \/ stage[c] # "none" => \A s \in node : at[s] >= 5))'
  BY BarrierPlace, PTL

LEMMA BarrierStep ==
    TypeOK /\ CallsInPlace /\ AfterBarrier /\ Next => AfterBarrier'
  <1> SUFFICES ASSUME TypeOK, CallsInPlace, AfterBarrier, Next, barrier',
                      NEW c \in Clients, at'[c] > 0 \/ stage'[c] # "none",
                      NEW s \in node'
               PROVE  at'[s] >= 5
    BY TypeStep, BarrierPlaceNext
  <1>1. program' = program /\ s \in node /\ barrier /\ s \in Servers /\ at[s] \in Nat
    <2>1. program' = program
      BY ProgramStays
    <2> QED
      BY <2>1, SameProgram, ProgramTypes DEF TypeOK
  <1>t. at'[s] \in Nat /\ at'[c] \in Nat
    BY <1>1, TypeStep DEF TypeOK
  <1>2. c \in Procs /\ c \notin Servers
    BY ProcessesAssumption DEF Procs
  <1>3. at[c] > 0 \/ stage[c] # "none" => at[s] >= 5
    BY <1>1, PastBarrier
  <1>4. CASE Death
    BY <1>3, <1>4, DeathFrame
  <1>5. CASE NextJob
    BY <1>5, NextJobFrame
  <1>6. ASSUME NEW t \in node, Construct(t)
        PROVE  at'[c] = at[c] /\ stage' = stage /\ at'[s] >= at[s]
    BY <1>1, <1>2, <1>6, ConstructFrame
  <1>7. ASSUME NEW p \in Procs, Delete(p) PROVE at'[s] >= 5
    BY <1>1, <1>7, DeleteFrame
  <1>8. ASSUME NEW d \in Clients, Use(d)
        PROVE  /\ at'[s] = at[s]
               /\ d # c => at'[c] = at[c] /\ stage'[c] = stage[c]
    BY <1>1, <1>2, <1>8, UseFrame, ProcessesAssumption
  <1>9. CASE Use(c)
    <2>1. Open(c) \/ Invoke(c) => \A t \in node : AtExit(t)
      BY <1>1, ClientAt DEF Open, Invoke, MayStart
    <2>2. Open(c) \/ Invoke(c) => at[s] >= 5
      BY <1>1, <2>1, ServerPlaces DEF ServerFacts
    <2>3. Find(c) => at[c] > 0
      BY ClientAt DEF Find
    <2>4. ~(Open(c) \/ Invoke(c) \/ Find(c)) => stage[c] # "none"
      BY <1>9 DEF Use, Return, Accept, WildReturns, Lock, Unlock
    <2> QED
      BY <1>3, <1>8, <1>9, <2>2, <2>3, <2>4
  <1> QED
    BY <1>1, <1>t, <1>3, <1>4, <1>5, <1>6, <1>7, <1>8, <1>9, Steps DEF Procs

-----------------------------------------------------------------------------
\* A client has the file that it has opened and found what it has looked up.
LEMMA MappedPlace ==
    TypeOK => (MappedByOpen <=> \A c \in Clients :
                    /\ maps[c] # None => ServerOnNode[c] /\ at[c] >= 1
                    /\ found[c] => ServerOnNode[c] /\ at[c] >= 2)
  BY ClientPlace DEF MappedByOpen, ClientFacts

LEMMA MappedPlaceNext ==
    TypeOK' => (MappedByOpen <=> \A c \in Clients :
                    /\ maps[c] # None => ServerOnNode[c] /\ at[c] >= 1
                    /\ found[c] => ServerOnNode[c] /\ at[c] >= 2)'
  BY MappedPlace, PTL

LEMMA MappedStep ==
    TypeOK /\ CallsInPlace /\ MappedByOpen /\ Next => MappedByOpen'
  <1> SUFFICES ASSUME TypeOK, CallsInPlace, MappedByOpen, Next, NEW c \in Clients
               PROVE  /\ maps'[c] # None => ServerOnNode[c] /\ at'[c] >= 1
                      /\ found'[c] => ServerOnNode[c] /\ at'[c] >= 2
    BY TypeStep, MappedPlaceNext
  <1>0. /\ maps[c] # None => ServerOnNode[c] /\ at[c] >= 1
        /\ found[c] => ServerOnNode[c] /\ at[c] >= 2
        /\ at[c] \in Nat /\ c \notin Servers
    BY MappedPlace, ProcessesAssumption DEF TypeOK
  <1>1. CASE Death
    BY <1>0, <1>1, DeathFrame
  <1>2. CASE NextJob
    BY <1>2, NextJobFrame
  <1>3. ASSUME NEW s \in node, Construct(s)
        PROVE  maps'[c] = maps[c] /\ found' = found /\ at'[c] = at[c]
    BY <1>0, <1>3, ConstructFrame
  <1>4. ASSUME NEW p \in Procs, Delete(p)
        PROVE  maps'[c] \in {maps[c], None} /\ found' = found /\ at'[c] >= at[c]
    BY <1>0, <1>4, DeleteFrame
  <1>5. ASSUME NEW d \in Clients, Use(d), d # c
        PROVE  maps'[c] = maps[c] /\ found'[c] = found[c] /\ at'[c] = at[c]
    BY <1>5, UseFrame
  <1>6. CASE Use(c)
    <2>1. CASE Open(c)
      <3>1. ServerOnNode[c] /\ at'[c] = at[c] + 1 /\ at[c] = 0 /\ found' = found
        BY <2>1, ClientAt DEF Open, Advance, TypeOK
      <3> QED
        BY <1>0, <3>1
    <2>2. CASE Find(c)
      <3>1. ServerOnNode[c] /\ at'[c] = at[c] + 1 /\ at[c] = 1
        BY <2>2, ClientAt DEF Find, Advance, TypeOK
      <3> QED
        BY <3>1
    <2>3. CASE ~Open(c) /\ ~Find(c)
      <3>1. maps' = maps /\ found' = found
        BY <1>6, <2>3, UseFrame
      <3>2. at'[c] >= at[c]
        BY <1>0, <1>6, <2>3, UseFrame DEF Return, Advance, TypeOK
      <3> QED
        BY <1>0, <3>1, <3>2, ClientPlaceNext, TypeStep DEF ClientFacts
    <2> QED
      BY <2>1, <2>2, <2>3
  <1> QED
    BY <1>0, <1>1, <1>2, <1>3, <1>4, <1>5, <1>6, Steps, ClientPlaceNext, TypeStep
    DEF Procs, ClientFacts

-----------------------------------------------------------------------------
\* A new file is linked under one name only.
LEMMA LinksStep ==
    TypeOK /\ CallsInPlace /\ LinksDiffer /\ Next => LinksDiffer'
  <1> SUFFICES ASSUME TypeOK, CallsInPlace, LinksDiffer, Next PROVE LinksDiffer'
    OBVIOUS
  <1>1. ASSUME dir' = dir PROVE LinksDiffer'
    BY <1>1 DEF LinksDiffer
  <1>2. ASSUME NEW n, dir' = [dir EXCEPT ![n] = None] PROVE LinksDiffer'
    BY <1>2 DEF LinksDiffer, TypeOK
  <1>3. ASSUME NEW s \in node, Create(s) PROVE LinksDiffer'
    <2>1. dir' = [dir EXCEPT ![BackedFile(s)] = FreshFile] /\ InUse # Inodes
      BY <1>3 DEF Create, FreshFile
    <2>2. FreshFile \in Inodes /\ \A n \in Names : dir[n] # FreshFile
      BY <2>1, FreshInode DEF InUse
    <2> QED
      BY <2>1, <2>2 DEF LinksDiffer, TypeOK
  <1>4. ASSUME NEW s \in node, Construct(s) PROVE LinksDiffer'
    <2>1. CASE RemoveOld(s)
      BY <1>2, <2>1 DEF RemoveOld
    <2> QED
      BY <1>1, <1>3, <1>4, <2>1, ConstructFrame
  <1>5. ASSUME NEW p \in Procs, Delete(p) PROVE LinksDiffer'
    BY <1>1, <1>2, <1>5, DeleteFrame
  <1> QED
    BY <1>1, <1>4, <1>5, Steps, DeathFrame, NextJobFrame, UseFrame DEF Procs

-----------------------------------------------------------------------------
\* What is linked and mapped is of this job.
Removed(s) == at[s] >= IF kind = "container" THEN 1 ELSE 2
Created(s) == at[s] >= IF kind = "container" THEN 2 ELSE 3

LEMMA FilesPlace ==
    TypeOK => (FilesAreNew <=>
        /\ \A s \in node :
              /\ maps[s] # None => Created(s) /\ ~file[maps[s]].old
              /\ Removed(s) /\ dir[BackedFile(s)] # None =>
                    ~file[dir[BackedFile(s)]].old
        /\ barrier => \A c \in Clients : maps[c] # None => ~file[maps[c]].old)
  <1> SUFFICES ASSUME TypeOK
               PROVE  \A s \in node : /\ Has(s, "RemoveOld") <=> Removed(s)
                                      /\ Has(s, "Create") <=> Created(s)
    BY DEF FilesAreNew
  <1> QED
    BY ServerPlaces DEF ServerFacts, Removed, Created

LEMMA FilesPlaceNext ==
    TypeOK' => (FilesAreNew <=>
        /\ \A s \in node :
              /\ maps[s] # None => Created(s) /\ ~file[maps[s]].old
              /\ Removed(s) /\ dir[BackedFile(s)] # None =>
                    ~file[dir[BackedFile(s)]].old
        /\ barrier => \A c \in Clients : maps[c] # None => ~file[maps[c]].old)'
  BY FilesPlace, PTL

\* Who maps and links a file, maps and links one.
LEMMA FileTypesOf ==
    ASSUME TypeOK
    PROVE  /\ \A q \in Servers \cup Clients : maps[q] # None => maps[q] \in Inodes
           /\ \A s \in Servers : dir[BackedFile(s)] # None => dir[BackedFile(s)] \in Inodes
  BY ProgramTypes DEF TypeOK

LEMMA CreateFrame ==
    ASSUME TypeOK, NEW s \in node, Create(s)
    PROVE  /\ FreshFile \in Inodes /\ FreshFile \notin InUse
           /\ dir[BackedFile(s)] = None
           /\ dir' = [dir EXCEPT ![BackedFile(s)] = FreshFile]
           /\ maps'[s] = FreshFile /\ at[s] = IF kind = "container" THEN 1 ELSE 2
           /\ file'[FreshFile] = Blank
           /\ \A i \in Inodes \ {FreshFile} : file'[i] = file[i]
  <1>1. /\ InUse # Inodes /\ dir[BackedFile(s)] = None
        /\ dir' = [dir EXCEPT ![BackedFile(s)] = FreshFile]
        /\ maps' = [maps EXCEPT ![s] = FreshFile]
        /\ file' = [file EXCEPT ![FreshFile] = Blank]
        /\ At(s, "Create")
    BY DEF Create, FreshFile
  <1>2. FreshFile \in Inodes /\ FreshFile \notin InUse
    BY <1>1, FreshInode
  <1>3. s \in Servers
    BY ProgramTypes
  <1>4. at[s] = IF kind = "container" THEN 1 ELSE 2
    BY <1>1, ServerAt
  <1> QED
    BY <1>1, <1>2, <1>3, <1>4 DEF TypeOK

LEMMA FilesStep ==
    TypeOK /\ CallsInPlace /\ AfterBarrier /\ FilesAreNew /\ Next => FilesAreNew'
  <1> SUFFICES ASSUME TypeOK, CallsInPlace, AfterBarrier, FilesAreNew, Next
               PROVE  FilesAreNew'
    OBVIOUS
  <1> SUFFICES /\ \A s \in node :
                    /\ maps'[s] # None => Created(s)' /\ ~file'[maps'[s]].old
                    /\ Removed(s)' /\ dir'[BackedFile(s)] # None =>
                          ~file'[dir'[BackedFile(s)]].old
               /\ barrier => \A c \in Clients :
                    maps'[c] # None => ~file'[maps'[c]].old
    BY ProgramStays, TypeStep, FilesPlaceNext, SameProgram
  <1>1. /\ \A s \in node :
              /\ maps[s] # None => Created(s) /\ ~file[maps[s]].old
              /\ Removed(s) /\ dir[BackedFile(s)] # None =>
                    ~file[dir[BackedFile(s)]].old
        /\ barrier => \A c \in Clients : maps[c] # None => ~file[maps[c]].old
    BY FilesPlace
  <1>2. /\ \A q \in Servers \cup Clients : maps[q] # None => maps[q] \in Inodes
        /\ \A s \in Servers : dir[BackedFile(s)] # None => dir[BackedFile(s)] \in Inodes
        /\ node \subseteq Servers /\ Clients \cap Servers = {}
        /\ \A s \in node : at[s] \in Nat /\ at'[s] \in Nat
        /\ None \notin Inodes
    BY FileTypesOf, ProgramTypes, ProcessesAssumption, ValuesAssumption, TypeStep DEF TypeOK
  <1>3. kind' = kind
    BY ProgramStays, SameProgram
  <1>4. CASE Death
    BY <1>1, <1>2, <1>3, <1>4, DeathFrame DEF Removed, Created
  <1>5. CASE NextJob
    BY <1>2, <1>3, <1>5, NextJobFrame DEF Removed
  <1>6. ASSUME NEW t \in node, Create(t), NEW s \in node
        PROVE  /\ maps'[s] # None => Created(s)' /\ ~file'[maps'[s]].old
               /\ Removed(s)' /\ dir'[BackedFile(s)] # None =>
                     ~file'[dir'[BackedFile(s)]].old
    <2>1. /\ \A i \in Inodes : file'[i].old => file[i].old /\ i # FreshFile
          /\ FreshFile \in Inodes
      BY <1>6, CreateFrame DEF Blank
    <2>2. CASE s = t
      BY <1>2, <1>3, <1>6, <2>1, <2>2, CreateFrame, ConstructFrame, ProgramTypes
      DEF Construct, Created, TypeOK
    <2>3. CASE s # t
      <3>1. maps'[s] = maps[s] /\ at'[s] = at[s]
        BY <1>2, <1>6, <2>3, ConstructFrame DEF Construct
      <3>2. dir'[BackedFile(s)] \in {FreshFile, dir[BackedFile(s)]}
        BY <1>2, <1>6, CreateFrame, ProgramTypes DEF TypeOK
      <3> QED
        BY <1>1, <1>2, <1>3, <2>1, <3>1, <3>2 DEF Removed, Created
    <2> QED
      BY <2>2, <2>3
  <1>7. ASSUME NEW t \in node, Create(t), NEW c \in Clients, barrier
        PROVE  maps'[c] # None => ~file'[maps'[c]].old
    <2>1. \A i \in Inodes : file'[i].old => file[i].old
      BY <1>7, CreateFrame DEF Blank
    <2>2. maps'[c] = maps[c]
      BY <1>2, <1>7, ConstructFrame DEF Construct
    <2> QED
      BY <1>1, <1>2, <1>7, <2>1, <2>2
  <1>8. ASSUME NEW t \in node, Construct(t), ~Create(t)
        PROVE  /\ \A s \in node :
                     /\ maps'[s] # None => Created(s)' /\ ~file'[maps'[s]].old
                     /\ Removed(s)' /\ dir'[BackedFile(s)] # None =>
                           ~file'[dir'[BackedFile(s)]].old
               /\ barrier => \A c \in Clients :
                     maps'[c] # None => ~file'[maps'[c]].old
    <2>1. maps' = maps /\ \A i \in Inodes : file'[i].old = file[i].old
      BY <1>8, ConstructFrame
    <2>2. \A s \in node : at'[s] >= at[s] /\ (s # t => at'[s] = at[s])
      BY <1>2, <1>8, ConstructFrame
    <2>3. CASE RemoveOld(t)
      <3>1. /\ dir'[BackedFile(t)] = None
            /\ \A s \in node : dir'[BackedFile(s)] \in {None, dir[BackedFile(s)]}
        BY <1>2, <2>3, ProgramTypes DEF RemoveOld, TypeOK
      <3>2. \A s \in node : Removed(s)' /\ s # t => Removed(s)
        BY <1>3, <2>2 DEF Removed
      <3>3. \A s \in node : Created(s) => Created(s)'
        BY <1>2, <1>3, <2>2 DEF Created
      <3> QED
        BY <1>1, <1>2, <2>1, <3>1, <3>2, <3>3
    <2>4. CASE ~RemoveOld(t)
      <3>1. dir' = dir
        BY <1>8, <2>4, ConstructFrame
      <3>2. Removed(t)' => Removed(t)
        <4>1. At(t, "ConstructMutex") \/ At(t, "ConstructObject") \/ At(t, "Bind")
          BY <1>8, <2>4 DEF Construct, ConstructMutex, ConstructObject, Bind
        <4>2. at[t] \in {2, 3, 4} \/ (at[t] = 0 /\ kind # "container")
          BY <4>1, ServerAt
        <4> QED
          BY <1>2, <1>3, <1>8, <4>2, ConstructFrame DEF Removed
      <3>3. \A s \in node : Removed(s)' => Removed(s)
        BY <1>3, <2>2, <3>2 DEF Removed
      <3>4. \A s \in node : Created(s) => Created(s)'
        BY <1>2, <1>3, <2>2 DEF Created
      <3> QED
        BY <1>1, <1>2, <2>1, <3>1, <3>3, <3>4
    <2> QED
      BY <2>3, <2>4
  <1>9. ASSUME NEW p \in Procs, Delete(p)
        PROVE  /\ \A s \in node :
                     /\ maps'[s] # None => Created(s)' /\ ~file'[maps'[s]].old
                     /\ Removed(s)' /\ dir'[BackedFile(s)] # None =>
                           ~file'[dir'[BackedFile(s)]].old
               /\ barrier => \A c \in Clients :
                     maps'[c] # None => ~file'[maps'[c]].old
    <2>1. /\ file' = file
          /\ \A q \in Servers \cup Clients : maps'[q] \in {None, maps[q]}
          /\ \A s \in node : at[s] >= 5 /\ at'[s] >= at[s]
      BY <1>2, <1>9, DeleteFrame
    <2>2. \A s \in node : dir'[BackedFile(s)] \in {None, dir[BackedFile(s)]}
      <3>1. dir' = dir \/ \E n : dir' = [dir EXCEPT ![n] = None]
        BY <1>9, DeleteFrame
      <3> QED
        BY <1>2, <3>1, ProgramTypes DEF TypeOK
    <2>3. \A s \in node : Removed(s) /\ Created(s)'
      BY <1>2, <1>3, <2>1 DEF Removed, Created
    <2> QED
      BY <1>1, <1>2, <2>1, <2>2, <2>3
  <1>10. ASSUME NEW c \in Clients, Use(c)
         PROVE  /\ \A s \in node :
                     /\ maps'[s] # None => Created(s)' /\ ~file'[maps'[s]].old
                     /\ Removed(s)' /\ dir'[BackedFile(s)] # None =>
                           ~file'[dir'[BackedFile(s)]].old
                /\ barrier => \A d \in Clients :
                     maps'[d] # None => ~file'[maps'[d]].old
    <2>1. /\ dir' = dir /\ \A i \in Inodes : file'[i].old = file[i].old
          /\ \A q \in (Servers \cup Clients) \ {c} : at'[q] = at[q] /\ maps'[q] = maps[q]
      BY <1>10, UseFrame
    <2>2. \A s \in node : (Removed(s)' <=> Removed(s)) /\ (Created(s)' <=> Created(s))
      BY <1>2, <1>3, <2>1 DEF Removed, Created
    <2>3. barrier => (maps'[c] # None => ~file'[maps'[c]].old)
      <3>1. CASE Open(c)
        <4>1. maps'[c] = dir[BackedFile(MyServer[c])] /\ MyServer[c] \in node
          BY <3>1, ClientAt, ProgramTypes DEF Open, TypeOK
        <4>2. barrier => Removed(MyServer[c])
          <5>1. barrier => AtExit(MyServer[c])
            BY <3>1, <4>1, ClientAt DEF Open, MayStart
          <5> QED
            BY <4>1, <5>1, ServerPlaces DEF ServerFacts, Removed
        <4> QED
          BY <1>1, <1>2, <2>1, <4>1, <4>2
      <3>2. CASE ~Open(c)
        <4>1. maps' = maps
          BY <1>10, <3>2, UseFrame
        <4> QED
          BY <1>1, <1>2, <2>1, <4>1
      <3> QED
        BY <3>1, <3>2
    <2> QED
      BY <1>1, <1>2, <2>1, <2>2, <2>3
  <1> QED
    BY <1>4, <1>5, <1>6, <1>7, <1>8, <1>9, <1>10, Steps DEF Procs

-----------------------------------------------------------------------------
\* The objects in files of this job are what this job's servers have put there.
LEMMA ObjectsPlace ==
    TypeOK => (ObjectsAreNew <=> \A i \in Inodes :
        ~file[i].old /\ file[i].object # None =>
            /\ file[i].object \in node /\ at[file[i].object] >= 4
            /\ maps[file[i].object] \in {i, None})
  BY ServerPlaces DEF ObjectsAreNew, ServerFacts

LEMMA ObjectsPlaceNext ==
    TypeOK' => (ObjectsAreNew <=> \A i \in Inodes :
        ~file[i].old /\ file[i].object # None =>
            /\ file[i].object \in node /\ at[file[i].object] >= 4
            /\ maps[file[i].object] \in {i, None})'
  BY ObjectsPlace, PTL

LEMMA ObjectsStep ==
    TypeOK /\ CallsInPlace /\ ObjectsAreNew /\ Next => ObjectsAreNew'
  <1> SUFFICES ASSUME TypeOK, CallsInPlace, ObjectsAreNew, Next PROVE ObjectsAreNew'
    OBVIOUS
  <1> SUFFICES ASSUME NEW i \in Inodes, ~file'[i].old, file'[i].object # None
               PROVE  /\ file'[i].object \in node /\ at'[file'[i].object] >= 4
                      /\ maps'[file'[i].object] \in {i, None}
    BY ProgramStays, SameProgram, TypeStep, ObjectsPlaceNext
  <1>1. ASSUME ~file[i].old, file[i].object # None
        PROVE  /\ file[i].object \in node /\ at[file[i].object] >= 4
               /\ maps[file[i].object] \in {i, None}
    BY <1>1, ObjectsPlace
  <1>2. /\ node \subseteq Servers /\ Clients \cap Servers = {}
        /\ \A s \in node : at[s] \in Nat /\ at'[s] \in Nat
    BY ProgramTypes, ProcessesAssumption, TypeStep DEF TypeOK
  <1>3. CASE Death
    BY <1>1, <1>2, <1>3, DeathFrame
  <1>4. CASE NextJob
    <2>1. Blank.object = None
      BY DEF Blank
    <2> QED
      BY <1>4, <2>1, NextJobFrame
  <1>5. ASSUME NEW t \in node, Create(t)
        PROVE  /\ file'[i].object \in node /\ at'[file'[i].object] >= 4
               /\ maps'[file'[i].object] \in {i, None}
    <2>1. i # FreshFile /\ file'[i] = file[i]
      BY <1>5, CreateFrame DEF Blank
    <2>2. at[t] < 4
      BY <1>5, CreateFrame
    <2>3. file[i].object # t
      BY <1>1, <1>2, <2>1, <2>2
    <2> QED
      BY <1>1, <1>2, <1>5, <2>1, <2>3, ConstructFrame DEF Construct
  <1>6. ASSUME NEW t \in node, ConstructObject(t)
        PROVE  /\ file'[i].object \in node /\ at'[file'[i].object] >= 4
               /\ maps'[file'[i].object] \in {i, None}
    <2>1. at[t] = 3 /\ at'[t] = 4 /\ maps' = maps
      <3>1. at[t] = 3 /\ maps' = maps
        BY <1>6, ServerAt DEF ConstructObject
      <3> QED
        BY <1>6, <3>1, ConstructFrame DEF Construct
    <2>2. CASE i = maps[t]
      <3>1. file'[i].object = t
        BY <1>6, <2>2 DEF ConstructObject, TypeOK, FileTypes
      <3> QED
        BY <2>1, <2>2, <3>1
    <2>3. CASE i # maps[t]
      <3>1. file'[i] = file[i]
        BY <1>6, <2>3 DEF ConstructObject, TypeOK
      <3>2. file[i].object # t
        BY <1>1, <2>1, <3>1
      <3> QED
        BY <1>1, <1>2, <1>6, <2>1, <3>1, <3>2, ConstructFrame DEF Construct
    <2> QED
      BY <2>2, <2>3
  <1>7. ASSUME NEW t \in node, Construct(t), ~Create(t), ~ConstructObject(t)
        PROVE  /\ file'[i].object \in node /\ at'[file'[i].object] >= 4
               /\ maps'[file'[i].object] \in {i, None}
    <2>1. /\ file'[i].object = file[i].object /\ file'[i].old = file[i].old
          /\ maps' = maps /\ \A s \in node : at'[s] >= at[s]
      BY <1>2, <1>7, ConstructFrame
    <2> QED
      BY <1>1, <1>2, <2>1
  <1>8. ASSUME NEW p \in Procs, Delete(p)
        PROVE  /\ file'[i].object \in node /\ at'[file'[i].object] >= 4
               /\ maps'[file'[i].object] \in {i, None}
    <2>1. /\ file' = file /\ \A s \in node : at'[s] >= at[s]
          /\ \A s \in node : maps'[s] \in {None, maps[s]}
      BY <1>2, <1>8, DeleteFrame
    <2> QED
      BY <1>1, <1>2, <2>1
  <1>9. ASSUME NEW c \in Clients, Use(c)
        PROVE  /\ file'[i].object \in node /\ at'[file'[i].object] >= 4
               /\ maps'[file'[i].object] \in {i, None}
    <2>1. /\ file'[i].object = file[i].object /\ file'[i].old = file[i].old
          /\ \A s \in node : at'[s] = at[s] /\ maps'[s] = maps[s]
      BY <1>2, <1>9, UseFrame
    <2> QED
      BY <1>1, <1>2, <2>1
  <1> QED
    BY <1>3, <1>4, <1>5, <1>6, <1>7, <1>8, <1>9, Steps DEF Procs

\* What a client has found is its own server's.
LEMMA FoundStep ==
    /\ TypeOK /\ CallsInPlace /\ AfterBarrier /\ MappedByOpen /\ FilesAreNew
    /\ ObjectsAreNew /\ FoundIsOwn /\ Next
    => FoundIsOwn'
  <1> SUFFICES ASSUME TypeOK, CallsInPlace, AfterBarrier, MappedByOpen, FilesAreNew,
                      ObjectsAreNew, FoundIsOwn, Next
               PROVE  FoundIsOwn'
    OBVIOUS
  <1> SUFFICES ASSUME barrier, kind = "clock" => Cardinality(node) = 1,
                      NEW c \in Clients, found'[c], maps'[c] # None
               PROVE  file'[maps'[c]].object = MyServer[c]
    BY ProgramStays, SameProgram DEF FoundIsOwn
  <1>1. found[c] /\ maps[c] # None => file[maps[c]].object = MyServer[c]
    BY DEF FoundIsOwn
  <1>2. /\ maps[c] # None => maps[c] \in Inodes
        /\ node \subseteq Servers /\ Clients \cap Servers = {} /\ c \in Procs
        /\ found[c] => at[c] >= 2
    BY FileTypesOf, ProgramTypes, ProcessesAssumption, MappedPlace DEF Procs
  <1>3. CASE Death
    BY <1>1, <1>2, <1>3, DeathFrame
  <1>4. CASE NextJob
    BY <1>4, NextJobFrame
  <1>5. ASSUME NEW t \in node, Construct(t) PROVE FALSE
    <2>1. at[t] < 5 /\ found[c] /\ at[t] \in Nat
      BY <1>5, ConstructFrame
    <2>2. at[c] > 0
      BY <1>2, <2>1 DEF TypeOK
    <2> QED
      BY <2>1, <2>2, PastBarrier
  <1>6. ASSUME NEW p \in Procs, Delete(p)
        PROVE  file'[maps'[c]].object = MyServer[c]
    BY <1>1, <1>6, DeleteFrame
  <1>7. ASSUME NEW d \in Clients, Use(d)
        PROVE  file'[maps'[c]].object = MyServer[c]
    <2>1. CASE ~(d = c /\ (Open(c) \/ Find(c)))
      <3>1. maps'[c] = maps[c] /\ found'[c] = found[c]
            /\ \A i \in Inodes : file'[i].object = file[i].object
        BY <1>7, <2>1, UseFrame
      <3> QED
        BY <1>1, <1>2, <3>1
    <2>2. CASE Open(c)
      <3>1. at[c] = 0 /\ found' = found
        BY <2>2, ClientAt DEF Open
      <3> QED
        BY <1>2, <3>1
    <2>3. CASE Find(c)
      <3>1. FindsObject(c) /\ maps' = maps /\ file' = file
        BY <2>3 DEF Find, TypeOK
      <3>2. CASE kind # "clock"
        BY <3>1, <3>2 DEF FindsObject
      <3>3. CASE kind = "clock"
        <4>1. file[maps[c]].object # None /\ ~file[maps[c]].old
          BY <3>1, <3>3 DEF FindsObject, FilesAreNew
        <4>2. file[maps[c]].object \in node
          BY <1>2, <3>1, <4>1, ObjectsPlace
        <4>3. MyServer[c] \in node
          BY <2>3, ClientAt, ProgramTypes DEF Find
        <4>4. PICK x : node = {x}
          BY <3>3, SingleServer
        <4> QED
          BY <3>1, <4>2, <4>3, <4>4
      <3> QED
        BY <3>2, <3>3
    <2> QED
      BY <2>1, <2>2, <2>3
  <1> QED
    BY <1>3, <1>4, <1>5, <1>6, <1>7, Steps DEF Procs

-----------------------------------------------------------------------------
\* No handler follows pointers that nobody has set.
LEMMA HandlersStep ==
    /\ TypeOK /\ CallsInPlace /\ AfterBarrier /\ HandlersFindState /\ Next
    => HandlersFindState'
  <1> SUFFICES ASSUME TypeOK, CallsInPlace, AfterBarrier, HandlersFindState, Next
               PROVE  HandlersFindState'
    OBVIOUS
  <1> SUFFICES ASSUME kind = "container" \/ barrier,
                      NEW c \in Clients, stage'[c] = "wild"
               PROVE  FALSE
    BY ProgramStays, SameProgram DEF HandlersFindState
  <1>1. stage[c] # "wild"
    BY DEF HandlersFindState
  <1>2. CASE Accept(c)
    <2>1. /\ stage[c] = "sent" /\ Has(target[c], "Bind") /\ ~Ready(target[c])
      BY <1>2 DEF Accept, TypeOK
    <2>2. target[c] \in node
      BY <2>1, CallPlace
    <2>3. barrier => at[target[c]] >= 5
      BY <2>1, <2>2, PastBarrier
    <2>4. at[target[c]] >= 5
      BY <2>1, <2>2, <2>3, ServerPlaces DEF ServerFacts
    <2> QED
      BY <2>1, <2>2, <2>4, ServerPlaces DEF ServerFacts, Ready
  <1>3. ASSUME NEW d \in Clients, Use(d), ~(d = c /\ Accept(c))
        PROVE  stage'[c] # "wild"
    <2>1. d # c => stage'[c] = stage[c]
      BY <1>3, UseFrame
    <2> QED
      BY <1>1, <1>3, <2>1
      DEF Use, Open, Find, Invoke, Return, WildReturns, Lock, Unlock, calls, TypeOK
  <1> QED
    BY <1>1, <1>2, <1>3, Steps, DeathFrame, NextJobFrame, ConstructFrame, DeleteFrame
    DEF Procs

-----------------------------------------------------------------------------
\* Nobody is done before all are at their exits.
AllAtExit ==
    /\ \A s \in node : at[s] >= 5
    /\ \A c \in Clients : at[c] >= IF ServerOnNode[c] THEN 3 ELSE 1

SomeoneDone ==
    \/ \E s \in node : at[s] = 6
    \/ \E c \in Clients : at[c] = IF ServerOnNode[c] THEN 4 ELSE 2

LEMMA ExitPlace == TypeOK => (DeleteTogether <=> (SomeoneDone => AllAtExit))
  <1> SUFFICES ASSUME TypeOK
               PROVE  /\ (\E p \in Procs : Done(p)) <=> SomeoneDone
                      /\ (\A p \in Procs : AtExit(p)) <=> AllAtExit
    BY DEF DeleteTogether
  <1>1. \A s \in node : (Done(s) <=> at[s] = 6) /\ (AtExit(s) <=> at[s] >= 5)
    BY ServerPlaces DEF ServerFacts
  <1>2. \A c \in Clients :
           /\ Done(c) <=> at[c] = IF ServerOnNode[c] THEN 4 ELSE 2
           /\ AtExit(c) <=> at[c] >= IF ServerOnNode[c] THEN 3 ELSE 1
    BY ClientPlace DEF ClientFacts
  <1> QED
    BY <1>1, <1>2 DEF Procs, SomeoneDone, AllAtExit

LEMMA ExitPlaceNext == TypeOK' => (DeleteTogether <=> (SomeoneDone => AllAtExit))'
  BY ExitPlace, PTL

LEMMA ExitStep ==
    TypeOK /\ CallsInPlace /\ DeleteTogether /\ Next => DeleteTogether'
  <1> SUFFICES ASSUME TypeOK, CallsInPlace, DeleteTogether, Next, SomeoneDone'
               PROVE  AllAtExit'
    BY TypeStep, ExitPlaceNext
  <1>1. SomeoneDone => AllAtExit
    BY ExitPlace
  <1>2. /\ node' = node /\ node \subseteq Servers /\ Clients \cap Servers = {}
        /\ \A q \in Servers \cup Clients : at[q] \in Nat /\ at'[q] \in Nat
    BY ProgramStays, SameProgram, ProgramTypes, ProcessesAssumption, TypeStep DEF TypeOK
  <1>3. ASSUME AllAtExit, \A q \in Servers \cup Clients : at'[q] >= at[q]
        PROVE  AllAtExit'
    BY <1>2, <1>3 DEF AllAtExit
  <1>4. ASSUME NEW q \in Procs, at'[q] = at[q] + 1,
               q \in node => at'[q] # 6,
               q \in Clients => at'[q] # IF ServerOnNode[q] THEN 4 ELSE 2,
               \A r \in (Servers \cup Clients) \ {q} : at'[r] = at[r]
        PROVE  AllAtExit'
    <2>1. SomeoneDone
      BY <1>2, <1>4 DEF SomeoneDone, Procs
    <2>2. \A r \in Servers \cup Clients : at'[r] >= at[r]
      BY <1>2, <1>4
    <2> QED
      BY <1>1, <1>3, <2>1, <2>2
  <1>5. CASE at' = at
    BY <1>1, <1>2, <1>3, <1>5 DEF SomeoneDone
  <1>6. CASE NextJob
    BY <1>2, <1>6, NextJobFrame DEF SomeoneDone
  <1>7. ASSUME NEW s \in node, Construct(s) PROVE AllAtExit'
    <2>1. /\ at'[s] = at[s] + 1 /\ at[s] \in Nat /\ at[s] < 5 /\ s \notin Clients
          /\ \A r \in (Servers \cup Clients) \ {s} : at'[r] = at[r]
      BY <1>2, <1>7, ConstructFrame
    <2>2. at'[s] # 6
      BY <2>1
    <2> QED
      BY <1>4, <2>1, <2>2 DEF Procs
  <1>8. ASSUME NEW p \in Procs, Delete(p) PROVE AllAtExit'
    <2>1. AllAtExit
      BY <1>8, DeleteFrame DEF AllAtExit
    <2>2. \A q \in Servers \cup Clients : at'[q] >= at[q]
      BY <1>2, <1>8, DeleteFrame
    <2> QED
      BY <1>3, <2>1, <2>2
  <1>9. ASSUME NEW c \in Clients, Open(c) \/ Find(c) \/ Return(c) PROVE AllAtExit'
    <2>1. at'[c] = at[c] + 1
      BY <1>9 DEF Open, Find, Return, Advance, TypeOK
    <2>2. \A r \in (Servers \cup Clients) \ {c} : at'[r] = at[r]
      BY <1>9, UseFrame DEF Use
    <2>3. CASE Open(c)
      BY <1>2, <1>4, <2>1, <2>2, <2>3, ClientAt DEF Open, Procs
    <2>4. CASE Find(c)
      BY <1>2, <1>4, <2>1, <2>2, <2>4, ClientAt DEF Find, Procs
    <2>5. CASE Return(c)
      <3>1. at[c] = IF ServerOnNode[c] THEN 2 ELSE 0
        BY <2>5, CallPlace DEF Return
      <3> QED
        BY <1>2, <1>4, <2>1, <2>2, <3>1 DEF Procs
    <2> QED
      BY <1>9, <2>3, <2>4, <2>5
  <1> QED
    BY <1>5, <1>6, <1>7, <1>8, <1>9, Steps, DeathFrame, UseFrame DEF Procs

-----------------------------------------------------------------------------
\* After the barrier no constructor and no handler fails in a way that leaves
\* a mutex locked.
LEMMA FailureHoldsNothing ==
    ASSUME TypeOK, CallsInPlace, AfterBarrier, HandlersFindState, barrier, Failure
    PROVE  file' = file
  <1>0. /\ node \subseteq Servers /\ Clients \cap Servers = {}
        /\ \A s \in node : at[s] \in Nat
    BY ProgramTypes, ProcessesAssumption DEF TypeOK
  <1>1. ASSUME NEW p, NEW how, Die(p, how),
               \A d \in Clients : ~(stage[d] = "locked" /\ Executor(d) = p)
        PROVE  file' = file
    <2>1. \A i \in Inodes : file'[i] = file[i]
      BY <1>1 DEF Die, TypeOK, FileTypes
    <2>2. file' = [i \in Inodes |-> file'[i]]
      BY <1>1 DEF Die
    <2> QED
      BY <2>1, <2>2 DEF TypeOK
  <1>2. ASSUME NEW c \in Clients, NEW how, Die(c, how), stage[c] = "none" \/ ~IsLocal(c)
        PROVE  file' = file
    <2>1. ASSUME NEW d \in Clients, stage[d] = "locked", Executor(d) = c PROVE FALSE
      <3>1. target[d] \in node
        BY <2>1, CallPlace
      <3>2. d = c /\ IsLocal(d)
        BY <1>0, <2>1, <3>1 DEF Executor
      <3> QED
        BY <1>2, <2>1, <3>2
    <2> QED
      BY <1>1, <1>2, <2>1
  <1>3. ASSUME NEW s \in node, CreateThrows(s) PROVE file' = file
    <2>1. at[s] < 5
      BY <1>0, <1>3, ServerAt DEF CreateThrows
    <2>2. \A d \in Clients : stage[d] = "none"
      BY <1>0, <2>1, PastBarrier
    <2> QED
      BY <1>1, <1>3, <2>2 DEF CreateThrows
  <1>4. ASSUME NEW c \in Clients, OpenThrows(c) \/ FindCrashes(c) PROVE file' = file
    <2>1. at[c] \in {0, 1} /\ ServerOnNode[c]
      BY <1>4, ClientAt DEF OpenThrows, FindCrashes
    <2>2. stage[c] = "none"
      BY <2>1, CallPlace
    <2> QED
      BY <1>2, <1>4, <2>2 DEF OpenThrows, FindCrashes
  <1>5. ASSUME NEW c \in Clients, InvokeCrashes(c) \/ Refused(c) PROVE file' = file
    BY <1>2, <1>5 DEF InvokeCrashes, Refused
  <1>6. ASSUME NEW c \in Clients, WildCrashes(c) PROVE FALSE
    BY <1>6 DEF WildCrashes, HandlersFindState
  <1> QED
    BY <1>3, <1>4, <1>5, <1>6 DEF Failure

\* Locking and unlocking write the mutex.
LEMMA MutexFrame ==
    ASSUME TypeOK, NEW c \in Clients, Lock(c) \/ Unlock(c), NEW i \in Inodes
    PROVE  /\ file'[i].mutex \in {c, Free, file[i].mutex}
           /\ file'[i].old = file[i].old
  <1>1. CASE Lock(c)
    <2>1. file' = [file EXCEPT ![maps[Executor(c)]].mutex = c]
      BY <1>1 DEF Lock
    <2> QED
      BY <2>1 DEF TypeOK, FileTypes
  <1>2. CASE Unlock(c)
    <2>1. file' = [file EXCEPT ![maps[Executor(c)]].mutex = Free]
      BY <1>2 DEF Unlock
    <2> QED
      BY <2>1 DEF TypeOK, FileTypes
  <1> QED
    BY <1>1, <1>2

LEMMA LocksStep ==
    /\ TypeOK /\ CallsInPlace /\ AfterBarrier /\ HandlersFindState
    /\ NoDeadLocks /\ Next
    => NoDeadLocks'
  <1> SUFFICES ASSUME TypeOK, CallsInPlace, AfterBarrier, HandlersFindState,
                      NoDeadLocks, Next
               PROVE  NoDeadLocks'
    OBVIOUS
  <1> SUFFICES ASSUME barrier, \A p \in Procs : fate'[p] # "crashed",
                      NEW i \in Inodes, ~file'[i].old
               PROVE  file'[i].mutex # Dead
    BY ProgramStays, SameProgram DEF NoDeadLocks
  <1>1. ASSUME fate' = fate PROVE ~file[i].old => file[i].mutex # Dead
    BY <1>1 DEF NoDeadLocks
  <1>2. CASE NextJob
    <2>1. file'[i] = Blank
      BY <1>2, NextJobFrame
    <2> QED
      BY <2>1, ValuesAssumption DEF Blank
  <1>3. ASSUME NEW p \in Procs, Crash(p) PROVE FALSE
    <2>1. p \in Servers \cup Clients
      BY ProgramTypes
    <2>2. fate'[p] = "crashed"
      BY <1>3, <2>1 DEF Crash, Die, TypeOK
    <2> QED
      BY <2>2
  <1>4. CASE Failure
    <2>1. file' = file
      BY <1>4, FailureHoldsNothing
    <2>2. \A p \in Procs : fate[p] # "crashed"
      <3>1. PICK p \in Procs, how \in {"crashed", "construct", "call"} : Die(p, how) /\ Alive(p)
        BY <1>4, ProgramTypes DEF Failure, CreateThrows, OpenThrows, FindCrashes,
           InvokeCrashes, Refused, WildCrashes, At, CallsInPlace, Procs
      <3>2. \A q \in Procs : q # p => fate'[q] = fate[q]
        BY <3>1, ProgramTypes DEF Die, TypeOK
      <3> QED
        BY <3>1, <3>2 DEF Alive
    <2> QED
      BY <2>1, <2>2 DEF NoDeadLocks
  <1>5. ASSUME NEW s \in node, Construct(s) PROVE file'[i].mutex # Dead
    <2>0. ~file[i].old => file[i].mutex # Dead
      BY <1>1, <1>5, ConstructFrame
    <2>1. CASE Create(s)
      <3>1. file'[i] \in {Blank, file[i]}
        BY <2>1, CreateFrame
      <3> QED
        BY <2>0, <3>1, ValuesAssumption DEF Blank
    <2>2. CASE ConstructMutex(s)
      <3>1. file'[i].mutex \in {Free, file[i].mutex} /\ file'[i].old = file[i].old
        BY <2>2 DEF ConstructMutex, TypeOK, FileTypes
      <3> QED
        BY <2>0, <3>1, ValuesAssumption
    <2>3. CASE ConstructObject(s)
      <3>1. file'[i].mutex = file[i].mutex /\ file'[i].old = file[i].old
        BY <2>3 DEF ConstructObject, TypeOK, FileTypes
      <3> QED
        BY <2>0, <3>1
    <2> QED
      BY <1>5, <2>0, <2>1, <2>2, <2>3, ConstructFrame
  <1>6. ASSUME NEW p \in Procs, Delete(p) PROVE file'[i].mutex # Dead
    BY <1>1, <1>6, DeleteFrame
  <1>7. ASSUME NEW c \in Clients, Use(c) PROVE file'[i].mutex # Dead
    <2>0. ~file[i].old => file[i].mutex # Dead
      BY <1>1, <1>7, UseFrame
    <2>1. CASE Lock(c) \/ Unlock(c)
      <3>1. /\ file'[i].mutex \in {c, Free, file[i].mutex}
            /\ file'[i].old = file[i].old
        BY <2>1, MutexFrame
      <3> QED
        BY <2>0, <3>1, ValuesAssumption
    <2> QED
      BY <1>7, <2>0, <2>1, UseFrame
  <1> QED
    BY <1>2, <1>3, <1>4, <1>5, <1>6, <1>7, StepsInDetail DEF Procs

-----------------------------------------------------------------------------
\* Servers that do not share a file name.
LEMMA OwnNames ==
    ASSUME TypeOK, Distinct, NEW s \in node, NEW t \in node, s # t
    PROVE  BackedFile(s) # BackedFile(t)
  <1>1. CASE kind = "container"
    BY <1>1 DEF BackedFile
  <1>2. CASE Cardinality(node) = 1
    BY <1>2, SingleServer
  <1> QED
    BY <1>1, <1>2 DEF Distinct

\* What such a server has linked under its name, as numbers say it.
MutexMade(s) == at[s] >= IF kind = "container" THEN 3 ELSE 5

Linked(s) ==
    /\ Removed(s) /\ ~Created(s) => dir[BackedFile(s)] = None
    /\ Created(s) /\ at[s] # 6 =>
          /\ dir[BackedFile(s)] # None
          /\ fate[s] = "alive" => maps[s] = dir[BackedFile(s)]
          /\ at[s] >= 4 => file[dir[BackedFile(s)]].object = s
          /\ MutexMade(s) => file[dir[BackedFile(s)]].mutex # None

LEMMA ServingPlace == TypeOK => (Serving <=> \A s \in node : Linked(s))
  <1> SUFFICES ASSUME TypeOK
               PROVE  \A s \in node : /\ Has(s, "RemoveOld") <=> Removed(s)
                                      /\ Has(s, "Create") <=> Created(s)
                                      /\ Has(s, "ConstructObject") <=> at[s] >= 4
                                      /\ Has(s, "ConstructMutex") <=> MutexMade(s)
                                      /\ Done(s) <=> at[s] = 6
    BY DEF Serving, Linked, Alive
  <1> QED
    BY ServerPlaces DEF ServerFacts, Removed, Created, MutexMade

LEMMA ServingPlaceNext == TypeOK' => (Serving <=> \A s \in node : Linked(s))'
  BY ServingPlace, PTL

LEMMA ServingStep ==
    /\ TypeOK /\ CallsInPlace /\ LinksDiffer /\ Distinct /\ Serving /\ Next
    => Serving'
  <1> SUFFICES ASSUME TypeOK, CallsInPlace, LinksDiffer, Distinct, Serving, Next
               PROVE  Serving'
    OBVIOUS
  <1>0. kind' = kind /\ node' = node /\ \A s : BackedFile(s)' = BackedFile(s)
    BY ProgramStays, SameProgram
  <1> SUFFICES ASSUME NEW s \in node PROVE Linked(s)'
    BY <1>0, TypeStep, ServingPlaceNext
  <1>1. Linked(s)
    BY ServingPlace
  <1>2. /\ s \in Servers /\ s \notin Clients /\ s \in Procs /\ node \subseteq Servers
        /\ at[s] \in Nat /\ BackedFile(s) \in Names
        /\ dir[BackedFile(s)] # None => dir[BackedFile(s)] \in Inodes
    BY ProgramTypes, ProcessesAssumption, FileTypesOf DEF TypeOK, Procs
  <1>3. ASSUME at'[s] = at[s], dir'[BackedFile(s)] = dir[BackedFile(s)],
               fate'[s] = "alive" => fate[s] = "alive" /\ maps'[s] = maps[s],
               \A i \in Inodes : i = dir[BackedFile(s)] =>
                  /\ file'[i].object = file[i].object
                  /\ file'[i].mutex = None => file[i].mutex = None
        PROVE  Linked(s)'
    BY <1>0, <1>1, <1>2, <1>3 DEF Linked, Removed, Created, MutexMade
  <1>4. CASE Death
    <2>1. \A i \in Inodes : file'[i].mutex = None => file[i].mutex = None
      BY <1>4, ValuesAssumption DEF Death, Die, TypeOK, FileTypes
    <2> QED
      BY <1>2, <1>3, <1>4, <2>1, DeathFrame
  <1>5. CASE NextJob
    BY <1>0, <1>2, <1>5, NextJobFrame DEF Linked, Removed, Created
  <1>6. ASSUME NEW t \in node, RemoveOld(t) PROVE Linked(s)'
    <2>1. /\ dir' = [dir EXCEPT ![BackedFile(t)] = None]
          /\ maps' = maps /\ file' = file /\ fate' = fate
          /\ at[t] = IF kind = "container" THEN 0 ELSE 1
      BY <1>6, ServerAt DEF RemoveOld
    <2>2. CASE s = t
      BY <1>0, <1>2, <1>6, <2>1, <2>2, ConstructFrame
      DEF Construct, Linked, Removed, Created, TypeOK
    <2>3. CASE s # t
      BY <1>2, <1>3, <1>6, <2>1, <2>3, ConstructFrame, OwnNames
      DEF Construct, TypeOK
    <2> QED
      BY <2>2, <2>3
  <1>7. ASSUME NEW t \in node, Create(t) PROVE Linked(s)'
    <2>1. dir[BackedFile(s)] # FreshFile
      BY <1>2, <1>7, CreateFrame DEF InUse
    <2>2. CASE s = t
      <3>1. /\ at'[s] = IF kind = "container" THEN 2 ELSE 3
            /\ dir'[BackedFile(s)] = FreshFile /\ maps'[s] = FreshFile
            /\ FreshFile # None
        BY <1>2, <1>7, <2>2, CreateFrame, ConstructFrame, ValuesAssumption
        DEF Construct, TypeOK
      <3> QED
        BY <1>0, <3>1 DEF Linked, Removed, Created, MutexMade
    <2>3. CASE s # t
      <3>1. at'[s] = at[s] /\ maps'[s] = maps[s] /\ fate' = fate
        BY <1>2, <1>7, <2>3, ConstructFrame DEF Construct
      <3>2. dir'[BackedFile(s)] = dir[BackedFile(s)]
        BY <1>2, <1>7, <2>3, CreateFrame, OwnNames DEF TypeOK
      <3>3. \A i \in Inodes : i = dir[BackedFile(s)] => file'[i] = file[i]
        BY <1>7, <2>1, CreateFrame
      <3> QED
        BY <1>3, <3>1, <3>2, <3>3
    <2> QED
      BY <2>2, <2>3
  <1>8. ASSUME NEW t \in node, ConstructMutex(t) PROVE Linked(s)'
    <2>1. /\ file' = [file EXCEPT ![maps[t]].mutex = Free]
          /\ maps' = maps /\ dir' = dir /\ fate' = fate /\ fate[t] = "alive"
          /\ at[t] = IF kind = "container" THEN 2 ELSE 4
      BY <1>8, ServerAt DEF ConstructMutex, Alive
    <2>2. \A i \in Inodes : /\ file'[i].object = file[i].object
                            /\ file'[i].mutex = None => file[i].mutex = None
      BY <2>1, ValuesAssumption DEF TypeOK, FileTypes
    <2>3. CASE s = t
      <3>1. /\ at'[s] = at[s] + 1 /\ Created(s) /\ at[s] # 6
            /\ at[s] >= 4 <=> at'[s] >= 4
        <4>1. at'[s] = at[s] + 1
          BY <1>8, <2>3, ConstructFrame DEF Construct
        <4>2. CASE kind = "container"
          BY <2>1, <2>3, <4>1, <4>2 DEF Created
        <4>3. CASE kind # "container"
          BY <2>1, <2>3, <4>1, <4>3 DEF Created
        <4> QED
          BY <4>2, <4>3
      <3>2. /\ dir[BackedFile(s)] # None /\ maps[s] = dir[BackedFile(s)]
            /\ at[s] >= 4 => file[dir[BackedFile(s)]].object = s
        BY <1>1, <2>1, <2>3, <3>1 DEF Linked
      <3>3. file'[dir[BackedFile(s)]].mutex = Free /\ Free # None
        BY <1>2, <2>1, <2>3, <3>2, ValuesAssumption DEF TypeOK, FileTypes
      <3>4. Created(s)'
        BY <1>0, <1>2, <3>1 DEF Created
      <3> QED
        BY <1>0, <1>2, <2>1, <2>2, <3>1, <3>2, <3>3, <3>4 DEF Linked
    <2>4. CASE s # t
      BY <1>2, <1>3, <1>8, <2>1, <2>2, <2>4, ConstructFrame DEF Construct
    <2> QED
      BY <2>3, <2>4
  <1>9. ASSUME NEW t \in node, ConstructObject(t) PROVE Linked(s)'
    <2>1. /\ file' = [file EXCEPT ![maps[t]].object = t]
          /\ maps' = maps /\ dir' = dir /\ fate' = fate /\ fate[t] = "alive"
          /\ at[t] = 3
      BY <1>9, ServerAt DEF ConstructObject, Alive
    <2>2. \A i \in Inodes : /\ file'[i].mutex = file[i].mutex
                            /\ i # maps[t] => file'[i].object = file[i].object
      BY <2>1 DEF TypeOK, FileTypes
    <2>3. maps[t] = dir[BackedFile(t)] /\ dir[BackedFile(t)] # None
      BY <2>1, ServingPlace DEF Linked, Created
    <2>4. CASE s = t
      <3>1. at'[s] = 4 /\ Created(s)' /\ (MutexMade(s)' <=> MutexMade(s))
        <4>1. at'[s] = 4 /\ at[s] = 3
          BY <1>9, <2>1, <2>4, ConstructFrame DEF Construct
        <4> QED
          BY <1>0, <4>1 DEF Created, MutexMade
      <3>2. MutexMade(s) => file[dir[BackedFile(s)]].mutex # None
        BY <1>1, <2>1, <2>4 DEF Linked, Created
      <3>3. file'[dir[BackedFile(s)]].object = s
        BY <1>2, <2>1, <2>3, <2>4 DEF TypeOK, FileTypes
      <3> QED
        BY <1>0, <1>2, <2>1, <2>2, <2>3, <2>4, <3>1, <3>2, <3>3 DEF Linked
    <2>5. CASE s # t
      <3>1. dir[BackedFile(s)] # maps[t]
        BY <1>2, <2>3, <2>5, OwnNames, ProgramTypes DEF LinksDiffer
      <3>2. at'[s] = at[s]
        BY <1>2, <1>9, <2>5, ConstructFrame DEF Construct
      <3> QED
        BY <1>3, <2>1, <2>2, <3>1, <3>2
    <2> QED
      BY <2>4, <2>5
  <1>10. ASSUME NEW t \in node, Bind(t) PROVE Linked(s)'
    <2>1. /\ file' = file /\ maps' = maps /\ dir' = dir /\ fate' = fate
          /\ at[t] = IF kind = "container" THEN 4 ELSE 0
      BY <1>10, ServerAt DEF Bind, files
    <2>2. CASE s = t
      <3>1. at'[s] = at[s] + 1
        BY <1>10, <2>2, ConstructFrame DEF Construct
      <3>2. CASE kind = "container"
        BY <1>0, <1>1, <2>1, <2>2, <3>1, <3>2
        DEF Linked, Removed, Created, MutexMade
      <3>3. CASE kind # "container"
        BY <1>0, <2>1, <2>2, <3>1, <3>3 DEF Linked, Removed, Created
      <3> QED
        BY <3>2, <3>3
    <2>3. CASE s # t
      BY <1>2, <1>3, <1>10, <2>1, <2>3, ConstructFrame DEF Construct
    <2> QED
      BY <2>2, <2>3
  <1>11. ASSUME NEW p \in Procs, Delete(p) PROVE Linked(s)'
    <2>1. CASE s = p
      <3>1. at'[s] = 6
        BY <1>11, <2>1, DeleteFrame
      <3> QED
        BY <1>0, <3>1 DEF Linked, Removed, Created
    <2>2. CASE s # p
      <3>1. dir'[BackedFile(s)] = dir[BackedFile(s)]
        <4>1. p \in node => BackedFile(p) # BackedFile(s)
          BY <2>2, OwnNames
        <4> QED
          BY <1>2, <1>11, <4>1, DeleteFrame DEF TypeOK, Procs
      <3> QED
        BY <1>2, <1>3, <1>11, <2>2, <3>1, DeleteFrame
    <2> QED
      BY <2>1, <2>2
  <1>12. ASSUME NEW c \in Clients, Use(c) PROVE Linked(s)'
    <2>1. \A i \in Inodes : file'[i].mutex = None => file[i].mutex = None
      <3>1. CASE Lock(c) \/ Unlock(c)
        BY <3>1, MutexFrame, ValuesAssumption
      <3> QED
        BY <1>12, <3>1, UseFrame
    <2> QED
      BY <1>2, <1>3, <1>12, <2>1, UseFrame
  <1> QED
    BY <1>4, <1>5, <1>6, <1>7, <1>8, <1>9, <1>10, <1>11, <1>12, Steps
    DEF Procs, Construct

-----------------------------------------------------------------------------
\* A client that is not at its exit finds its server's object there.
LEMMA ServerIsUp ==
    ASSUME TypeOK, AfterBarrier, DeleteTogether, Serving, barrier,
           NEW c \in Clients, ServerOnNode[c], at[c] < 3,
           at[c] > 0 \/ MayStart(c)
    PROVE  LET i == dir[BackedFile(MyServer[c])]
           IN  i # None /\ file[i].object = MyServer[c] /\ file[i].mutex # None
  <1>1. MyServer[c] \in node
    BY ProgramTypes
  <1>2. at[MyServer[c]] >= 5
    <2>1. CASE at[c] > 0
      BY <1>1, <2>1, PastBarrier
    <2>2. CASE MayStart(c)
      BY <1>1, <2>2, ServerPlaces DEF MayStart, ServerFacts
    <2> QED
      BY <2>1, <2>2
  <1>3. at[MyServer[c]] # 6
    <2>1. ~AllAtExit
      BY DEF AllAtExit, TypeOK
    <2> QED
      BY <1>1, <2>1, ExitPlace DEF SomeoneDone
  <1>4. Linked(MyServer[c]) /\ at[MyServer[c]] \in Nat
    BY <1>1, ServingPlace, ServerPlaces DEF ServerFacts
  <1> QED
    BY <1>2, <1>3, <1>4 DEF Linked, Created, MutexMade

LEMMA AttachedPlace ==
    TypeOK => (Attached <=> \A c \in Clients : ServerOnNode[c] /\ fate[c] = "alive" =>
        /\ at[c] >= 1 /\ at[c] < 3 => maps[c] = dir[BackedFile(MyServer[c])]
        /\ at[c] >= 2 => found[c])
  <1> SUFFICES ASSUME TypeOK
               PROVE  \A c \in Clients : ServerOnNode[c] =>
                          /\ Has(c, "Open") <=> at[c] >= 1
                          /\ Has(c, "Find") <=> at[c] >= 2
                          /\ ~AtExit(c) <=> at[c] < 3
    BY DEF Attached, Alive
  <1> QED
    BY ClientPlace DEF ClientFacts

LEMMA AttachedPlaceNext ==
    TypeOK' => (Attached <=> \A c \in Clients : ServerOnNode[c] /\ fate[c] = "alive" =>
        /\ at[c] >= 1 /\ at[c] < 3 => maps[c] = dir[BackedFile(MyServer[c])]
        /\ at[c] >= 2 => found[c])'
  BY AttachedPlace, PTL

LEMMA AttachedStep ==
    /\ TypeOK /\ CallsInPlace /\ AfterBarrier /\ DeleteTogether /\ barrier
    /\ Serving /\ Attached /\ Next
    => Attached'
  <1> SUFFICES ASSUME TypeOK, CallsInPlace, AfterBarrier, DeleteTogether, barrier,
                      Serving, Attached, Next
               PROVE  Attached'
    OBVIOUS
  <1>0. \A s : BackedFile(s)' = BackedFile(s)
    BY ProgramStays, SameProgram
  <1> SUFFICES ASSUME NEW c \in Clients, ServerOnNode[c], fate'[c] = "alive"
               PROVE  /\ at'[c] >= 1 /\ at'[c] < 3 =>
                            maps'[c] = dir'[BackedFile(MyServer[c])]
                      /\ at'[c] >= 2 => found'[c]
    BY <1>0, TypeStep, AttachedPlaceNext
  <1>1. fate[c] = "alive" =>
           /\ at[c] >= 1 /\ at[c] < 3 => maps[c] = dir[BackedFile(MyServer[c])]
           /\ at[c] >= 2 => found[c]
    BY AttachedPlace
  <1>2. /\ c \in Servers \cup Clients /\ c \notin Servers /\ c \in Procs
        /\ at[c] \in Nat /\ at'[c] \in Nat
    BY ProcessesAssumption, TypeStep DEF TypeOK, Procs
  <1>3. CASE Death
    BY <1>1, <1>2, <1>3, DeathFrame
  <1>4. CASE NextJob
    BY <1>2, <1>4, NextJobFrame
  <1>5. ASSUME NEW t \in node, Construct(t) PROVE at'[c] = 0
    <2>1. at[t] < 5 /\ at[t] \in Nat /\ at'[c] = at[c]
      BY <1>2, <1>5, ConstructFrame
    <2>2. ~(at[c] > 0)
      BY <2>1, PastBarrier
    <2> QED
      BY <1>2, <2>1, <2>2
  <1>6. ASSUME NEW p \in Procs, Delete(p)
        PROVE  at'[c] >= 3 /\ found'[c]
    <2>1. /\ at[c] >= 3 /\ at'[c] \in {at[c], at[c] + 1}
          /\ found' = found /\ fate' = fate
      BY <1>2, <1>6, DeleteFrame
    <2>2. found[c]
      BY <1>1, <1>2, <2>1
    <2> QED
      BY <1>2, <2>1, <2>2
  <1>7. ASSUME NEW d \in Clients, Use(d), d # c
        PROVE  /\ at'[c] = at[c] /\ maps'[c] = maps[c] /\ found'[c] = found[c]
               /\ dir' = dir /\ fate' = fate
    BY <1>2, <1>7, UseFrame
  <1>8. CASE Open(c)
    <2>1. /\ at[c] = 0 /\ at'[c] = at[c] + 1
          /\ maps'[c] = dir[BackedFile(MyServer[c])] /\ dir' = dir
      BY <1>2, <1>8, ClientAt DEF Open, Advance, TypeOK
    <2> QED
      BY <2>1
  <1>9. CASE Find(c)
    <2>1. /\ at[c] = 1 /\ at'[c] = at[c] + 1 /\ maps' = maps /\ dir' = dir
          /\ fate' = fate /\ found'[c] = (FindsObject(c) /\ file[maps[c]].mutex # None)
      BY <1>2, <1>9, ClientAt DEF Find, Advance, TypeOK
    <2>2. maps[c] = dir[BackedFile(MyServer[c])]
      BY <1>1, <2>1
    <2>3. /\ file[maps[c]].object = MyServer[c] /\ file[maps[c]].mutex # None
      BY <2>1, <2>2, ServerIsUp
    <2>4. FindsObject(c)
      BY <2>3, ProgramTypes, ValuesAssumption DEF FindsObject
    <2> QED
      BY <2>1, <2>2, <2>3, <2>4
  <1>10. CASE Return(c)
    <2>1. /\ at[c] = 2 /\ at'[c] = at[c] + 1 /\ found' = found /\ fate' = fate
      BY <1>2, <1>10, CallPlace DEF Return, Advance, files, TypeOK
    <2> QED
      BY <1>1, <2>1
  <1>11. ASSUME Use(c), ~Open(c), ~Find(c), ~Return(c)
         PROVE  /\ at' = at /\ maps' = maps /\ found' = found
                /\ dir' = dir /\ fate' = fate
    BY <1>11, UseFrame
  <1>12. ASSUME NEW d \in Clients, Use(d)
         PROVE  /\ at'[c] >= 1 /\ at'[c] < 3 =>
                      maps'[c] = dir'[BackedFile(MyServer[c])]
                /\ at'[c] >= 2 => found'[c]
    <2>1. CASE d # c
      BY <1>1, <1>7, <1>12, <2>1
    <2>2. CASE d = c
      BY <1>1, <1>8, <1>9, <1>10, <1>11, <1>12, <2>2
    <2> QED
      BY <2>1, <2>2
  <1> QED
    BY <1>2, <1>3, <1>4, <1>5, <1>6, <1>12, Steps DEF Procs

-----------------------------------------------------------------------------
\* Nobody fails.
Cause == \E q \in Procs : fate[q] = "crashed"

LEMMA FailsStep ==
    /\ TypeOK /\ CallsInPlace /\ AfterBarrier /\ DeleteTogether
    /\ HandlersFindState /\ NobodyFails
    /\ (barrier /\ Distinct => Serving /\ Attached) /\ Next
    => NobodyFails'
  <1> SUFFICES ASSUME TypeOK, CallsInPlace, AfterBarrier, DeleteTogether,
                      HandlersFindState, NobodyFails,
                      barrier /\ Distinct => Serving /\ Attached, Next
               PROVE  NobodyFails'
    OBVIOUS
  <1>0. Procs' = Procs
    BY ProgramStays, SameProgram
  <1> SUFFICES ASSUME barrier, Distinct, NEW p \in Procs
               PROVE  fate'[p] # "construct" /\ (fate'[p] = "call" => Cause')
    BY <1>0, ProgramStays, SameProgram DEF NobodyFails, Cause
  <1>1. \A q \in Procs : fate[q] # "construct" /\ (fate[q] = "call" => Cause)
    BY DEF NobodyFails, Cause
  <1>2. Procs \subseteq Servers \cup Clients /\ Serving /\ Attached
    BY ProgramTypes
  <1>3. CASE fate' = fate
    BY <1>0, <1>1, <1>3 DEF Cause
  <1>4. CASE NextJob
    BY <1>2, <1>4, NextJobFrame
  <1>5. ASSUME NEW q \in Procs, NEW how, Die(q, how), Alive(q), Cause
        PROVE  Cause'
    BY <1>0, <1>2, <1>5 DEF Die, Alive, Cause, TypeOK
  <1>6. ASSUME NEW q \in Procs, Crash(q)
        PROVE  fate'[p] # "construct" /\ (fate'[p] = "call" => Cause')
    <2>1. /\ fate'[q] = "crashed"
          /\ \A r \in Procs : r # q => fate'[r] = fate[r]
      BY <1>2, <1>6 DEF Crash, Die, TypeOK
    <2> QED
      BY <1>0, <1>1, <2>1 DEF Cause
  <1>7. ASSUME NEW s \in node, CreateThrows(s) PROVE FALSE
    <2>1. /\ at[s] = IF kind = "container" THEN 1 ELSE 2
          /\ dir[BackedFile(s)] # None
      BY <1>7, ServerAt DEF CreateThrows
    <2> QED
      BY <1>2, <2>1, ServingPlace DEF Linked, Removed, Created
  <1>8. ASSUME NEW c \in Clients, OpenThrows(c) PROVE FALSE
    BY <1>2, <1>8, ClientAt, ServerIsUp DEF OpenThrows
  <1>9. ASSUME NEW c \in Clients, FindCrashes(c) PROVE FALSE
    <2>1. /\ at[c] = 1 /\ ServerOnNode[c] /\ fate[c] = "alive"
          /\ kind = "container" /\ ~FindsObject(c)
      BY <1>9, ClientAt DEF FindCrashes, Alive
    <2>2. maps[c] = dir[BackedFile(MyServer[c])]
      BY <1>2, <2>1, AttachedPlace
    <2>3. file[maps[c]].object = MyServer[c]
      BY <1>2, <2>1, <2>2, ServerIsUp
    <2> QED
      BY <2>1, <2>3 DEF FindsObject
  <1>10. ASSUME NEW c \in Clients, InvokeCrashes(c) PROVE FALSE
    <2>1. at[c] = 2 /\ ServerOnNode[c] /\ fate[c] = "alive" /\ ~found[c]
      BY <1>10, ClientAt DEF InvokeCrashes, Alive
    <2> QED
      BY <1>2, <2>1, AttachedPlace
  <1>11. ASSUME NEW c \in Clients, WildCrashes(c) PROVE FALSE
    BY <1>11 DEF WildCrashes, HandlersFindState
  <1>12. ASSUME NEW c \in Clients, Refused(c)
         PROVE  fate'[p] # "construct" /\ (fate'[p] = "call" => Cause')
    <2>1. /\ stage[c] # "none" /\ Alive(c) /\ Die(c, "call") /\ c \in Procs
          /\ \/ ~Alive(target[c])
             \/ stage[c] = "sent" /\ ~Has(target[c], "Bind")
      BY <1>12 DEF Refused, Procs
    <2>2. target[c] \in node /\ target[c] \in Procs
      BY <2>1, CallPlace DEF Procs
    <2>3. at[target[c]] >= 5
      BY <2>1, <2>2, PastBarrier
    <2>4. Has(target[c], "Bind")
      BY <2>2, <2>3, ServerPlaces DEF ServerFacts
    <2>5. ~Alive(target[c])
      BY <2>1, <2>4
    <2>6. fate[target[c]] \in {"crashed", "call"}
      BY <1>1, <1>2, <2>2, <2>5 DEF Alive, TypeOK
    <2>7. Cause
      BY <1>1, <2>2, <2>6 DEF Cause
    <2>8. Cause'
      BY <1>5, <2>1, <2>7
    <2>9. fate'[p] \in {fate[p], "call"}
      BY <1>2, <2>1 DEF Die, TypeOK
    <2> QED
      BY <1>1, <2>8, <2>9
  <1> QED
    BY <1>3, <1>4, <1>6, <1>7, <1>8, <1>9, <1>10, <1>11, <1>12, StepsInDetail,
       UseFrame, ConstructFrame, DeleteFrame DEF Procs, Failure

-----------------------------------------------------------------------------
LEMMA InitHolds == Init => IndInv
  <1> SUFFICES ASSUME Init PROVE IndInv
    OBVIOUS
  <1>0. /\ \A q \in Servers \cup Clients : at[q] = 0 /\ fate[q] = "alive" /\ maps[q] = None
        /\ \A c \in Clients : ~found[c] /\ stage[c] = "none"
        /\ \A n \in Names : dir[n] = None
        /\ \A i \in Inodes : file[i] = Blank
        /\ target = MyServer /\ crashes = 0 /\ program \in Programs
    BY DEF Init, AllStart, AllAlive, NothingMapped, NothingFound, NoCalls
  <1>1. TypeOK
    <2>1. program \in [kind : {"container", "sequence", "clock"},
                       node : SUBSET Servers, barrier : BOOLEAN, kills : Nat]
      BY <1>0, ProcessesAssumption
    <2>2. Procs \subseteq Servers \cup Clients /\ program.kills \in Nat
      BY <2>1 DEF Procs, node
    <2>3. ASSUME NEW q \in Procs PROVE at[q] <= Len(Script(q))
      <3>1. Script(q) \in {ContainerScript, SequenceScript, MappedScript, RemoteScript}
        BY DEF Script, ClientScript, MappedScript, RemoteScript
      <3> QED
        BY <1>0, <2>2, <3>1, ContainerPlaces, SequencePlaces, MappedPlaces, RemotePlaces
    <2>4. Blank \in FileTypes
      BY DEF Blank, FileTypes
    <2> QED
      BY <1>0, <2>2, <2>3, <2>4, ProcessesAssumption
      DEF Init, TypeOK, AllStart, AllAlive, NothingMapped, NothingFound, NoCalls
  <1>2. /\ node \subseteq Servers /\ Procs \subseteq Servers \cup Clients
        /\ \A s \in node : BackedFile(s) \in Names
    BY <1>1, ProgramTypes
  <1>3. CallsInPlace /\ AfterBarrier /\ HandlersFindState
    BY <1>0 DEF CallsInPlace, AfterBarrier, HandlersFindState
  <1>4. DeleteTogether
    BY <1>0, <1>1, <1>2, ExitPlace DEF SomeoneDone
  <1>5. MappedByOpen /\ FoundIsOwn /\ LinksDiffer
    BY <1>0 DEF MappedByOpen, FoundIsOwn, LinksDiffer
  <1>6. FilesAreNew
    BY <1>0, <1>1, <1>2, FilesPlace DEF Removed
  <1>7. ObjectsAreNew /\ NoDeadLocks
    BY <1>0, ValuesAssumption DEF ObjectsAreNew, NoDeadLocks, Blank
  <1>8. NobodyFails
    BY <1>0, <1>2 DEF NobodyFails
  <1>9. Serving
    BY <1>0, <1>1, <1>2, ServingPlace DEF Linked, Removed, Created
  <1>10. Attached
    BY <1>0, <1>1, AttachedPlace
  <1> QED
    BY <1>1, <1>3, <1>4, <1>5, <1>6, <1>7, <1>8, <1>9, <1>10 DEF IndInv

LEMMA Stutter == IndInv /\ UNCHANGED vars => IndInv'
  <1> SUFFICES ASSUME IndInv, UNCHANGED vars PROVE IndInv'
    OBVIOUS
  <1>1. /\ UNCHANGED <<program, at, fate, dir, file, maps, found, stage, target, crashes>>
    BY DEF vars, files, calls
  <1> QED
    BY <1>1 DEF IndInv, TypeOK, CallsInPlace, AfterBarrier, DeleteTogether,
       MappedByOpen, LinksDiffer, FilesAreNew, ObjectsAreNew, FoundIsOwn,
       NoDeadLocks, HandlersFindState, NobodyFails, Serving, Attached, Distinct,
       barrier, kind, node, Procs, AtExit, Done, Has, Script, BackedFile, Alive

LEMMA StepHolds == IndInv /\ Next => IndInv'
  <1> SUFFICES ASSUME IndInv, Next PROVE IndInv'
    OBVIOUS
  <1> USE DEF IndInv
  <1>1. TypeOK' /\ CallsInPlace'
    BY TypeStep, CallsStep
  <1>2. AfterBarrier' /\ DeleteTogether' /\ MappedByOpen' /\ LinksDiffer'
    BY BarrierStep, ExitStep, MappedStep, LinksStep
  <1>3. FilesAreNew' /\ ObjectsAreNew'
    BY FilesStep, ObjectsStep
  <1>4. FoundIsOwn'
    BY FoundStep
  <1>5. HandlersFindState' /\ NoDeadLocks'
    BY HandlersStep, LocksStep
  <1>6. NobodyFails'
    BY FailsStep
  <1>7. ASSUME barrier', Distinct' PROVE Serving' /\ Attached'
    <2>1. barrier /\ Distinct
      BY <1>7, ProgramStays, SameProgram
    <2> QED
      BY <2>1, ServingStep, AttachedStep
  <1> QED
    BY <1>1, <1>2, <1>3, <1>4, <1>5, <1>6, <1>7

\* Whatever is killed, whenever, and however often the job is run again: the
\* conjuncts of IndInv hold, TypeOK among them.
THEOREM Inductive == Spec => []IndInv
  <1>1. IndInv /\ [Next]_vars => IndInv'
    BY Stutter, StepHolds
  <1> QED
    BY <1>1, InitHolds, PTL DEF Spec

\* Constructors with the tests' barrier succeed (unordered_map.cpp:47,
\* global_sequence.cpp:46, global_clock.cpp:50), and only a kill in the same job
\* makes a call fail.
THEOREM ConstructorsSucceed == Spec => []NobodyFails
  <1>1. IndInv => NobodyFails
    BY DEF IndInv
  <1> QED
    BY <1>1, Inductive, PTL

\* A handler runs only when the pointers that it follows are set.
THEOREM HandlersSafe == Spec => []HandlersFindState
  <1>1. IndInv => HandlersFindState
    BY DEF IndInv
  <1> QED
    BY <1>1, Inductive, PTL

\* A client that maps a file works on its own server's, of this job.
THEOREM ClientsMeet == Spec => []ClientsMeetServer
  <1>1. IndInv => ClientsMeetServer
    <2> SUFFICES ASSUME IndInv, barrier, kind = "clock" => Cardinality(node) = 1,
                        NEW c \in Clients, found[c], maps[c] # None
                 PROVE  /\ file[maps[c]].object = MyServer[c] /\ ~file[maps[c]].old
                        /\ maps[MyServer[c]] \in {maps[c], None}
      BY DEF ClientsMeetServer
    <2>1. file[maps[c]].object = MyServer[c] /\ ~file[maps[c]].old
      BY DEF IndInv, FoundIsOwn, FilesAreNew
    <2>2. maps[c] \in Inodes /\ MyServer[c] # None
      BY FileTypesOf, ProgramTypes, ValuesAssumption DEF IndInv
    <2> QED
      BY <2>1, <2>2 DEF IndInv, ObjectsAreNew
  <1> QED
    BY <1>1, Inductive, PTL

\* A mutex that a process of an earlier job died with is in nobody's way: its
\* file has been removed before anybody maps one of that name.
THEOREM LocksAreNew == Spec => []NoStaleLock
  <1>1. IndInv => NoStaleLock
    <2> SUFFICES ASSUME IndInv, barrier, \A p \in Procs : fate[p] # "crashed",
                        NEW p \in Procs, maps[p] # None
                 PROVE  file[maps[p]].mutex # Dead
      BY DEF NoStaleLock
    <2>1. ~file[maps[p]].old
      BY DEF IndInv, FilesAreNew, Procs
    <2>2. maps[p] \in Inodes
      BY FileTypesOf, ProgramTypes DEF IndInv
    <2> QED
      BY <2>1, <2>2 DEF IndInv, NoDeadLocks
  <1> QED
    BY <1>1, Inductive, PTL

=============================================================================
