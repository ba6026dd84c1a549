------------------------ MODULE ClientTable_proofs ------------------------
(***************************************************************************)
(* Proofs about ClientTable, for any number of clients, entries and        *)
(* descriptors.                                                            *)
(***************************************************************************)
EXTENDS ClientTable, WellFoundedInduction, TLAPS

Owners == Clients \cup {Snull, Leaked}

\* A set of naturals has a least element.
LEMMA LowestIsIn ==
  ASSUME NEW S, S \subseteq Nat, S # {}
  PROVE  Lowest(S) \in S
<1> DEFINE R == {ss \in Nat \X Nat : ss[1] < ss[2]}
<1>1. IsWellFoundedOn(R, Nat)
  BY NatLessThanWellFounded DEF OpToRel
<1>2. PICK x \in S : \A y \in S : ~ (<<y, x>> \in R)
  <2> HIDE DEF R
  <2> QED BY <1>1, WFMin
<1>3. \A y \in S : ~ (y < x)
  BY <1>2
<1>4. \A y \in S : x <= y
  BY <1>3
<1> QED BY <1>4, Zenon DEF Lowest

\* What opening a descriptor does.
LEMMA Opening ==
  ASSUME NEW f \in [Descriptors -> Owners], FreeIn(f) # {}, NEW owner \in Owners
  PROVE  /\ FdOpened(f) \in Descriptors
         /\ f[FdOpened(f)] = Snull
         /\ OpenFor(f, owner) \in [Descriptors -> Owners]
         /\ OpenFor(f, owner)[FdOpened(f)] = owner
         /\ \A d \in Descriptors : d # FdOpened(f) => OpenFor(f, owner)[d] = f[d]
<1>1. FreeIn(f) \subseteq Descriptors /\ Descriptors \subseteq Nat
  BY ClientTableAssumption DEF FreeIn
<1>2. FdOpened(f) \in FreeIn(f)
  BY <1>1, LowestIsIn DEF FdOpened
<1> QED BY <1>2 DEF FreeIn, OpenFor, FdOpened

LEMMA OpeningKeeps ==
  ASSUME NEW f \in [Descriptors -> Owners], FreeIn(f) # {}, NEW owner \in Owners
  PROVE  /\ OpenFor(f, owner) \in [Descriptors -> Owners]
         /\ \A d \in Descriptors : f[d] # Snull => OpenFor(f, owner)[d] = f[d]
<1> DEFINE g == OpenFor(f, owner)
<1>1. /\ f[FdOpened(f)] = Snull /\ g \in [Descriptors -> Owners]
      /\ \A d \in Descriptors : d # FdOpened(f) => g[d] = f[d]
  BY Opening
<1> HIDE DEF g
<1>2. \A d \in Descriptors : f[d] # Snull => g[d] = f[d]
  BY <1>1
<1> QED BY <1>1, <1>2 DEF g

\* What opening two does.
LEMMA OpeningTwo ==
  ASSUME NEW f \in [Descriptors -> Owners], \E d, e \in FreeIn(f) : d # e,
         NEW c \in Clients,
         NEW g, g = OpenFor(f, c)
  PROVE  /\ FdOpened(f) \in Descriptors /\ FdOpened(g) \in Descriptors
         /\ FdOpened(f) # FdOpened(g)
         /\ OpenFor(g, c) \in [Descriptors -> Owners]
         /\ OpenFor(g, c)[FdOpened(f)] = c /\ OpenFor(g, c)[FdOpened(g)] = c
         /\ \A d \in Descriptors : f[d] # Snull => OpenFor(g, c)[d] = f[d]
<1>0. c \in Owners /\ c # Snull /\ FreeIn(f) # {}
  BY ClientTableAssumption DEF Owners
<1>1. /\ FdOpened(f) \in Descriptors /\ f[FdOpened(f)] = Snull
      /\ g \in [Descriptors -> Owners] /\ g[FdOpened(f)] = c
      /\ \A d \in Descriptors : d # FdOpened(f) => g[d] = f[d]
  BY <1>0, Opening
<1>2. FreeIn(g) # {}
  BY <1>1 DEF FreeIn
<1>3. /\ FdOpened(g) \in Descriptors /\ g[FdOpened(g)] = Snull
      /\ OpenFor(g, c) \in [Descriptors -> Owners] /\ OpenFor(g, c)[FdOpened(g)] = c
      /\ \A d \in Descriptors : d # FdOpened(g) => OpenFor(g, c)[d] = g[d]
  BY <1>0, <1>1, <1>2, Opening
<1> QED BY <1>0, <1>1, <1>3

LEMMA Closing ==
  ASSUME NEW f \in [Descriptors -> Owners], NEW d \in Descriptors \cup {NoFd}
  PROVE  /\ Closed(f, d) \in [Descriptors -> Owners]
         /\ \A e \in Descriptors : e # d => Closed(f, d)[e] = f[e]
BY DEF Closed, Owners

\* What oxGetClientID returns and does.
LEMMA NextIDIsFree ==
  ASSUME TableTypeOK, oxGetClientID
  PROVE  /\ NextID \in Ids /\ OxClientListn' \in Ids /\ full' \in BOOLEAN
         /\ OxClientListn <= OxClientListn'
         /\ full => full'
         /\ ~full' => /\ NextID < OxClientListn'
                      /\ OxClientList[NextID] = Snull \/ NextID = OxClientListn
<1>0. MaxClients \in Nat \ {0} /\ OxClientListn \in Ids /\ full \in BOOLEAN
  BY ClientTableAssumption DEF TableTypeOK
<1>1. CASE FreeEntries # {}
  <2>1. FreeEntries \subseteq Nat
    BY <1>0 DEF FreeEntries, Ids
  <2>2. NextID \in FreeEntries
    BY <1>1, <2>1, LowestIsIn DEF NextID
  <2> QED BY <1>0, <1>1, <2>2 DEF FreeEntries, oxGetClientID, Ids
<1>2. CASE FreeEntries = {} /\ OxClientListn < MaxClients - 1
  BY <1>0, <1>2 DEF NextID, oxGetClientID, Ids
<1>3. CASE FreeEntries = {} /\ ~ (OxClientListn < MaxClients - 1)
  <2>1. OxClientListn >= MaxClients - 1
    BY <1>0, <1>3 DEF Ids
  <2>2. full'
    BY <1>3, <2>1, Zenon DEF oxGetClientID
  <2>3. OxClientListn' = OxClientListn /\ NextID = 0
    BY <1>3, Zenon DEF NextID, oxGetClientID
  <2>4. full' \in BOOLEAN
    BY <2>2, Zenon DEF oxGetClientID
  <2> QED BY <1>0, <2>2, <2>3, <2>4 DEF Ids
<1> QED BY <1>1, <1>2, <1>3

----------------------------------------------------------------------------
LEMMA UnusedIsObject == Unused \in Objects
BY DEF Unused, Objects, AllKinds

\* What the making of a client does to the objects and the descriptors.
LEMMA Creating ==
  ASSUME TableTypeOK, NEW c \in Clients, Create(c)
  PROVE  /\ object[c].tag = "unused"
         /\ \A d \in Clients \ {c} : object'[d] = object[d]
         /\ object' \in [Clients -> Objects]
         /\ object'[c].tag = "client"
         /\ object'[c].data \in Descriptors
         /\ fds' \in [Descriptors -> Owners]
         /\ fds'[object'[c].data] = c
         /\ object'[c].control # NoFd =>
              fds'[object'[c].control] = c /\ object'[c].control # object'[c].data
         /\ \A d \in Descriptors : fds[d] # Snull => fds'[d] = fds[d]
         /\ stale' = stale /\ (shared => shared') /\ closed' = closed /\ reused' = reused
         /\ object'[c].kind = "control101" => shared'
<1>0. /\ fds \in [Descriptors -> Owners] /\ object \in [Clients -> Objects]
      /\ c \in Owners /\ c # Snull /\ nfiles \in Nat /\ FirstFileID \in Nat
      /\ Descriptors \subseteq Nat
  BY ClientTableAssumption DEF TableTypeOK, Owners
<1>1. CASE KoxCreateClient(c)
  <2> DEFINE f == OpenFor(fds, c)
  <2>1. NextID \in Nat
    BY <1>1, NextIDIsFree DEF KoxCreateClient, Ids
  <2>2. \E d, e \in FreeIn(fds) : d # e
    BY <1>1 DEF KoxCreateClient
  <2>3. /\ FdOpened(fds) \in Descriptors /\ FdOpened(f) \in Descriptors
        /\ FdOpened(fds) # FdOpened(f)
        /\ OpenFor(f, c) \in [Descriptors -> Owners]
        /\ OpenFor(f, c)[FdOpened(fds)] = c /\ OpenFor(f, c)[FdOpened(f)] = c
        /\ \A d \in Descriptors : fds[d] # Snull => OpenFor(f, c)[d] = fds[d]
    <3> HIDE DEF f
    <3> QED BY <1>0, <2>2, OpeningTwo DEF f
  <2> DEFINE r == [tag |-> "client", kind |-> "socket", id |-> NextID,
                   data |-> FdOpened(f), control |-> FdOpened(fds)]
  <2>4. fds' = OpenFor(f, c) /\ object' = [object EXCEPT ![c] = r]
        /\ object[c].tag = "unused" /\ stale' = stale /\ shared' = shared
        /\ closed' = closed /\ reused' = reused
    BY <1>1 DEF KoxCreateClient, history
  <2>5. r \in Objects
    BY <2>1, <2>3 DEF Objects, AllKinds
  <2>6. object'[c] = r
    BY <1>0, <2>4
  <2> QED BY <1>0, <2>3, <2>4, <2>5, <2>6
<1>2. CASE CreateClientFile(c)
  <2> DEFINE f == OpenFor(fds, c)
  <2>1. FirstFileID + nfiles \in Nat
    BY <1>0
  <2>2. \E d, e \in FreeIn(fds) : d # e
    BY <1>2 DEF CreateClientFile
  <2>3. /\ FdOpened(fds) \in Descriptors /\ FdOpened(f) \in Descriptors
        /\ FdOpened(fds) # FdOpened(f)
        /\ OpenFor(f, c) \in [Descriptors -> Owners]
        /\ OpenFor(f, c)[FdOpened(fds)] = c /\ OpenFor(f, c)[FdOpened(f)] = c
        /\ \A d \in Descriptors : fds[d] # Snull => OpenFor(f, c)[d] = fds[d]
    <3> HIDE DEF f
    <3> QED BY <1>0, <2>2, OpeningTwo DEF f
  <2> DEFINE r == [tag |-> "client", kind |-> "file", id |-> FirstFileID + nfiles,
                   data |-> FdOpened(fds), control |-> FdOpened(f)]
  <2>4. fds' = OpenFor(f, c) /\ object' = [object EXCEPT ![c] = r]
        /\ object[c].tag = "unused" /\ stale' = stale /\ shared' = shared
        /\ closed' = closed /\ reused' = reused
    BY <1>2 DEF CreateClientFile, history
  <2>5. r \in Objects
    BY <2>1, <2>3 DEF Objects, AllKinds
  <2>6. object'[c] = r
    BY <1>0, <2>4
  <2> QED BY <1>0, <2>3, <2>4, <2>5, <2>6
<1>3. ASSUME NEW kind \in AllKinds, NewClient101(c, kind)
      PROVE  /\ object[c].tag = "unused"
             /\ \A d \in Clients \ {c} : object'[d] = object[d]
             /\ object' \in [Clients -> Objects]
             /\ object'[c].tag = "client" /\ object'[c].kind = kind
             /\ object'[c].data \in Descriptors
             /\ fds' \in [Descriptors -> Owners]
             /\ fds'[object'[c].data] = c
             /\ object'[c].control = NoFd
             /\ \A d \in Descriptors : fds[d] # Snull => fds'[d] = fds[d]
             /\ stale' = stale /\ closed' = closed /\ reused' = reused
  <2>1. NextID \in Nat
    BY <1>3, NextIDIsFree DEF NewClient101, Ids
  <2>2. /\ FdOpened(fds) \in Descriptors
        /\ fds[FdOpened(fds)] = Snull
        /\ OpenFor(fds, c) \in [Descriptors -> Owners]
        /\ OpenFor(fds, c)[FdOpened(fds)] = c
        /\ \A d \in Descriptors : d # FdOpened(fds) => OpenFor(fds, c)[d] = fds[d]
    BY <1>0, <1>3, Opening DEF NewClient101
  <2> DEFINE r == [tag |-> "client", kind |-> kind, id |-> NextID,
                   data |-> FdOpened(fds), control |-> NoFd]
  <2>3. fds' = OpenFor(fds, c) /\ object' = [object EXCEPT ![c] = r]
        /\ object[c].tag = "unused" /\ stale' = stale /\ closed' = closed /\ reused' = reused
    BY <1>3 DEF NewClient101
  <2>4. r \in Objects
    BY <2>1, <2>2 DEF Objects
  <2>5. object'[c] = r
    BY <1>0, <2>3
  <2> QED BY <1>0, <2>2, <2>3, <2>4, <2>5
<1>4. CASE KoxCreateControl_RFC_101(c)
  BY <1>3, <1>4 DEF KoxCreateControl_RFC_101, AllKinds
<1>5. CASE KoxCreateEngine_RFC_101(c)
  BY <1>3, <1>5 DEF KoxCreateEngine_RFC_101, AllKinds
<1> QED BY <1>1, <1>2, <1>4, <1>5 DEF Create

\* What it does to the table, by kind.
LEMMA Entering ==
  ASSUME TableTypeOK, NEW c \in Clients, Create(c)
  PROVE  \/ /\ object'[c].kind = "file" /\ object'[c].id = FirstFileID + nfiles
            /\ nfiles' = nfiles + 1
            /\ UNCHANGED <<OxClientList, OxClientListn, full>>
         \/ /\ object'[c].kind \in {"socket", "engine101"} /\ object'[c].id = NextID
            /\ nfiles' = nfiles
            /\ oxGetClientID
            /\ OxClientList' = [OxClientList EXCEPT ![NextID] = c]
         \/ /\ object'[c].kind = "control101" /\ object'[c].id = NextID
            /\ nfiles' = nfiles
            /\ oxGetClientID
            /\ UNCHANGED OxClientList
<1>0. object \in [Clients -> Objects]
  BY DEF TableTypeOK
<1>1. CASE KoxCreateClient(c)
  BY <1>0, <1>1 DEF KoxCreateClient, oxClientListUpdate
<1>2. CASE CreateClientFile(c)
  BY <1>0, <1>2 DEF CreateClientFile
<1>3. CASE KoxCreateControl_RFC_101(c)
  BY <1>0, <1>3 DEF KoxCreateControl_RFC_101, NewClient101
<1>4. CASE KoxCreateEngine_RFC_101(c)
  BY <1>0, <1>4 DEF KoxCreateEngine_RFC_101, NewClient101, oxClientListUpdate
<1> QED BY <1>1, <1>2, <1>3, <1>4 DEF Create

LEMMA TypeStep ==
  ASSUME TableTypeOK, [Next]_vars
  PROVE  TableTypeOK'
<1>0. /\ OxClientList \in [Ids -> Clients \cup {Snull}]
      /\ OxClientListn \in Ids /\ nfiles \in Nat
      /\ object \in [Clients -> Objects] /\ fds \in [Descriptors -> Owners]
      /\ full \in BOOLEAN /\ stale \in BOOLEAN /\ shared \in BOOLEAN
      /\ closed \subseteq Clients /\ reused \in BOOLEAN
  BY DEF TableTypeOK, Owners
\* Noting a use gives a truth value.
<1>a. ASSUME NEW c \in Clients, NoteUse(c) PROVE reused' \in BOOLEAN
  BY <1>a, Zenon DEF NoteUse
<1>1. ASSUME NEW c \in Clients, Create(c) PROVE TableTypeOK'
  <2>1. /\ object' \in [Clients -> Objects] /\ fds' \in [Descriptors -> Owners]
        /\ stale' = stale /\ closed' = closed /\ reused' = reused
    BY <1>1, Creating
  <2>3. shared' \in BOOLEAN
    BY <1>0, <1>1 DEF Create, KoxCreateClient, CreateClientFile, KoxCreateControl_RFC_101,
      KoxCreateEngine_RFC_101, history
  <2>2. /\ OxClientList' \in [Ids -> Clients \cup {Snull}]
        /\ OxClientListn' \in Ids /\ full' \in BOOLEAN
        /\ nfiles' \in Nat
    BY <1>0, <1>1, Entering, NextIDIsFree
  <2> QED BY <1>0, <2>1, <2>2, <2>3 DEF TableTypeOK, Owners
<1>2. ASSUME NEW c \in Clients, KoxCloseClient(c) PROVE TableTypeOK'
  <2>1. object[c].data \in Descriptors \cup {NoFd} /\ object[c].control \in Descriptors \cup {NoFd}
    BY <1>0 DEF Objects
  <2>2. fds' \in [Descriptors -> Owners]
    BY <1>0, <1>2, <2>1, Closing DEF KoxCloseClient
  <2>3. object' = object /\ closed' \subseteq Clients /\ reused' \in BOOLEAN
    BY <1>0, <1>2, <1>a DEF KoxCloseClient
  <2>4. OxClientList' \in [Ids -> Clients \cup {Snull}]
    BY <1>0, <1>2 DEF KoxCloseClient, oxClientListRemove
  <2>5. /\ stale' = stale /\ shared' = shared
        /\ OxClientListn' = OxClientListn /\ nfiles' = nfiles /\ full' = full
    BY <1>0, <1>2 DEF KoxCloseClient
  <2> QED BY <1>0, <2>2, <2>3, <2>4, <2>5 DEF TableTypeOK, Owners
<1>8. ASSUME NEW c \in Clients, Dropped(c) PROVE TableTypeOK'
  BY <1>0, <1>8, UnusedIsObject DEF Dropped, TableTypeOK, Owners
<1>3. ASSUME NEW c \in Clients, oxshutdown(c) PROVE TableTypeOK'
  <2>1. object[c].data \in Descriptors \cup {NoFd}
    BY <1>0 DEF Objects
  <2>2. fds' \in [Descriptors -> Owners]
    BY <1>0, <1>3, <2>1, Closing DEF oxshutdown
  <2>3. object' \in [Clients -> Objects]
    BY <1>0, <1>3 DEF oxshutdown, Objects
  <2>4. reused' \in BOOLEAN
    BY <1>3, <1>a DEF oxshutdown
  <2> QED BY <1>0, <1>3, <2>2, <2>3, <2>4 DEF oxshutdown, TableTypeOK, Owners
<1>4. ASSUME NEW c \in Clients, oxshutdownAborts(c) \/ SendToGonePeer(c) PROVE TableTypeOK'
  <2>1. object[c].data \in Descriptors \cup {NoFd}
    BY <1>0 DEF Objects
  <2>2. fds' \in [Descriptors -> Owners]
    BY <1>0, <1>4, <2>1, Closing DEF oxshutdownAborts, SendToGonePeer
  <2>3. reused' \in BOOLEAN
    BY <1>4, <1>a DEF oxshutdownAborts, SendToGonePeer
  <2> QED BY <1>0, <1>4, <2>2, <2>3 DEF oxshutdownAborts, SendToGonePeer, TableTypeOK, Owners
<1>5. CASE CreateFails
  <2> DEFINE f == OpenFor(fds, Leaked)
  <2>1. f \in [Descriptors -> Owners]
    BY <1>0, <1>5, Opening DEF CreateFails, Owners
  <2>2. FreeIn(f) # {} => OpenFor(f, Leaked) \in [Descriptors -> Owners]
    <3> HIDE DEF f
    <3> QED BY <2>1, Opening DEF Owners
  <2>3. fds' \in [Descriptors -> Owners]
    BY <1>5, <2>1, <2>2 DEF CreateFails
  <2> QED BY <1>0, <1>5, <2>3 DEF CreateFails, TableTypeOK, Owners, history
<1>6. CASE KoxGetClientList
  BY <1>0, <1>6 DEF KoxGetClientList, TableTypeOK, history
<1>7. CASE UNCHANGED vars
  BY <1>7 DEF vars, history, TableTypeOK
<1> QED BY <1>1, <1>2, <1>3, <1>4, <1>5, <1>6, <1>7, <1>8 DEF Next, End

(***************************************************************************)
(* Type correctness.                                                       *)
(***************************************************************************)
THEOREM TableTypeCorrect == Spec => []TableTypeOK
<1>1. Init => TableTypeOK
  <2> SUFFICES ASSUME Init PROVE TableTypeOK
    OBVIOUS
  <2>1. 0 \in Ids
    BY ClientTableAssumption DEF Ids
  <2> QED BY <2>1, UnusedIsObject DEF Init, TableTypeOK
<1>2. TableTypeOK /\ [Next]_vars => TableTypeOK'
  BY TypeStep
<1> QED BY <1>1, <1>2, PTL DEF Spec

----------------------------------------------------------------------------
(***************************************************************************)
(* No closed client is in the table.  With the fact that only a client     *)
(* that has been made is closed, the invariant is inductive over the types,*)
(* whatever kinds of clients there are and whatever is closed again.       *)
(***************************************************************************)
ClosedWereMade == \A c \in closed : object[c].tag # "unused"

EntriesInvariant == EntriesAreLive /\ ClosedWereMade

LEMMA EntriesStep ==
  ASSUME TableTypeOK, EntriesInvariant, [Next]_vars
  PROVE  EntriesInvariant'
<1>0. /\ OxClientList \in [Ids -> Clients \cup {Snull}]
      /\ object \in [Clients -> Objects] /\ Snull \notin Clients
      /\ closed \subseteq Clients
  BY ClientTableAssumption DEF TableTypeOK
<1>1. ASSUME NEW c \in Clients, Create(c) PROVE EntriesInvariant'
  <2>1. /\ object[c].tag = "unused" /\ object'[c].tag = "client"
        /\ \A d \in Clients \ {c} : object'[d] = object[d]
        /\ closed' = closed
    BY <1>1, Creating
  <2>2. \A i \in Ids : OxClientList[i] # c
    BY <1>0, <2>1 DEF EntriesInvariant, EntriesAreLive
  <2>3. \A i \in Ids : \/ OxClientList'[i] = OxClientList[i]
                       \/ OxClientList'[i] = c /\ object'[c].id = i
    BY <1>0, <1>1, Entering
  <2>5. c \notin closed
    BY <2>1 DEF EntriesInvariant, ClosedWereMade
  <2>4. ASSUME NEW i \in Ids, OxClientList'[i] # Snull
        PROVE  /\ object'[OxClientList'[i]].tag # "unused" /\ object'[OxClientList'[i]].id = i
               /\ OxClientList'[i] \notin closed'
    <3>1. CASE OxClientList'[i] = c /\ object'[c].id = i
      BY <2>1, <2>5, <3>1
    <3>2. CASE OxClientList'[i] = OxClientList[i]
      <4>1. OxClientList[i] \in Clients \ {c}
        BY <1>0, <2>2, <2>4, <3>2
      <4> QED BY <2>1, <2>4, <3>2, <4>1 DEF EntriesInvariant, EntriesAreLive
    <3> QED BY <2>3, <3>1, <3>2
  <2>6. ClosedWereMade'
    BY <1>0, <2>1, <2>5 DEF EntriesInvariant, ClosedWereMade
  <2> QED BY <2>4, <2>6 DEF EntriesInvariant, EntriesAreLive
<1>2. ASSUME NEW c \in Clients, KoxCloseClient(c) PROVE EntriesInvariant'
  <2>1. object' = object /\ closed' = closed \cup {c} /\ object[c].tag = "client"
    BY <1>2 DEF KoxCloseClient
  <2>2. \A i \in Ids : \/ OxClientList'[i] = Snull
                       \/ OxClientList'[i] = OxClientList[i] /\ i # object[c].id
    BY <1>0, <1>2 DEF KoxCloseClient, oxClientListRemove
  <2>3. \A i \in Ids : OxClientList'[i] # c
    BY <1>0, <2>2 DEF EntriesInvariant, EntriesAreLive
  <2>4. EntriesAreLive'
    BY <2>1, <2>2, <2>3 DEF EntriesInvariant, EntriesAreLive
  <2>5. ClosedWereMade'
    BY <2>1 DEF EntriesInvariant, ClosedWereMade
  <2> QED BY <2>4, <2>5 DEF EntriesInvariant
<1>8. ASSUME NEW c \in Clients, Dropped(c) PROVE EntriesInvariant'
  <2>1. /\ OxClientList' = OxClientList /\ closed' = closed \ {c} /\ c \in closed
        /\ \A d \in Clients \ {c} : object'[d] = object[d]
    BY <1>0, <1>8 DEF Dropped
  <2>2. \A i \in Ids : OxClientList[i] # Snull => OxClientList[i] \in Clients \ {c}
    BY <1>0, <2>1 DEF EntriesInvariant, EntriesAreLive
  <2>3. EntriesAreLive'
    BY <2>1, <2>2 DEF EntriesInvariant, EntriesAreLive
  <2>4. ClosedWereMade'
    BY <1>0, <2>1 DEF EntriesInvariant, ClosedWereMade
  <2> QED BY <2>3, <2>4 DEF EntriesInvariant
<1>3. ASSUME NEW c \in Clients, oxshutdown(c) PROVE EntriesInvariant'
  <2>1. /\ OxClientList' = OxClientList /\ closed' = closed
        /\ \A d \in Clients : object'[d].id = object[d].id
        /\ \A d \in Clients : object[d].tag # "unused" => object'[d].tag # "unused"
    BY <1>0, <1>3 DEF oxshutdown, Objects
  <2> QED BY <1>0, <2>1 DEF EntriesInvariant, EntriesAreLive, ClosedWereMade
<1>4. ASSUME NEW c \in Clients, oxshutdownAborts(c) \/ SendToGonePeer(c) PROVE EntriesInvariant'
  BY <1>4 DEF oxshutdownAborts, SendToGonePeer, EntriesInvariant, EntriesAreLive, ClosedWereMade
<1>5. CASE CreateFails
  BY <1>5 DEF CreateFails, history, EntriesInvariant, EntriesAreLive, ClosedWereMade
<1>6. CASE KoxGetClientList
  BY <1>0, <1>6 DEF KoxGetClientList, history, EntriesInvariant, EntriesAreLive, ClosedWereMade
<1>7. CASE UNCHANGED vars
  BY <1>7 DEF vars, history, EntriesInvariant, EntriesAreLive, ClosedWereMade
<1> QED BY <1>1, <1>2, <1>3, <1>4, <1>5, <1>6, <1>7, <1>8 DEF Next, End

(***************************************************************************)
(* KoxGetClientList and ox103_reset never meet a client that has been      *)
(* closed, nor one in another's place: also when the table is full and     *)
(* entries are overwritten, or a closed object is closed again.            *)
(***************************************************************************)
THEOREM TableHoldsNoClosedClient == Spec => []EntriesAreLive
<1>1. Init => EntriesInvariant
  BY DEF Init, EntriesInvariant, EntriesAreLive, ClosedWereMade
<1>2. TableTypeOK /\ EntriesInvariant /\ [Next]_vars => EntriesInvariant'
  BY EntriesStep
<1>3. EntriesInvariant => EntriesAreLive
  BY DEF EntriesInvariant
<1> QED BY <1>1, <1>2, <1>3, TableTypeCorrect, PTL DEF Spec

----------------------------------------------------------------------------
(***************************************************************************)
(* Descriptors.  An open descriptor of a living client bears its name, a   *)
(* new one was nobody's, so neither opening nor closing another disturbs   *)
(* it, unless a data stream is closed under a living object or an object   *)
(* is closed that has been closed before: then the step itself notes it.   *)
(***************************************************************************)
DescriptorInvariant ==
  /\ OwnDescriptors
  /\ \A c \in Clients : object[c].tag = "client" => object[c].data \in Descriptors

LEMMA DescriptorStep ==
  ASSUME TableTypeOK, DescriptorInvariant, [Next]_vars
  PROVE  DescriptorInvariant'
<1>0. /\ fds \in [Descriptors -> Owners] /\ object \in [Clients -> Objects]
      /\ Snull \notin Clients /\ Snull \in Owners /\ Leaked \in Owners
      /\ NoFd \notin Descriptors
  BY ClientTableAssumption DEF TableTypeOK, Owners, NoFd
\* It is enough that the descriptors of the others keep their owner.
<1>a. ASSUME NEW c \in Clients, stale => stale', reused => reused',
             \A d \in Clients \ {c} : object'[d] = object[d] /\ (d \in Living' => d \in Living),
             ~stale' /\ ~reused' =>
               \A e \in Descriptors : fds[e] \in Clients \ {c} => fds'[e] = fds[e],
             object'[c].tag = "client" => object'[c].data \in Descriptors,
             ~stale' /\ ~reused' /\ c \in Living' =>
               /\ fds'[object'[c].data] = c
               /\ object'[c].control # NoFd =>
                    fds'[object'[c].control] = c /\ object'[c].control # object'[c].data
      PROVE  DescriptorInvariant'
  <2>1. ASSUME NEW d \in Clients \ {c}, ~stale', ~reused', d \in Living'
        PROVE  /\ fds'[object'[d].data] = d
               /\ object'[d].control # NoFd =>
                    fds'[object'[d].control] = d /\ object'[d].control # object'[d].data
    <3>1. object'[d] = object[d] /\ d \in Living /\ ~stale /\ ~reused
      BY <1>a, <2>1
    <3>2. /\ object[d].data \in Descriptors
          /\ fds[object[d].data] = d
          /\ object[d].control # NoFd =>
               fds[object[d].control] = d /\ object[d].control # object[d].data
      BY <3>1 DEF DescriptorInvariant, OwnDescriptors, Living
    <3>3. object[d].control \in Descriptors \cup {NoFd}
      BY <1>0 DEF Objects
    <3> QED BY <1>a, <2>1, <3>1, <3>2, <3>3
  <2>2. OwnDescriptors'
    BY <1>a, <2>1 DEF OwnDescriptors, Living
  <2>3. \A d \in Clients : object'[d].tag = "client" => object'[d].data \in Descriptors
    BY <1>a DEF DescriptorInvariant
  <2> QED BY <2>2, <2>3 DEF DescriptorInvariant
<1>1. ASSUME NEW c \in Clients, Create(c) PROVE DescriptorInvariant'
  <2>1. /\ \A d \in Clients \ {c} : object'[d] = object[d]
        /\ object'[c].data \in Descriptors /\ fds'[object'[c].data] = c
        /\ object'[c].control # NoFd =>
             fds'[object'[c].control] = c /\ object'[c].control # object'[c].data
        /\ \A d \in Descriptors : fds[d] # Snull => fds'[d] = fds[d]
        /\ stale' = stale /\ closed' = closed /\ reused' = reused
    BY <1>1, Creating
  <2>2. \A d \in Clients \ {c} : d \in Living' => d \in Living
    BY <2>1 DEF Living
  <2> QED BY <1>0, <1>a, <2>1, <2>2
<1>2. ASSUME NEW c \in Clients, KoxCloseClient(c) \/ oxshutdown(c) PROVE DescriptorInvariant'
  <2>1. /\ stale' = stale /\ reused' = (reused \/ c \in closed)
        /\ \A d \in Clients \ {c} : object'[d] = object[d] /\ (d \in Living' => d \in Living)
        /\ object[c].tag = "client" /\ object'[c].data = object[c].data /\ c \notin Living'
    <3>1. CASE KoxCloseClient(c)
      BY <1>0, <3>1 DEF KoxCloseClient, NoteUse, Living
    <3>2. CASE oxshutdown(c)
      BY <1>0, <3>2 DEF oxshutdown, NoteUse, Objects, Living
    <3> QED BY <1>2, <3>1, <3>2
  <2>2. /\ object[c].data \in Descriptors
        /\ ~stale /\ ~reused' => /\ fds[object[c].data] = c
                                 /\ object[c].control # NoFd => fds[object[c].control] = c
        /\ object[c].control \in Descriptors \cup {NoFd}
    BY <1>0, <2>1 DEF DescriptorInvariant, OwnDescriptors, Objects, Living
  <2>3. /\ Closed(fds, object[c].data) \in [Descriptors -> Owners]
        /\ \A e \in Descriptors : e # object[c].data => Closed(fds, object[c].data)[e] = fds[e]
    BY <1>0, <2>2, Closing
  <2>4. \A e \in Descriptors : e # object[c].control =>
          Closed(Closed(fds, object[c].data), object[c].control)[e] = Closed(fds, object[c].data)[e]
    BY <2>2, <2>3, Closing
  <2>5. fds' \in {Closed(fds, object[c].data),
                  Closed(Closed(fds, object[c].data), object[c].control)}
    BY <1>2 DEF KoxCloseClient, oxshutdown
  <2>6. ~stale' /\ ~reused' =>
          \A e \in Descriptors : fds[e] \in Clients \ {c} => fds'[e] = fds[e]
    <3> SUFFICES ASSUME ~stale', ~reused', NEW e \in Descriptors, fds[e] \in Clients \ {c}
                 PROVE  fds'[e] = fds[e]
      OBVIOUS
    <3>1. e # object[c].data
      BY <2>1, <2>2
    <3>2. e # object[c].control
      BY <1>0, <2>1, <2>2
    <3> QED BY <2>3, <2>4, <2>5, <3>1, <3>2
  <2> QED BY <1>a, <2>1, <2>2, <2>6
<1>8. ASSUME NEW c \in Clients, Dropped(c) PROVE DescriptorInvariant'
  <2>1. /\ stale' = stale /\ reused' = reused /\ fds' = fds /\ closed' = closed \ {c}
        /\ \A d \in Clients \ {c} : object'[d] = object[d]
        /\ object'[c].tag = "unused"
    BY <1>0, <1>8 DEF Dropped, Unused
  <2>2. /\ c \notin Living'
        /\ \A d \in Clients \ {c} : d \in Living' => d \in Living
    BY <2>1 DEF Living
  <2> QED BY <1>a, <2>1, <2>2
<1>3. ASSUME NEW c \in Clients, oxshutdownAborts(c) \/ SendToGonePeer(c)
      PROVE  DescriptorInvariant'
  BY <1>3 DEF oxshutdownAborts, SendToGonePeer, DescriptorInvariant, OwnDescriptors
<1>4. CASE CreateFails
  <2> DEFINE f == OpenFor(fds, Leaked)
  <2>1. f \in [Descriptors -> Owners] /\ \A e \in Descriptors : fds[e] # Snull => f[e] = fds[e]
    BY <1>0, <1>4, OpeningKeeps DEF CreateFails
  <2>2. FreeIn(f) # {} =>
          \A e \in Descriptors : f[e] # Snull => OpenFor(f, Leaked)[e] = f[e]
    <3> HIDE DEF f
    <3> QED BY <1>0, <2>1, OpeningKeeps
  <2>3. \A e \in Descriptors : fds[e] # Snull => fds'[e] = fds[e]
    BY <1>4, <2>1, <2>2 DEF CreateFails
  <2>4. object' = object /\ stale' = stale /\ reused' = reused /\ closed' = closed
    BY <1>4 DEF CreateFails, history
  <2>5. \A c \in Clients : object[c].control \in Descriptors \cup {NoFd}
    BY <1>0 DEF Objects
  <2> QED BY <1>0, <2>3, <2>4, <2>5 DEF DescriptorInvariant, OwnDescriptors, Living
<1>5. CASE KoxGetClientList \/ UNCHANGED vars
  BY <1>5 DEF KoxGetClientList, vars, history, DescriptorInvariant, OwnDescriptors, Living
<1> QED BY <1>1, <1>2, <1>3, <1>4, <1>5, <1>8 DEF Next, End

(***************************************************************************)
(* Closing, killing and making clients leave the channels of the others    *)
(* alone, as long as no data stream has been closed under its object and   *)
(* no object is used that KoxCloseClient has closed.                       *)
(***************************************************************************)
THEOREM DescriptorsAreOwn == Spec => []OwnDescriptors
<1>1. Init => DescriptorInvariant
  BY DEF Init, DescriptorInvariant, OwnDescriptors, Living, Unused
<1>2. TableTypeOK /\ DescriptorInvariant /\ [Next]_vars => DescriptorInvariant'
  BY DescriptorStep
<1>3. DescriptorInvariant => OwnDescriptors
  BY DEF DescriptorInvariant
<1> QED BY <1>1, <1>2, <1>3, TableTypeCorrect, PTL DEF Spec

----------------------------------------------------------------------------
(***************************************************************************)
(* Ids.  The living clients that are not files are in the table at their   *)
(* ids, files have numbers of their own; both are kept by every call until *)
(* the table is full, unless there is a client that takes an id without    *)
(* entering the table, or a closed object is closed again.                 *)
(***************************************************************************)
FilesAreNumbered ==
  \A c \in Living :
    object[c].kind = "file" => object[c].id \in FirstFileID .. FirstFileID + nfiles - 1

SharingIsNoted == ~shared => \A c \in Living : object[c].kind # "control101"

ListInvariant == ListIsComplete /\ IdIdentifiesClient /\ FilesAreNumbered /\ SharingIsNoted

\* Steps after which the living are among those of before, unchanged.
LEMMA FewerLiving ==
  ASSUME ListInvariant,
         full' = full, shared' = shared, reused => reused', nfiles' = nfiles, OxClientListn' = OxClientListn,
         \A d \in Living' : d \in Living /\ object'[d] = object[d],
         \A d \in Living' : object[d].kind \in {"socket", "engine101"}
           /\ ~full /\ ~shared /\ ~reused' /\ OxClientList[object[d].id] = d => OxClientList'[object[d].id] = d
  PROVE  ListInvariant'
<1>1. FilesAreNumbered'
  BY DEF ListInvariant, FilesAreNumbered
<1>2. IdIdentifiesClient'
  BY DEF ListInvariant, IdIdentifiesClient, Distinct
<1>3. ListIsComplete'
  BY DEF ListInvariant, ListIsComplete, ListedIn
<1>4. SharingIsNoted'
  BY DEF ListInvariant, SharingIsNoted
<1> QED BY <1>1, <1>2, <1>3, <1>4 DEF ListInvariant

LEMMA ListStep ==
  ASSUME TableTypeOK, ListInvariant, [Next]_vars
  PROVE  ListInvariant'
<1>0. /\ OxClientList \in [Ids -> Clients \cup {Snull}] /\ OxClientListn \in Ids
      /\ object \in [Clients -> Objects] /\ nfiles \in Nat /\ full \in BOOLEAN
      /\ MaxClients \in Nat \ {0} /\ FirstFileID \in Nat /\ FirstFileID >= MaxClients
      /\ Snull \notin Clients
  BY ClientTableAssumption DEF TableTypeOK
<1>b. \A d \in Clients : object[d].id \in Nat /\ object[d].kind \in AllKinds
  BY <1>0 DEF Objects
<1>1. ASSUME NEW c \in Clients, Create(c) PROVE ListInvariant'
  <2>1. /\ c \notin Living
        /\ \A d \in Clients \ {c} : object'[d] = object[d]
        /\ closed' = closed /\ reused' = reused
        /\ (shared => shared') /\ (object'[c].kind = "control101" => shared')
    BY <1>1, Creating DEF Living
  <2>2. \A d \in Living' : d = c \/ (d \in Living /\ object'[d] = object[d])
    BY <2>1 DEF Living
  <2>5. SharingIsNoted'
    BY <2>1, <2>2 DEF ListInvariant, SharingIsNoted
  <2>3. CASE /\ object'[c].kind = "file" /\ object'[c].id = FirstFileID + nfiles
             /\ nfiles' = nfiles + 1
             /\ UNCHANGED <<OxClientList, OxClientListn, full>>
    <3>1. FilesAreNumbered'
      BY <1>0, <1>b, <2>1, <2>2, <2>3 DEF ListInvariant, FilesAreNumbered, Living
    <3>2. ListIsComplete'
      BY <2>1, <2>2, <2>3 DEF ListInvariant, ListIsComplete, ListedIn
    <3>3. ASSUME ~full, ~shared, ~reused, NEW d \in Living PROVE object[d].id # FirstFileID + nfiles
      <4>1. CASE object[d].kind = "file"
        BY <1>0, <1>b, <3>3, <4>1 DEF ListInvariant, FilesAreNumbered, Living
      <4>2. CASE object[d].kind # "file"
        <5>1. object[d].kind \in {"socket", "engine101"}
          BY <1>b, <3>3, <4>2 DEF ListInvariant, SharingIsNoted, AllKinds, Living
        <5>2. object[d].id < OxClientListn
          BY <3>3, <5>1 DEF ListInvariant, ListIsComplete, ListedIn
        <5> QED BY <1>0, <1>b, <5>2 DEF Ids, Living
      <4> QED BY <4>1, <4>2
    <3>4. IdIdentifiesClient'
      BY <2>1, <2>2, <2>3, <3>3 DEF ListInvariant, IdIdentifiesClient, Distinct
    <3> QED BY <2>5, <3>1, <3>2, <3>4 DEF ListInvariant
  <2>4. CASE /\ object'[c].kind \in {"socket", "engine101"} /\ object'[c].id = NextID
             /\ nfiles' = nfiles
             /\ oxGetClientID
             /\ OxClientList' = [OxClientList EXCEPT ![NextID] = c]
    <3>1. FilesAreNumbered'
      BY <2>1, <2>2, <2>4 DEF ListInvariant, FilesAreNumbered
    <3>2. /\ NextID \in Ids /\ OxClientListn' \in Ids /\ OxClientListn <= OxClientListn'
          /\ full => full'
          /\ ~full' => /\ NextID < OxClientListn'
                       /\ OxClientList[NextID] = Snull \/ NextID = OxClientListn
      BY <2>4, NextIDIsFree
    <3>3. ASSUME ~full', ~shared, ~reused, NEW d \in Living PROVE object[d].id # NextID
      <4>1. CASE object[d].kind = "file"
        <5>1. object[d].id >= FirstFileID
          BY <1>0, <1>b, <3>3, <4>1 DEF ListInvariant, FilesAreNumbered, Living
        <5> QED BY <1>0, <1>b, <3>2, <5>1 DEF Ids, Living
      <4>2. CASE object[d].kind # "file"
        <5>1. object[d].kind \in {"socket", "engine101"}
          BY <1>b, <3>3, <4>2 DEF ListInvariant, SharingIsNoted, AllKinds, Living
        <5>2. object[d].id < OxClientListn /\ OxClientList[object[d].id] = d
          BY <3>2, <3>3, <5>1 DEF ListInvariant, ListIsComplete, ListedIn
        <5>3. d # Snull /\ object[d].id \in Nat
          BY <1>0, <1>b DEF Living
        <5> QED BY <1>0, <3>2, <3>3, <5>2, <5>3 DEF Ids
      <4> QED BY <4>1, <4>2
    <3>4. IdIdentifiesClient'
      BY <2>1, <2>2, <2>4, <3>2, <3>3 DEF ListInvariant, IdIdentifiesClient, Distinct
    <3>5. ASSUME ~full', ~shared', ~reused', NEW d \in Living', object'[d].kind \in {"socket", "engine101"}
          PROVE  object'[d].id < OxClientListn' /\ OxClientList'[object'[d].id] = d
      <4>1. CASE d = c
        BY <1>0, <2>4, <3>2, <3>5, <4>1
      <4>2. CASE d # c
        <5>1. d \in Living /\ object'[d] = object[d]
          BY <2>2, <4>2
        <5>2. object[d].id < OxClientListn /\ OxClientList[object[d].id] = d
          BY <2>1, <3>2, <3>5, <5>1 DEF ListInvariant, ListIsComplete, ListedIn
        <5>3. object[d].id \in Nat /\ object[d].id # NextID
          BY <1>b, <2>1, <3>3, <3>5, <5>1 DEF Living
        <5>4. object[d].id < OxClientListn' /\ object[d].id \in Ids
          BY <1>0, <3>2, <5>2, <5>3 DEF Ids
        <5> QED BY <1>0, <2>4, <5>1, <5>2, <5>3, <5>4
      <4> QED BY <4>1, <4>2
    <3>6. ListIsComplete'
      BY <3>5 DEF ListIsComplete, ListedIn
    <3> QED BY <2>5, <3>1, <3>4, <3>6 DEF ListInvariant
  <2>6. CASE /\ object'[c].kind = "control101" /\ nfiles' = nfiles
    <3>1. shared'
      BY <2>1, <2>6
    <3>2. FilesAreNumbered'
      BY <2>1, <2>2, <2>6 DEF ListInvariant, FilesAreNumbered
    <3> QED BY <2>5, <3>1, <3>2 DEF ListInvariant, ListIsComplete, IdIdentifiesClient
  <2> QED BY <1>1, <2>1, <2>3, <2>4, <2>6, Entering
<1>2. ASSUME NEW c \in Clients, KoxCloseClient(c) PROVE ListInvariant'
  <2>1. /\ object[c].tag = "client" /\ object' = object /\ closed' = closed \cup {c}
        /\ full' = full /\ shared' = shared /\ nfiles' = nfiles /\ OxClientListn' = OxClientListn
        /\ reused' = (reused \/ c \in closed)
    BY <1>2 DEF KoxCloseClient, NoteUse
  <2>2. \A d \in Living' : d \in Living /\ object'[d] = object[d] /\ d # c
    BY <2>1 DEF Living
  <2>3. ASSUME NEW d \in Living', object[d].kind \in {"socket", "engine101"},
               ~full, ~shared, ~reused', OxClientList[object[d].id] = d
        PROVE  OxClientList'[object[d].id] = d
    <3>0. c \in Living
      BY <2>1, <2>3 DEF Living
    <3>1. d \in Living /\ d # c /\ object[d].id # object[c].id
      BY <2>1, <2>2, <2>3, <3>0 DEF ListInvariant, IdIdentifiesClient, Distinct
    <3>2. object[d].id \in Ids
      <4>1. object[d].id < OxClientListn /\ object[d].id \in Nat
        BY <1>b, <2>1, <2>3, <3>1 DEF ListInvariant, ListIsComplete, ListedIn, Living
      <4> QED BY <1>0, <4>1 DEF Ids
    <3> QED BY <1>0, <1>2, <2>3, <3>1, <3>2 DEF KoxCloseClient, oxClientListRemove
  <2> QED BY <2>1, <2>2, <2>3, FewerLiving
<1>8. ASSUME NEW c \in Clients, Dropped(c) PROVE ListInvariant'
  <2>1. /\ full' = full /\ shared' = shared /\ reused' = reused
        /\ nfiles' = nfiles /\ OxClientListn' = OxClientListn
        /\ OxClientList' = OxClientList /\ closed' = closed \ {c}
        /\ \A d \in Clients \ {c} : object'[d] = object[d]
        /\ object'[c].tag = "unused"
    BY <1>0, <1>8 DEF Dropped, Unused
  <2>2. \A d \in Living' : d \in Living /\ object'[d] = object[d]
    BY <2>1 DEF Living
  <2> QED BY <2>1, <2>2, FewerLiving
<1>3. ASSUME NEW c \in Clients, oxshutdown(c) PROVE ListInvariant'
  <2>1. /\ full' = full /\ shared' = shared /\ (reused => reused') /\ closed' = closed
        /\ nfiles' = nfiles /\ OxClientListn' = OxClientListn
        /\ OxClientList' = OxClientList
    BY <1>3 DEF oxshutdown, NoteUse
  <2>2. \A d \in Living' : d \in Living /\ object'[d] = object[d]
    BY <1>0, <1>3, <2>1 DEF oxshutdown, Living, Objects
  <2> QED BY <2>1, <2>2, FewerLiving
<1>4. ASSUME NEW c \in Clients, oxshutdownAborts(c) \/ SendToGonePeer(c) PROVE ListInvariant'
  BY <1>4, FewerLiving DEF oxshutdownAborts, SendToGonePeer, NoteUse, Living
<1>5. CASE CreateFails
  BY <1>5, FewerLiving DEF CreateFails, Living, history
<1>6. CASE KoxGetClientList
  <2>1. \A d \in Living' : d \in Living /\ object'[d] = object[d]
    BY <1>6 DEF KoxGetClientList, Living, history
  <2>2. ASSUME NEW d \in Living', object[d].kind \in {"socket", "engine101"},
               ~full, ~shared, ~reused', OxClientList[object[d].id] = d
        PROVE  OxClientList'[object[d].id] = d
    <3>1. object[d].id < OxClientListn /\ object[d].id \in Nat /\ object[d].tag = "client"
      BY <1>6, <1>b, <2>1, <2>2 DEF KoxGetClientList, history, ListInvariant, ListIsComplete,
        ListedIn, Living
    <3>2. object[d].id \in Ids
      BY <1>0, <3>1 DEF Ids
    <3> QED BY <1>6, <2>2, <3>1, <3>2 DEF KoxGetClientList, isItClientObject
  <2> QED BY <1>6, <2>1, <2>2, FewerLiving DEF KoxGetClientList, history
<1>7. CASE UNCHANGED vars
  BY <1>7, FewerLiving DEF vars, history, Living
<1> QED BY <1>1, <1>2, <1>3, <1>4, <1>5, <1>6, <1>7, <1>8 DEF Next, End

LEMMA ListHolds == Spec => []ListInvariant
<1>1. Init => ListInvariant
  BY DEF Init, ListInvariant, ListIsComplete, ListedIn, IdIdentifiesClient, Distinct,
    FilesAreNumbered, SharingIsNoted, Living, Unused
<1>2. TableTypeOK /\ ListInvariant /\ [Next]_vars => ListInvariant'
  BY ListStep
<1> QED BY <1>1, <1>2, TableTypeCorrect, PTL DEF Spec

(***************************************************************************)
(* Without control clients of RFC 101 and calls on closed objects, and     *)
(* until the table is full, ox103_reset reaches every engine a living      *)
(* client talks to.                                                        *)
(***************************************************************************)
THEOREM EveryEngineIsListed == Spec => []ListIsComplete
<1>1. ListInvariant => ListIsComplete
  BY DEF ListInvariant
<1> QED BY <1>1, ListHolds, PTL

(***************************************************************************)
(* Under the same conditions no two living clients have the same id.       *)
(***************************************************************************)
THEOREM IdsAreDistinct == Spec => []IdIdentifiesClient
<1>1. ListInvariant => IdIdentifiesClient
  BY DEF ListInvariant
<1> QED BY <1>1, ListHolds, PTL

=============================================================================
