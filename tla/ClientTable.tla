---------------------------- MODULE ClientTable ----------------------------
(***************************************************************************)
(* The clients of one process that uses the OX library: their descriptors, *)
(* and OxClientList, from which ox103_reset takes the engines to reset     *)
(* (kan96xx/plugin/oxmisc.c, oxmisc2.c; the calls oxshutdown and           *)
(* ox103_reset of Doc/ox.sm1).  The process is sequential: a call is one   *)
(* step.                                                                   *)
(*                                                                         *)
(* A client object is an array that sm1 shares; the table holds the array  *)
(* itself.  What is in it of a session is in module OxClient.  Descriptors *)
(* of listening sockets, and the connection itself, are left out.          *)
(*                                                                         *)
(* KoxCloseClient leaves the array as it was: who keeps it can close it,   *)
(* shut it down or write to it again, and every such call goes to the      *)
(* descriptors and the entry that have its numbers by then.                *)
(***************************************************************************)
EXTENDS Integers, FiniteSets

CONSTANTS
  Clients,       \* client objects
  MaxClients,    \* MAX_N_OF_CLIENT
  FirstFileID,   \* 0x8000
  Descriptors,   \* 0 .. RLIMIT_NOFILE - 1
  Snull,         \* no client
  Leaked,        \* the owner of an open descriptor that no client object holds
  MaxFiles,      \* bound of the model: clients made by oxCreateClientFile
  MaxKept        \* bound of the model: closed objects that the user keeps at a time

AllKinds == {"socket", "file", "control101", "engine101"}

ASSUME ClientTableAssumption ==
  /\ MaxClients \in Nat \ {0} /\ FirstFileID \in Nat /\ FirstFileID >= MaxClients
  /\ MaxFiles \in Nat /\ MaxKept \in Nat
  /\ Descriptors \subseteq Nat /\ IsFiniteSet(Descriptors)
  /\ Snull \notin Clients /\ Leaked \notin Clients /\ Snull # Leaked

VARIABLES
  OxClientList,  \* the table
  OxClientListn, \* the entries below it have been handed out
  nfiles,        \* clnum of oxCreateClientFile, less FirstFileID
  object,        \* the client objects
  fds,           \* the owner of each descriptor
  full,          \* the table has been reported full
  stale,         \* auxiliary: a data stream has been closed under its object
  shared,        \* auxiliary: a control client of RFC 101 has been made
  closed,        \* auxiliary: the objects that KoxCloseClient has been called on
  reused         \* auxiliary: one of them has been closed, shut down or written to again

history == <<stale, shared, closed, reused>>
vars == <<OxClientList, OxClientListn, nfiles, object, fds, full, history>>

Ids == 0 .. MaxClients - 1
NoFd == -1

\* tag is the first element of the array: "client", or "closed" by oxshutdown; "unused" is
\* one that the user has not made, or has closed with KoxCloseClient and dropped.
Objects == [tag : {"unused", "client", "closed"}, kind : AllKinds, id : Nat,
            data : Descriptors \cup {NoFd}, control : Descriptors \cup {NoFd}]

TableTypeOK ==
  /\ OxClientList \in [Ids -> Clients \cup {Snull}]
  /\ OxClientListn \in Ids
  /\ nfiles \in Nat
  /\ object \in [Clients -> Objects]
  /\ fds \in [Descriptors -> Clients \cup {Snull, Leaked}]
  /\ full \in BOOLEAN /\ stale \in BOOLEAN /\ shared \in BOOLEAN
  /\ closed \subseteq Clients /\ reused \in BOOLEAN

Unused == [tag |-> "unused", kind |-> "socket", id |-> 0, data |-> NoFd, control |-> NoFd]

Init ==
  /\ OxClientList = [i \in Ids |-> Snull] /\ OxClientListn = 0
  /\ nfiles = 0
  /\ object = [c \in Clients |-> Unused]
  /\ fds = [d \in Descriptors |-> Snull]
  /\ full = FALSE /\ stale = FALSE /\ shared = FALSE
  /\ closed = {} /\ reused = FALSE

----------------------------------------------------------------------------
(***************************************************************************)
(* Descriptors.  A new one has the lowest free number.                     *)
(***************************************************************************)
FreeIn(f) == {d \in Descriptors : f[d] = Snull}

Lowest(S) == CHOOSE d \in S : \A e \in S : d <= e

\* f with a descriptor opened for owner, and the descriptor.
OpenFor(f, owner) == [f EXCEPT ![Lowest(FreeIn(f))] = owner]
FdOpened(f) == Lowest(FreeIn(f))

\* close(2) of d, whoever has it.
Closed(f, d) == IF d = NoFd THEN f ELSE [f EXCEPT ![d] = Snull]

----------------------------------------------------------------------------
(***************************************************************************)
(* The table.                                                              *)
(***************************************************************************)
FreeEntries == {i \in 0 .. OxClientListn - 1 : OxClientList[i] = Snull}

\* The id of the next client: a free entry, the next new one, or 0.
NextID == IF FreeEntries # {} THEN Lowest(FreeEntries)
          ELSE IF OxClientListn < MaxClients - 1 THEN OxClientListn ELSE 0

\* Mutant: one entry more.
oxGetClientIDOneMore ==
  /\ OxClientListn' = IF FreeEntries = {} /\ OxClientListn < MaxClients
                        THEN OxClientListn + 1 ELSE OxClientListn
  /\ full' = (full \/ (FreeEntries = {} /\ OxClientListn >= MaxClients))

oxGetClientID ==
  /\ OxClientListn' = IF FreeEntries = {} /\ OxClientListn < MaxClients - 1
                        THEN OxClientListn + 1 ELSE OxClientListn
  /\ full' = (full \/ (FreeEntries = {} /\ OxClientListn >= MaxClients - 1))

\* Mutant: the new client is not entered.
oxClientListUpdateNot(c, id) == UNCHANGED OxClientList

oxClientListUpdate(c, id) == OxClientList' = [OxClientList EXCEPT ![id] = c]

oxClientListRemove(id) ==
  OxClientList' = IF id \in Ids THEN [OxClientList EXCEPT ![id] = Snull] ELSE OxClientList

----------------------------------------------------------------------------
(***************************************************************************)
(* Making a client.                                                        *)
(***************************************************************************)

\* oxCreateClient and oxCreateClient2: the control channel, then the data channel.
KoxCreateClient(c) ==
  /\ object[c].tag = "unused"
  /\ \E d, e \in FreeIn(fds) : d # e
  /\ LET f == OpenFor(fds, c)
     IN  /\ fds' = OpenFor(f, c)
         /\ object' = [object EXCEPT ![c] =
              [tag |-> "client", kind |-> "socket", id |-> NextID,
               data |-> FdOpened(f), control |-> FdOpened(fds)]]
  /\ oxGetClientID
  /\ oxClientListUpdate(c, NextID)
  /\ UNCHANGED <<nfiles, history>>

\* A file as the engine and /dev/null as the control server: not in the table.
CreateClientFile(c) ==
  /\ object[c].tag = "unused" /\ nfiles < MaxFiles
  /\ \E d, e \in FreeIn(fds) : d # e
  /\ LET f == OpenFor(fds, c)
     IN  /\ fds' = OpenFor(f, c)
         /\ object' = [object EXCEPT ![c] =
              [tag |-> "client", kind |-> "file", id |-> FirstFileID + nfiles,
               data |-> FdOpened(fds), control |-> FdOpened(f)]]
  /\ nfiles' = nfiles + 1
  /\ UNCHANGED <<OxClientList, OxClientListn, full, history>>

\* The clients of RFC 101 have one channel each.
NewClient101(c, kind) ==
  /\ object[c].tag = "unused"
  /\ FreeIn(fds) # {}
  /\ fds' = OpenFor(fds, c)
  /\ object' = [object EXCEPT ![c] =
       [tag |-> "client", kind |-> kind, id |-> NextID,
        data |-> FdOpened(fds), control |-> NoFd]]
  /\ oxGetClientID
  /\ UNCHANGED <<nfiles, stale, closed, reused>>

\* It takes an id and does not enter the table.
KoxCreateControl_RFC_101(c) ==
  /\ NewClient101(c, "control101")
  /\ shared' = TRUE
  /\ UNCHANGED OxClientList

KoxCreateEngine_RFC_101(c) ==
  /\ NewClient101(c, "engine101")
  /\ UNCHANGED shared
  /\ oxClientListUpdate(c, NextID)

\* The connection or the password fails: sockets that have been made stay open.
CreateFails ==
  /\ FreeIn(fds) # {}
  /\ LET f == OpenFor(fds, Leaked)
     IN  \/ fds' = f
         \/ FreeIn(f) # {} /\ fds' = OpenFor(f, Leaked)
  /\ UNCHANGED <<OxClientList, OxClientListn, nfiles, object, full, history>>

----------------------------------------------------------------------------
(***************************************************************************)
(* Ending it.                                                              *)
(***************************************************************************)

Keeps(c) == c \in closed \/ Cardinality(closed) < MaxKept

NoteUse(c) == reused' = (reused \/ c \in closed)

\* Mutant: the entry is left in the table.
KoxCloseClientLeaving(c) ==
  /\ object[c].tag = "client" /\ Keeps(c)
  /\ fds' = Closed(Closed(fds, object[c].data), object[c].control)
  /\ closed' = closed \cup {c} /\ NoteUse(c)
  /\ UNCHANGED <<OxClientList, OxClientListn, nfiles, object, full, stale, shared>>

\* Mutant: an object that oxshutdown has marked is taken.
KoxCloseClientUnchecked(c) ==
  /\ object[c].tag \in {"client", "closed"} /\ Keeps(c)
  /\ fds' = Closed(Closed(fds, object[c].data), object[c].control)
  /\ oxClientListRemove(object[c].id)
  /\ closed' = closed \cup {c} /\ NoteUse(c)
  /\ UNCHANGED <<OxClientListn, nfiles, object, full, stale, shared>>

\* fp2fclose and close of the numbers in the array, and the entry of its id is freed.  The
\* array is not marked: it passes oxObjectToClient as before.
KoxCloseClient(c) ==
  /\ object[c].tag = "client" /\ Keeps(c)
  /\ fds' = Closed(Closed(fds, object[c].data), object[c].control)
  /\ oxClientListRemove(object[c].id)
  /\ closed' = closed \cup {c} /\ NoteUse(c)
  /\ UNCHANGED <<OxClientListn, nfiles, object, full, stale, shared>>

\* The user's last reference to a closed array goes.
Dropped(c) ==
  /\ c \in closed
  /\ object' = [object EXCEPT ![c] = Unused]
  /\ closed' = closed \ {c}
  /\ UNCHANGED <<OxClientList, OxClientListn, nfiles, fds, full, stale, shared, reused>>

\* fp2fclose of the data stream, SM_control_kill, and the object is marked: its control
\* descriptor stays open, its entry is left to KoxGetClientList.
oxshutdown(c) ==
  /\ object[c].tag = "client" /\ object[c].kind \in {"socket", "file"}
  /\ fds' = Closed(fds, object[c].data)
  /\ object' = [object EXCEPT ![c].tag = "closed"]
  /\ NoteUse(c)
  /\ UNCHANGED <<OxClientList, OxClientListn, nfiles, full, stale, shared, closed>>

\* The request of an RFC 101 client is refused (AbortIfRFC_101) after the fp2fclose.
oxshutdownAborts(c) ==
  /\ object[c].tag = "client" /\ object[c].kind \in {"control101", "engine101"}
  /\ fds' = Closed(fds, object[c].data)
  /\ stale' = TRUE
  /\ NoteUse(c)
  /\ UNCHANGED <<OxClientList, OxClientListn, nfiles, object, full, shared, closed>>

\* The descriptor that has the number is a socket: a write to it may find no peer.
IsSocket(d) == fds[d] \notin {Snull} \cup {c \in Clients : object[c].kind = "file"}

\* The peer has ended: fp2fflush closes the descriptor and the object is as it was.
SendToGonePeer(c) ==
  /\ object[c].tag = "client"
  /\ IsSocket(object[c].data)
  /\ fds' = Closed(fds, object[c].data)
  /\ stale' = TRUE
  /\ NoteUse(c)
  /\ UNCHANGED <<OxClientList, OxClientListn, nfiles, object, full, shared, closed>>

isItClientObject(c) == object[c].tag = "client"

\* KoxCleanClientList, and the list of what is left.
Listed == {OxClientList[i] : i \in 0 .. OxClientListn - 1} \ {Snull}

KoxGetClientList ==
  /\ OxClientList' = [i \in Ids |->
       IF i < OxClientListn /\ OxClientList[i] # Snull /\ ~isItClientObject(OxClientList[i])
         THEN Snull ELSE OxClientList[i]]
  /\ UNCHANGED <<OxClientListn, nfiles, object, fds, full, history>>

----------------------------------------------------------------------------
Create(c) ==
  \/ KoxCreateClient(c) \/ CreateClientFile(c)
  \/ KoxCreateControl_RFC_101(c) \/ KoxCreateEngine_RFC_101(c)

End(c) ==
  \/ KoxCloseClient(c) \/ Dropped(c)
  \/ oxshutdown(c) \/ oxshutdownAborts(c) \/ SendToGonePeer(c)

Next ==
  \/ \E c \in Clients : Create(c) \/ End(c)
  \/ CreateFails \/ KoxGetClientList

Spec == Init /\ [][Next]_vars

----------------------------------------------------------------------------
Living == {c \in Clients : object[c].tag = "client"} \ closed

(***************************************************************************)
(* Until the table is reported full every engine that a living client      *)
(* talks to is in it, so ox103_reset reaches it; ids and entries are used  *)
(* again and again.  Two uses are excepted: control clients of RFC 101,    *)
(* which take an id without entering the table, and calls on an object     *)
(* that KoxCloseClient has closed.                                         *)
(***************************************************************************)
ListedIn(C) ==
  \A c \in C : object[c].kind \in {"socket", "engine101"} =>
    object[c].id < OxClientListn /\ OxClientList[object[c].id] = c

ListIsComplete == ~full /\ ~shared /\ ~reused => ListedIn(Living)

(***************************************************************************)
(* Until the table is reported full, and with the same exceptions, the id  *)
(* is what oxKan0.h says: an identifier of the client.                     *)
(***************************************************************************)
Distinct(C) == \A c, d \in C : object[c].id = object[d].id => c = d

IdIdentifiesClient == ~full /\ ~shared /\ ~reused => Distinct(Living)

(***************************************************************************)
(* Unless a data stream has been closed under its object or a closed       *)
(* object is used, the descriptors in a living client object are open and  *)
(* are its own: closing or killing another client does not touch them,     *)
(* though their numbers may have been others' before.                      *)
(***************************************************************************)
OwnDescriptors ==
  ~stale /\ ~reused => \A c \in Living :
    /\ fds[object[c].data] = c
    /\ object[c].control # NoFd =>
         fds[object[c].control] = c /\ object[c].control # object[c].data

(***************************************************************************)
(* However the table is used, also when it is full, the id is shared or a  *)
(* closed object is closed again, it never holds a client that has been    *)
(* closed, nor one in the place of another id.                             *)
(***************************************************************************)
EntriesAreLive ==
  \A i \in Ids : OxClientList[i] # Snull =>
    /\ object[OxClientList[i]].tag # "unused" /\ object[OxClientList[i]].id = i
    /\ OxClientList[i] \notin closed

----------------------------------------------------------------------------
(***************************************************************************)
(* The usage of ox103_reset: it broadcasts the reset to all processes.     *)
(* The control client of RFC 101 has the id of the first engine, and       *)
(* closing it takes the engine's entry out of the table; so does a second  *)
(* KoxCloseClient of an object whose id the engine has by now.             *)
(***************************************************************************)
ResetReachesAll == ~full => ListedIn(Living)

=============================================================================
