--------------------------- MODULE HandlerRegistry ---------------------------
(***************************************************************************)
(* The registry of handlers of DescriptorHandlerPoller: handlers_, keyed by*)
(* the address of the handler, and the descriptors registered with epoll,  *)
(* as add() fills them, also through DescriptorHandlerPollerPool, and the  *)
(* end of handle_ empties them.  A handler is its number in the order of   *)
(* creation, and its holder has the same; an address is free for another   *)
(* handler as soon as nobody refers to the one that had it.                *)
(***************************************************************************)
EXTENDS Integers, FiniteSets

CONSTANTS
  Addresses,      \* where a handler may be allocated
  PollerNumber,   \* pollers of the pool, one at least
  AdderThreads,   \* threads that call add() of the pool
  HandlerBound    \* bound of the model: handlers that are created

ASSUME RegistryAssumption ==
  Addresses # {} /\ PollerNumber \in Nat \ {0} /\ HandlerBound \in Nat

Pollers == 1 .. PollerNumber
NoEntry == 0

VARIABLES
  created,
  address, poller,  \* of each handler that was created
  handlers_,        \* [Pollers -> [Addresses -> the holder, or none]]
  registered,       \* the holders that epoll has pointers to
  held,             \* holders that refer to their handlers
  phase,            \* how far the closing of a handler is
  poller_it_,
  place, adding,    \* where in add() each thread is, and its handler
  blocker           \* history: the holder that kept a handler out of the map

registryVars == <<created, address, poller, handlers_, registered, held, phase, poller_it_,
                  place, adding, blocker>>

Handlers == 1 .. HandlerBound

RegistryInit ==
  /\ created = 0 /\ poller_it_ = 1
  /\ address = [h \in Handlers |-> CHOOSE a \in Addresses : TRUE]
  /\ poller = [h \in Handlers |-> 1]
  /\ handlers_ = [p \in Pollers |-> [a \in Addresses |-> NoEntry]]
  /\ registered = {} /\ held = {}
  /\ phase = [h \in Handlers |-> "open"]
  /\ place = [t \in AdderThreads |-> "idle"] /\ adding = [t \in AdderThreads |-> NoEntry]
  /\ blocker = [h \in Handlers |-> NoEntry]

\* Shared pointers keep a handler: its holder's, and that of who adds it.
Alive == held \cup {adding[t] : t \in AdderThreads}

To(t, from, to) == place[t] = from /\ place' = [place EXCEPT ![t] = to]

-----------------------------------------------------------------------------
\* The caller has a new handler.
Create(t) ==
  /\ created < HandlerBound
  /\ To(t, "idle", "choose")
  /\ created' = created + 1
  /\ \E a \in Addresses \ {address[h] : h \in Alive \ {NoEntry}} :
       address' = [address EXCEPT ![created + 1] = a]
  /\ adding' = [adding EXCEPT ![t] = created + 1]
  /\ UNCHANGED <<poller, handlers_, registered, held, phase, poller_it_, blocker>>

FollowingSticks(p) == IF p = PollerNumber THEN p ELSE p + 1
Following(p) == IF p = PollerNumber THEN 1 ELSE p + 1

\* DescriptorHandlerPollerPool::add: the pollers take turns.
Choose(t) ==
  /\ To(t, "choose", "insert")
  /\ poller' = [poller EXCEPT ![adding[t]] = poller_it_]
  /\ poller_it_' = Following(poller_it_)
  /\ UNCHANGED <<created, address, handlers_, registered, held, phase, adding, blocker>>

EntryOf(h) == handlers_[poller[h]][address[h]]
WithEntry(h, entry) == [handlers_ EXCEPT ![poller[h]][address[h]] = entry]

MayInsertAlways(h) == TRUE
MayInsert(h) == EntryOf(h) = NoEntry

\* insert() leaves an entry that is there; the new holder then goes.
Insert(t) ==
  LET h == adding[t]
  IN /\ place[t] = "insert"
     /\ IF MayInsert(h)
        THEN /\ To(t, "insert", "register")
             /\ handlers_' = WithEntry(h, h)
             /\ held' = held \cup {h}
             /\ UNCHANGED blocker
        ELSE /\ To(t, "insert", "leave")
             /\ blocker' = [blocker EXCEPT ![h] = EntryOf(h)]
             /\ UNCHANGED <<handlers_, held>>
     /\ UNCHANGED <<created, address, poller, registered, phase, poller_it_, adding>>

\* EPOLL_CTL_ADD
Register(t) ==
  /\ To(t, "register", "leave")
  /\ registered' = registered \cup {adding[t]}
  /\ UNCHANGED <<created, address, poller, handlers_, held, phase, poller_it_, adding, blocker>>

LetGo(h) == held \ {h}
KeptOnFailure(h) == held

\* It fails: add() throws, and the entry stays, with its handler.
RegisterFails(t) ==
  /\ To(t, "register", "leave")
  /\ phase' = [phase EXCEPT ![adding[t]] = "failed"]
  /\ held' = KeptOnFailure(adding[t])
  /\ UNCHANGED <<created, address, poller, handlers_, registered, poller_it_, adding, blocker>>

\* The caller's pointer goes.
Leave(t) ==
  /\ To(t, "leave", "idle")
  /\ adding' = [adding EXCEPT ![t] = NoEntry]
  /\ UNCHANGED <<created, address, poller, handlers_, registered, held, phase, poller_it_,
                 blocker>>

-----------------------------------------------------------------------------
\* A thread of the poller closes a handler: epoll_del_fd_ ...
DeleteFd(h) ==
  /\ h \in registered
  /\ registered' = registered \ {h}
  /\ phase' = [phase EXCEPT ![h] = "deleted"]
  /\ UNCHANGED <<created, address, poller, handlers_, held, poller_it_, place, adding, blocker>>

\* ... reset_descriptor_handler() ...
ResetHandler(h) ==
  /\ phase[h] = "deleted"
  /\ held' = held \ {h}
  /\ phase' = [phase EXCEPT ![h] = "reset"]
  /\ UNCHANGED <<created, address, poller, handlers_, registered, poller_it_, place, adding,
                 blocker>>

EraseNothing(h) == handlers_
Erased(h) == WithEntry(h, NoEntry)

\* ... and erase() of the address, which is all that is left of the handler.
Erase(h) ==
  /\ phase[h] = "reset"
  /\ handlers_' = Erased(h)
  /\ phase' = [phase EXCEPT ![h] = "closed"]
  /\ UNCHANGED <<created, address, poller, registered, held, poller_it_, place, adding, blocker>>

AddStep(t) == \/ Create(t) \/ Choose(t) \/ Insert(t) \/ Register(t) \/ RegisterFails(t)
              \/ Leave(t)

CloseStep(h) == DeleteFd(h) \/ ResetHandler(h) \/ Erase(h)

RegistryNext == (\E t \in AdderThreads : AddStep(t)) \/ (\E h \in Handlers : CloseStep(h))

RegistrySpec == RegistryInit /\ [][RegistryNext]_registryVars

-----------------------------------------------------------------------------
AddsAt(t, h, where) == adding[t] = h /\ place[t] \in where

\* epoll gives threads the address of a holder: the entry that keeps the holder
\* is its own, although entries are erased by the address of a handler that
\* may by then be another's.
HolderKept == \A h \in registered : EntryOf(h) = h /\ h \in held

\* Every entry is of a handler that is registered, or on its way in or out, or
\* could not be registered: only the last stay for good.
EntriesAccounted ==
  \A p \in Pollers, a \in Addresses :
    LET h == handlers_[p][a]
    IN h # NoEntry =>
         \/ h \in registered
         \/ phase[h] \in {"deleted", "reset", "failed"}
         \/ \E t \in AdderThreads : AddsAt(t, h, {"register"})

\* add() turns a handler away, which it does not tell its caller, only while
\* another one of the same poller that had the address is being closed.
RefusedOnlyIfReused ==
  \A h \in Handlers :
    LET b == blocker[h]
    IN b # NoEntry =>
         /\ poller[b] = poller[h] /\ address[b] = address[h]
         /\ phase[b] \in {"reset", "closed"} /\ b < h

\* The pollers of the pool take turns, however calls overlap.
Chosen(p) == {h \in 1 .. created : poller[h] = p
                /\ \A t \in AdderThreads : ~AddsAt(t, h, {"choose"})}

TakesTurns == \A p, q \in Pollers : Cardinality(Chosen(p)) <= Cardinality(Chosen(q)) + 1

\* The four together: what the map promises epoll, add() and the pool.
RegistryRight == HolderKept /\ EntriesAccounted /\ RefusedOnlyIfReused /\ TakesTurns
=============================================================================
