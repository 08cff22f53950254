----------------------------- MODULE PollerProxy -----------------------------
(***************************************************************************)
(* DescriptorHandlerPoller::Proxy: it refers to its poller by a plain      *)
(* pointer, of which add() makes a shared one under the lock of the proxy; *)
(* the destructor of the poller clears it under the same lock.  Whoever    *)
(* gives up the last reference runs the destructor.                        *)
(***************************************************************************)
EXTENDS Naturals, FiniteSets

CONSTANTS Users, Owner   \* threads that add through the proxy; one that has the poller

VARIABLES
  owner_,      \* the proxy has its pointer
  readers,     \* threads that hold the lock of the proxy to read
  references,  \* threads that have a reference to the poller
  life,        \* alive, in its destructor, or gone
  turn         \* where each thread is

proxyVars == <<owner_, readers, references, life, turn>>

ProxyThreads == Users \cup {Owner}

ProxyInit ==
  /\ owner_ = TRUE /\ readers = {} /\ references = {Owner} /\ life = "alive"
  /\ turn = [t \in ProxyThreads |-> IF t = Owner THEN "use" ELSE "idle"]

Turn(t, from, to) == turn[t] = from /\ turn' = [turn EXCEPT ![t] = to]

\* lock_owner_: the guard, which waits for detach_ ...
LockOwner(u) ==
  /\ Turn(u, "idle", "look")
  /\ readers' = readers \cup {u}
  /\ UNCHANGED <<owner_, references, life>>

\* ... and shared_from_this(), which throws when the last reference is gone: out
\* of a function that must not throw.
GetPtr(u) ==
  /\ Turn(u, "look", IF ~owner_ THEN "idle" ELSE IF references = {} THEN "ended" ELSE "use")
  /\ readers' = readers \ {u}
  /\ references' = IF owner_ /\ references # {} THEN references \cup {u} ELSE references
  /\ UNCHANGED <<owner_, life>>

\* The end of Proxy::add, or of the program's own use.
Drop(t) ==
  /\ references' = references \ {t}
  /\ Turn(t, "use", IF references = {t} THEN "destroy" ELSE "idle")
  /\ life' = IF references = {t} THEN "destructor" ELSE life
  /\ UNCHANGED <<owner_, readers>>

DetachesNot == owner_
Detached == FALSE

\* ~DescriptorHandlerPoller: detach_(), and then its members.
Detach(t) ==
  /\ readers = {}
  /\ Turn(t, "destroy", "free")
  /\ owner_' = Detached
  /\ UNCHANGED <<readers, references, life>>

Free(t) ==
  /\ Turn(t, "free", "idle")
  /\ life' = "gone"
  /\ UNCHANGED <<owner_, readers, references>>

ProxyNext ==
  \/ \E u \in Users : LockOwner(u) \/ GetPtr(u)
  \/ \E t \in ProxyThreads : Drop(t) \/ Detach(t) \/ Free(t)

ProxySpec == ProxyInit /\ [][ProxyNext]_proxyVars

-----------------------------------------------------------------------------
\* A proxy outlives its poller: no thread comes to a poller that is gone,
\* neither through the proxy's pointer nor with a reference of its own.
NoneReachesGone ==
  life = "gone" => /\ \A u \in Users : turn[u] = "look" => ~owner_
                     /\ references = {}
=============================================================================
