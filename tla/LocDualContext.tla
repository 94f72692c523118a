--------------------------- MODULE LocDualContext ---------------------------
(***************************************************************************)
(* The two contexts of the location HAL (gps/core/LocDualContext.cpp and   *)
(* ContextBase.cpp).  A client asks for the foreground or the background   *)
(* context from its own thread; whoever is first makes it, and whoever is  *)
(* first at all makes the message task that both share.  The first context *)
(* has the LBS library inject the modem's features, when it is made and    *)
(* whenever the modem comes up (LocApiBase::handleEngineUpEvent, in the    *)
(* modem's thread and without the mutex).  A modem that restarts forgets   *)
(* them.                                                                   *)
(***************************************************************************)
EXTENDS Naturals, Sequences

CONSTANTS
  Clients,       \* the threads that ask, each once
  Platforms,     \* what the device has, [mpq, lbs, v02, rpc]: see createLocApi
  MaxRestarts

Kinds == {"fg", "bg"}
NoContext == [task |-> 0, api |-> "none", proxy |-> "none"]

VARIABLES
  platform,
  at, asks,         \* where a client is, and which context it asks for
  mGetLocContextMutex,   \* the clients between lock and unlock
  mMsgTask,         \* how many message tasks were made, the last one is used
  contexts,         \* mFgContext and mBgContext, [task, api, proxy]
  mInjectContext,   \* the kind of the context, or "NULL"
  made,             \* history: how many contexts of a kind were made
  queue,            \* the first messages sent to the tasks, as <<task, client>>
  features,         \* external: the modem has its features
  ups,              \* the contexts whose LocApi has an engine-up event to handle
  restarts

vars == <<platform, at, asks, mGetLocContextMutex, mMsgTask, contexts, mInjectContext, made,
          queue, features, ups, restarts>>

Init ==
  /\ platform \in Platforms
  /\ at = [c \in Clients |-> "call"]
  /\ asks \in [Clients -> Kinds]
  /\ mGetLocContextMutex = {} /\ mMsgTask = 0
  /\ contexts = [k \in Kinds |-> NoContext] /\ mInjectContext = "NULL"
  /\ made = [k \in Kinds |-> 0] /\ queue = <<>>
  /\ features = FALSE /\ ups = {} /\ restarts = MaxRestarts

-----------------------------------------------------------------------------
\* The LBS library's proxy, or a base that does nothing.
getLBSProxy == IF platform.lbs = "none" THEN "base" ELSE "lbs"

\* The library's own API first; else the v02 library, where it is there, and RPC where it
\* is not; a dummy if that has none to give, and on an MPQ.  A library is "none", "empty"
\* when it gives no API, or "api".
createLocApi ==
  CASE platform.mpq -> "dummy"
    [] ~platform.mpq /\ platform.lbs = "api" -> "lbs"
    [] ~platform.mpq /\ platform.lbs # "api" /\ platform.v02 = "api" -> "v02"
    [] ~platform.mpq /\ platform.lbs # "api" /\ platform.v02 = "none" /\ platform.rpc = "api" -> "rpc"
    [] OTHER -> "dummy"

go(c, from, to) == at[c] = from /\ at' = [at EXCEPT ![c] = to]

\* Mutant: the mutex is not there.
lock_none(c) ==
  /\ go(c, "call", "look")
  /\ mGetLocContextMutex' = mGetLocContextMutex \cup {c}
  /\ UNCHANGED <<platform, asks, mMsgTask, contexts, mInjectContext, made, queue, features, ups,
                 restarts>>

lock(c) ==
  /\ go(c, "call", "look")
  /\ mGetLocContextMutex = {} /\ mGetLocContextMutex' = {c}
  /\ UNCHANGED <<platform, asks, mMsgTask, contexts, mInjectContext, made, queue, features, ups,
                 restarts>>

look(c) ==
  /\ go(c, "look", IF contexts[asks[c]] = NoContext THEN "getMsgTask" ELSE "inject")
  /\ UNCHANGED <<platform, asks, mGetLocContextMutex, mMsgTask, contexts, mInjectContext, made,
                 queue, features, ups, restarts>>

getMsgTask(c) ==
  /\ go(c, "getMsgTask", "new")
  /\ mMsgTask' = IF mMsgTask = 0 THEN 1 ELSE mMsgTask
  /\ UNCHANGED <<platform, asks, mGetLocContextMutex, contexts, mInjectContext, made, queue,
                 features, ups, restarts>>

\* new LocDualContext: a proxy and an API of its own, and the task of both.
newContext(c) ==
  /\ go(c, "new", "inject")
  /\ contexts' = [contexts EXCEPT ![asks[c]] =
                    [task |-> mMsgTask, api |-> createLocApi, proxy |-> getLBSProxy]]
  /\ made' = [made EXCEPT ![asks[c]] = @ + 1]
  /\ UNCHANGED <<platform, asks, mGetLocContextMutex, mMsgTask, mInjectContext, queue, features,
                 ups, restarts>>

\* Only the context that is mInjectContext has it done.
injectFeatureConfig(k) ==
  features' = IF k = mInjectContext' /\ contexts[k].proxy = "lbs" THEN TRUE ELSE features

\* Who finds no mInjectContext takes it, and injects in the next step.
takeInject(c) ==
  /\ go(c, "inject", IF mInjectContext = "NULL" THEN "injecting" ELSE "unlock")
  /\ mInjectContext' = IF mInjectContext = "NULL" THEN asks[c] ELSE mInjectContext
  /\ UNCHANGED <<platform, asks, mGetLocContextMutex, mMsgTask, contexts, made, queue, features,
                 ups, restarts>>

inject(c) ==
  /\ go(c, "injecting", "unlock")
  /\ UNCHANGED mInjectContext
  /\ injectFeatureConfig(asks[c])
  /\ UNCHANGED <<platform, asks, mGetLocContextMutex, mMsgTask, contexts, made, queue, ups,
                 restarts>>

unlock(c) ==
  /\ go(c, "unlock", "send")
  /\ mGetLocContextMutex' = mGetLocContextMutex \ {c}
  /\ UNCHANGED <<platform, asks, mMsgTask, contexts, mInjectContext, made, queue, features, ups,
                 restarts>>

\* The first message, after the unlock.
sendFirst(c) ==
  /\ go(c, "send", "returned")
  /\ queue' = Append(queue, <<contexts[asks[c]].task, c>>)
  /\ UNCHANGED <<platform, asks, mGetLocContextMutex, mMsgTask, contexts, mInjectContext, made,
                 features, ups, restarts>>

getLocContext(c) ==
  \/ lock(c) \/ look(c) \/ getMsgTask(c) \/ newContext(c)
  \/ takeInject(c) \/ inject(c) \/ unlock(c) \/ sendFirst(c)

-----------------------------------------------------------------------------
\* The modem restarts: every API that is there and is no dummy is told when it is up.
modemRestarts ==
  /\ restarts > 0 /\ restarts' = restarts - 1
  /\ features' = FALSE
  /\ ups' = {k \in Kinds : contexts[k] # NoContext /\ contexts[k].api # "dummy"}
  /\ UNCHANGED <<platform, at, asks, mGetLocContextMutex, mMsgTask, contexts, mInjectContext,
                 made, queue>>

handleEngineUpEvent(k) ==
  /\ k \in ups /\ ups' = ups \ {k}
  /\ UNCHANGED mInjectContext
  /\ injectFeatureConfig(k)
  /\ UNCHANGED <<platform, at, asks, mGetLocContextMutex, mMsgTask, contexts, made, queue,
                 restarts>>

Next ==
  \/ \E c \in Clients : getLocContext(c)
  \/ modemRestarts
  \/ \E k \in Kinds : handleEngineUpEvent(k)

Spec == Init /\ [][Next]_vars

-----------------------------------------------------------------------------
\* However many clients ask at once, each context is made once, both have the same task,
\* and a client that returned has its first message in that task's queue, once.
Shared ==
  /\ mMsgTask <= 1 /\ \A k \in Kinds : made[k] <= 1
  /\ \A k \in Kinds : contexts[k] # NoContext => contexts[k].task = 1
  /\ \A c \in Clients : at[c] = "returned" =>
       \E i \in DOMAIN queue : \A j \in DOMAIN queue : queue[j] = <<1, c>> <=> j = i

\* When nobody is at it, the modem has its features: a restart at any moment, before the
\* first context is there, between its making and its injection, or later, loses nothing
\* for good.  (The library must be there, and an API that is told of restarts.)
FeaturesInjected ==
  mInjectContext # "NULL" /\ ups = {} /\ (\A c \in Clients : at[c] # "injecting")
    /\ platform.lbs # "none" /\ contexts[mInjectContext].api # "dummy"
  => features

ContextsShared == Shared /\ FeaturesInjected
=============================================================================
