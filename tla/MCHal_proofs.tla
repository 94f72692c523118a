---------------------------- MODULE MCHal_proofs ----------------------------
(***************************************************************************)
(* Theorems about three parts of the HAL: what the framework sets reaches  *)
(* the modem (LocHal), the modem is asked for the events that the adapters *)
(* want and its reports reach them (LocApi), and the sentences list the    *)
(* satellites in view and the precision of those they name (Nmea).         *)
(*                                                                         *)
(* LocHal promises something of a quiet HAL only.  Its invariant says for  *)
(* each setting where the value the framework set last is until then: the  *)
(* framework's call still carries it, the task is about to send it, it is  *)
(* in the last message of its kind, the modem has it, or loc_eng_reinit    *)
(* will come to it again.  LocApi's says the same of the mask: a message   *)
(* is left that makes the task put it together again, or what it has put   *)
(* together so far is what the slots behind it want.                       *)
(***************************************************************************)
EXTENDS MCHal, TLAPS, FiniteSetTheorems, SequenceTheorems, NaturalsInduction, WellFoundedInduction

-----------------------------------------------------------------------------
(* The queue has a message of the set. *)
Holds(q, W) == \E i \in 1..Len(q) : q[i] \in W

(* The last message of the queue that is in V is in W. *)
LastIn(q, W, V) ==
    \E i \in 1..Len(q) : q[i] \in W /\ \A j \in 1..Len(q) : j > i => q[j] \notin V

(* Every message of V comes behind one of W. *)
After(q, V, W) == \A i \in 1..Len(q) : q[i] \in V => \E j \in 1..Len(q) : j < i /\ q[j] \in W

(* Every message of V comes before one of W. *)
Before(q, V, W) == \A i \in 1..Len(q) : q[i] \in V => \E j \in 1..Len(q) : j > i /\ q[j] \in W

Values == Hosts \cup {"cut", "", "on", "off", "v1", "v2", "none", "conf", "MO", "unset"}
Messages ==
    [name : {"Init", "Up", "server", "data", "ver", "lock", "constellation", "SetCapabilities"},
     value : Values]
Confs == [SUPL_VER : {"v1", "v2"}, measure : BOOLEAN]
Settings == [server : Values, data : Values, ver : Values, power : Values, lock : Values]

Named(names) == {m \in Messages : m.name \in names}
Saying(name, value) == {m \in Messages : m.name = name /\ m.value = value}

Coming(names) == Holds(mQ, Named(names))

(* The last message that sets a value has v or, when there is none, the    *)
(* modem has it.                                                           *)
Arranged(q, has, name, v) ==
    \/ LastIn(q, Saying(name, v), Named({name}))
    \/ ~Holds(q, Named({name})) /\ has[name] = v

(* The task is about to send v, or it is settled. *)
OnItsWay(q, re, has, name, v) ==
    IF re.at = name THEN re.value = v ELSE Arranged(q, has, name, v)

-----------------------------------------------------------------------------
(* What a queue is after a message is appended. *)
LEMMA Appended ==
    ASSUME NEW S, NEW q \in Seq(S), NEW m \in S, NEW r, r = Append(q, m)
    PROVE  /\ r \in Seq(S) /\ Len(q) \in Nat /\ Len(r) = Len(q) + 1
           /\ \A i \in 1..Len(q) : r[i] = q[i] /\ i \in 1..Len(r) /\ i < Len(r)
           /\ r[Len(r)] = m /\ Len(r) \in 1..Len(r)
           /\ \A i \in 1..Len(r) : i = Len(r) \/ i \in 1..Len(q)
           /\ \A i \in 1..Len(r) : ~(i > Len(r))
OBVIOUS

(* What a queue is without its first message. *)
LEMMA Taken ==
    ASSUME NEW S, NEW q \in Seq(S), q # <<>>, NEW r, r = Tail(q)
    PROVE  /\ r \in Seq(S) /\ Len(q) \in Nat \ {0} /\ Len(r) = Len(q) - 1
           /\ Head(q) = q[1] /\ q[1] \in S /\ 1 \in 1..Len(q)
           /\ \A i \in 1..Len(r) : r[i] = q[i + 1] /\ i + 1 \in 1..Len(q)
           /\ \A i \in 1..Len(q) : i # 1 => i - 1 \in 1..Len(r) /\ r[i - 1] = q[i]
OBVIOUS

(* What a new message adds to what a queue has. *)
LEMMA AppendHolds ==
    ASSUME NEW S, NEW q \in Seq(S), NEW m \in S, NEW r, r = Append(q, m), NEW W
    PROVE  Holds(r, W) <=> Holds(q, W) \/ m \in W
BY Appended DEF Holds

(* Whether it is the last of its kind. *)
LEMMA AppendLast ==
    ASSUME NEW S, NEW q \in Seq(S), NEW m \in S, NEW r, r = Append(q, m), NEW V, NEW W
    PROVE  /\ m \in W => LastIn(r, W, V)
           /\ m \notin V /\ LastIn(q, W, V) => LastIn(r, W, V)
<1>1. /\ Len(q) \in Nat /\ Len(r) = Len(q) + 1
      /\ \A i \in 1..Len(q) : r[i] = q[i] /\ i \in 1..Len(r) /\ i < Len(r)
      /\ r[Len(r)] = m /\ Len(r) \in 1..Len(r)
      /\ \A i \in 1..Len(r) : i = Len(r) \/ i \in 1..Len(q)
      /\ \A i \in 1..Len(r) : ~(i > Len(r))
  BY Appended
<1>2. m \in W => LastIn(r, W, V)
  BY <1>1 DEF LastIn
<1>3. m \notin V /\ LastIn(q, W, V) => LastIn(r, W, V)
  BY <1>1 DEF LastIn
<1> QED
  BY <1>2, <1>3

(* Whether it comes behind another. *)
LEMMA AppendAfter ==
    ASSUME NEW S, NEW q \in Seq(S), NEW m \in S, NEW r, r = Append(q, m), NEW V, NEW W
    PROVE  After(q, V, W) /\ (m \in V => Holds(q, W)) => After(r, V, W)
<1>1. /\ Len(q) \in Nat /\ Len(r) = Len(q) + 1
      /\ \A i \in 1..Len(q) : r[i] = q[i] /\ i \in 1..Len(r) /\ i < Len(r)
      /\ r[Len(r)] = m /\ Len(r) \in 1..Len(r)
      /\ \A i \in 1..Len(r) : i = Len(r) \/ i \in 1..Len(q)
  BY Appended
<1> QED
  BY <1>1 DEF After, Holds

(* What taking the first message leaves of what a queue has. *)
LEMMA TakeHolds ==
    ASSUME NEW S, NEW q \in Seq(S), q # <<>>, NEW r, r = Tail(q), NEW W
    PROVE  Holds(q, W) <=> Holds(r, W) \/ Head(q) \in W
<1>1. /\ Len(q) \in Nat \ {0} /\ Len(r) = Len(q) - 1 /\ Head(q) = q[1] /\ 1 \in 1..Len(q)
      /\ \A i \in 1..Len(r) : r[i] = q[i + 1] /\ i + 1 \in 1..Len(q)
      /\ \A i \in 1..Len(q) : i # 1 => i - 1 \in 1..Len(r) /\ r[i - 1] = q[i]
  BY Taken
<1> QED
  BY <1>1 DEF Holds

(* The last of its kind is still to come, or it is taken and no other      *)
(* comes.                                                                  *)
LEMMA TakeLast ==
    ASSUME NEW S, NEW q \in Seq(S), q # <<>>, NEW r, r = Tail(q), NEW V, NEW W
    PROVE  LastIn(q, W, V) => LastIn(r, W, V) \/ (Head(q) \in W /\ ~Holds(r, V))
<1> SUFFICES ASSUME LastIn(q, W, V) PROVE LastIn(r, W, V) \/ (Head(q) \in W /\ ~Holds(r, V))
  OBVIOUS
<1>0. /\ Len(q) \in Nat \ {0} /\ Len(r) = Len(q) - 1 /\ Head(q) = q[1] /\ 1 \in 1..Len(q)
      /\ \A i \in 1..Len(r) : r[i] = q[i + 1] /\ i + 1 \in 1..Len(q)
      /\ \A i \in 1..Len(q) : i # 1 => i - 1 \in 1..Len(r) /\ r[i - 1] = q[i]
  BY Taken
<1>1. PICK i \in 1..Len(q) : q[i] \in W /\ \A j \in 1..Len(q) : j > i => q[j] \notin V
  BY DEF LastIn
<1>2. ASSUME NEW j \in 1..Len(r), j + 1 > i PROVE r[j] \notin V
  BY <1>0, <1>1, <1>2
<1>3. CASE i = 1
  BY <1>0, <1>1, <1>2, <1>3 DEF Holds
<1>4. CASE i # 1
  <2>1. i - 1 \in 1..Len(r) /\ r[i - 1] \in W
    BY <1>0, <1>1, <1>4
  <2>2. ASSUME NEW j \in 1..Len(r), j > i - 1 PROVE r[j] \notin V
    BY <1>0, <1>2, <2>2
  <2> QED
    BY <2>1, <2>2 DEF LastIn
<1> QED
  BY <1>3, <1>4

(* A first message that is of W leaves nothing to follow it; one that is   *)
(* not leaves the order.                                                   *)
LEMMA TakeAfter ==
    ASSUME NEW S, NEW q \in Seq(S), q # <<>>, NEW r, r = Tail(q), NEW V, NEW W,
           After(q, V, W)
    PROVE  Head(q) \notin V /\ (Head(q) \notin W => After(r, V, W))
<1>0. /\ Len(q) \in Nat \ {0} /\ Len(r) = Len(q) - 1 /\ Head(q) = q[1] /\ 1 \in 1..Len(q)
      /\ \A i \in 1..Len(r) : r[i] = q[i + 1] /\ i + 1 \in 1..Len(q)
      /\ \A i \in 1..Len(q) : i # 1 => i - 1 \in 1..Len(r) /\ r[i - 1] = q[i]
  BY Taken
<1>1. Head(q) \notin V
  BY <1>0 DEF After
<1>2. ASSUME Head(q) \notin W, NEW i \in 1..Len(r), r[i] \in V
      PROVE  \E j \in 1..Len(r) : j < i /\ r[j] \in W
  <2>1. PICK j \in 1..Len(q) : j < i + 1 /\ q[j] \in W
    BY <1>0, <1>2 DEF After
  <2>2. j # 1
    BY <1>0, <1>2, <2>1
  <2>3. j - 1 \in 1..Len(r) /\ j - 1 < i /\ r[j - 1] \in W
    BY <1>0, <2>1, <2>2
  <2> QED
    BY <2>3
<1> QED
  BY <1>1, <1>2 DEF After

(* A new message of W comes behind all, one that is not of V changes nothing. *)
LEMMA AppendBefore ==
    ASSUME NEW S, NEW q \in Seq(S), NEW m \in S, NEW r, r = Append(q, m), NEW V, NEW W
    PROVE  m \notin V /\ (m \in W \/ Before(q, V, W)) => Before(r, V, W)
<1>1. /\ Len(q) \in Nat /\ Len(r) = Len(q) + 1
      /\ \A i \in 1..Len(q) : r[i] = q[i] /\ i \in 1..Len(r) /\ i < Len(r)
      /\ r[Len(r)] = m /\ Len(r) \in 1..Len(r)
      /\ \A i \in 1..Len(r) : i = Len(r) \/ i \in 1..Len(q)
  BY Appended
<1>2. ASSUME m \notin V, m \in W PROVE Before(r, V, W)
  BY <1>1, <1>2 DEF Before
<1>3. ASSUME m \notin V, Before(q, V, W) PROVE Before(r, V, W)
  BY <1>1, <1>3 DEF Before
<1> QED
  BY <1>2, <1>3

(* What follows the first message follows it still. *)
LEMMA TakeBefore ==
    ASSUME NEW S, NEW q \in Seq(S), q # <<>>, NEW r, r = Tail(q), NEW V, NEW W,
           Before(q, V, W)
    PROVE  Before(r, V, W) /\ (Head(q) \in V => Holds(r, W))
<1>0. /\ Len(q) \in Nat \ {0} /\ Len(r) = Len(q) - 1 /\ Head(q) = q[1] /\ 1 \in 1..Len(q)
      /\ \A i \in 1..Len(r) : r[i] = q[i + 1] /\ i + 1 \in 1..Len(q)
      /\ \A i \in 1..Len(q) : i # 1 => i - 1 \in 1..Len(r) /\ r[i - 1] = q[i]
  BY Taken
<1>1. ASSUME NEW i \in 1..Len(r), r[i] \in V PROVE \E j \in 1..Len(r) : j > i /\ r[j] \in W
  <2>1. PICK j \in 1..Len(q) : j > i + 1 /\ q[j] \in W
    BY <1>0, <1>1 DEF Before
  <2>2. j - 1 \in 1..Len(r) /\ j - 1 > i /\ r[j - 1] \in W
    BY <1>0, <2>1
  <2> QED
    BY <2>2
<1>2. ASSUME Head(q) \in V PROVE Holds(r, W)
  <2>1. PICK j \in 1..Len(q) : j > 1 /\ q[j] \in W
    BY <1>0, <1>2 DEF Before
  <2>2. j - 1 \in 1..Len(r) /\ r[j - 1] \in W
    BY <1>0, <2>1
  <2> QED
    BY <2>2 DEF Holds
<1> QED
  BY <1>1, <1>2 DEF Before

(* The messages by name and value. *)
LEMMA Kinds ==
    ASSUME NEW m \in Messages
    PROVE  /\ \A names : m \in Named(names) <=> m.name \in names
           /\ \A name, v : m \in Saying(name, v) <=> m.name = name /\ m.value = v
BY DEF Named, Saying

(* A value stays settled when another message is sent, *)
LEMMA OtherSent ==
    ASSUME NEW q \in Seq(Messages), NEW r, NEW h, NEW k, NEW name, NEW v,
           r = q \/ \E m \in Messages : m.name # name /\ r = Append(q, m),
           k[name] = h[name], Arranged(q, h, name, v)
    PROVE  Arranged(r, k, name, v)
<1>1. CASE r = q
  BY <1>1 DEF Arranged
<1>2. ASSUME NEW m \in Messages, m.name # name, r = Append(q, m)
      PROVE  Arranged(r, k, name, v)
  <2>1. m \notin Named({name})
    BY <1>2, Kinds
  <2>2. Holds(r, Named({name})) <=> Holds(q, Named({name})) \/ m \in Named({name})
    BY <1>2, AppendHolds, ZenonT(60)
  <2>3. LastIn(q, Saying(name, v), Named({name})) => LastIn(r, Saying(name, v), Named({name}))
    BY <1>2, <2>1, AppendLast
  <2> QED
    BY <2>1, <2>2, <2>3 DEF Arranged
<1> QED
  BY <1>1, <1>2

(* when a message with it is sent, *)
LEMMA ValueSent ==
    ASSUME NEW q \in Seq(Messages), NEW r, NEW h, NEW name, NEW v,
           Msg(name, v) \in Messages, r = Append(q, Msg(name, v))
    PROVE  Arranged(r, h, name, v)
<1>1. Msg(name, v) \in Saying(name, v)
  BY DEF Msg, Saying
<1>2. LastIn(r, Saying(name, v), Named({name}))
  BY <1>1, AppendLast
<1> QED
  BY <1>2 DEF Arranged

(* and when a message is taken whose value the modem gets. *)
LEMMA ValueTaken ==
    ASSUME NEW q \in Seq(Messages), q # <<>>, NEW r, r = Tail(q), NEW h, NEW k, NEW name, NEW v,
           IF Head(q).name = name THEN k[name] = Head(q).value ELSE k[name] = h[name],
           Arranged(q, h, name, v)
    PROVE  Arranged(r, k, name, v)
<1>1. Head(q) \in Messages
  BY Taken
<1>2. Holds(q, Named({name})) <=> Holds(r, Named({name})) \/ Head(q) \in Named({name})
  BY TakeHolds
<1>3. LastIn(q, Saying(name, v), Named({name})) =>
        \/ LastIn(r, Saying(name, v), Named({name}))
        \/ Head(q) \in Saying(name, v) /\ ~Holds(r, Named({name}))
  BY TakeLast
<1>4. /\ Head(q) \in Named({name}) <=> Head(q).name = name
      /\ Head(q) \in Saying(name, v) <=> Head(q).name = name /\ Head(q).value = v
  BY <1>1, Kinds
<1> QED
  BY <1>2, <1>3, <1>4 DEF Arranged

-----------------------------------------------------------------------------
(* Where the task is in loc_eng_reinit and what follows. *)
Places == {"idle", "constellation", "ver", "data", "lock", "vote", "power", "agps", "server"}

(* The settings' types. *)
Types ==
    /\ adapter \in BOOLEAN /\ agps \in BOOLEAN /\ host \in Hosts \cup {"cut", "unset"}
    /\ agpsStatus \in {"on", "off"} /\ mPowerVote \in {"on", "off"} /\ conf \in Confs
    /\ mQ \in Seq(Messages)
    /\ reinit \in [at : Places, value : Values, up : BOOLEAN]
    /\ modem \in [up : BOOLEAN, has : Settings]
    /\ last \in [server : Values, lock : Values]

(* The framework's call carries the value it has just set, or the          *)
(* configuration it will put back.                                         *)
Calling ==
    /\ fw.at \in {"idle", "vote", "ask", "lock", "server", "data", "noApn", "copied", "ver",
                "restore"}
    /\ fw.at = "server" => fw.value \in Hosts
    /\ fw.at = "vote" => fw.value \in {"on", "off"}
    /\ fw.at = "ask" => fw.value = mPowerVote
    /\ fw.at = "data" => fw.value = agpsStatus
    /\ fw.at \in {"copied", "ver", "restore"} => fw.value \in Confs
    /\ fw.at = "copied" => fw.value.SUPL_VER = conf.SUPL_VER

(* The engine will be made, or started again. *)
Again(names) == ~modem.up \/ Coming(names)

(* The network's status: if it is not on its way, it will be read again. *)
DataSent ==
    adapter /\ "data" \notin lost /\ fw.at \notin {"data", "noApn"} =>
        \/ Again({"Init", "Up"}) \/ reinit.at \in {"constellation", "ver"}
        \/ OnItsWay(mQ, reinit, modem.has, "data", agpsStatus)

(* The version, *)
VersionSent ==
    adapter /\ "ver" \notin lost /\ fw.at # "ver" =>
        \/ Again({"Init", "Up"}) \/ reinit.at = "constellation"
        \/ OnItsWay(mQ, reinit, modem.has, "ver", conf.SUPL_VER)

(* The task will come to the server. *)
Early == reinit.up /\ reinit.at \in {"constellation", "ver", "data", "vote", "power", "agps"}

(* the server, which is sent again only when the modem restarts, *)
ServerSent ==
    adapter /\ "server" \notin lost /\ fw.at # "server" /\ host # "unset" =>
        \/ Again({"Up"})
        \/ Early
        \/ OnItsWay(mQ, reinit, modem.has, "server", host)

(* and the vote, which is no message. *)
VoteSent ==
    adapter /\ "power" \notin lost /\ fw.at \notin {"vote", "ask"} /\ PowerVoteRight =>
        \/ Again({"Up"})
        \/ reinit.up /\ reinit.at \in {"constellation", "ver", "data", "vote"}
        \/ IF reinit.at = "power" THEN reinit.value = mPowerVote ELSE modem.has.power = mPowerVote

(* The lock, which is sent once.  A new engine locks the modem itself, and *)
(* the framework's message with the lock comes behind the one that makes   *)
(* the engine.                                                             *)
LockSent ==
    /\ "lock" \notin lost => Arranged(mQ, modem.has, "lock", last.lock)
    /\ Before(mQ, Named({"Init"}), Named({"lock"}))
    /\ reinit.at # "idle" /\ ~reinit.up => Coming({"lock"})
    /\ reinit.at = "lock" => ~reinit.up

(* The capabilities are what the modem answered, unless the configuration  *)
(* was updated; the message that tells them comes behind the answer.       *)
Answered ==
    /\ "measure" \notin lost =>
         /\ fw.at \notin {"copied", "ver", "restore"}
         /\ conf.measure <=> answer = "yes"
    /\ answer \in {"none", "yes", "no"}
    /\ \/ answer # "none"
       \/ /\ After(mQ, Named({"SetCapabilities"}), Named({"constellation"}))
          /\ reinit.at \in {"ver", "data", "lock"} => Coming({"constellation"})

(* The inductive invariant of the settings. *)
SettingsInv ==
    /\ Types /\ Calling /\ DataSent /\ VersionSent /\ ServerSent /\ VoteSent /\ LockSent
    /\ Answered

-----------------------------------------------------------------------------
(* What loc_eng_set_server sends, if it sends anything. *)
LEMMA ServerMessage ==
    ASSUME NEW h, setServer(h)
    PROVE  /\ mQ' = mQ \/ mQ' = Append(mQ, Msg("server", h))
           /\ \A setting : setting # "server" => (setting \in lost' <=> setting \in lost)
           /\ "server" \notin lost' => h = host /\ sendNow("server", h)
BY DEF setServer, SentNow, sendNow

(* Types, step by step. *)
LEMMA TypesInv == Types /\ Calling /\ [Next]_vars => Types'
<1> SUFFICES ASSUME Types, Calling, [Next]_vars PROVE Types'
  OBVIOUS
<1>m. \A name \in {"Init", "Up", "server", "data", "ver", "lock", "constellation",
                   "SetCapabilities"}, v \in Values : Msg(name, v) \in Messages
  BY DEF Msg, Messages
<1>v. /\ \A v \in Hosts \cup {"unset"} : v \in Values
      /\ \A v \in {"cut", "", "on", "off", "v1", "v2", "none", "conf", "MO", "unset"} :
           v \in Values
      /\ conf.SUPL_VER \in Values
  BY DEF Values, Types, Confs
<1>q. /\ \A m \in Messages : Append(mQ, m) \in Seq(Messages)
      /\ mQ # <<>> => /\ Head(mQ) \in Messages /\ Tail(mQ) \in Seq(Messages)
                      /\ Head(mQ).value \in Values
  <2>1. /\ mQ \in Seq(Messages)
        /\ \A m \in Messages : m.value \in Values
    BY DEF Types, Messages
  <2>2. mQ # <<>> => Head(mQ) \in Messages /\ Tail(mQ) \in Seq(Messages)
    BY <2>1
  <2> QED
    BY <2>1, <2>2
<1>e. /\ reinit \in [at : Places, value : Values, up : BOOLEAN]
      /\ modem \in [up : BOOLEAN, has : Settings]
  BY DEF Types
<1>h. ASSUME NEW v \in Values, Has("lock", v) \/ Has("power", v)
      PROVE  modem' \in [up : BOOLEAN, has : Settings]
  BY <1>e, <1>h DEF Has, Settings
<1>r. ASSUME NEW s \in Places, NEW v \in Values,
             \/ Read(s, v) \/ reinit' = [reinit EXCEPT !.at = s] \/ reinit' = Running
      PROVE  reinit' \in [at : Places, value : Values, up : BOOLEAN]
  <2>1. CASE Read(s, v)
    BY <1>e, <2>1 DEF Read
  <2>2. CASE reinit' = [reinit EXCEPT !.at = s]
    BY <1>e, <2>2
  <2>3. CASE reinit' = Running
    BY <1>v, <2>3 DEF Running, Places
  <2> QED
    BY <1>r, <2>1, <2>2, <2>3
<1>s. /\ agpsStatus \in Values /\ mPowerVote \in Values /\ host \in Values
      /\ reinit.value \in Values /\ Places # {}
  BY <1>v DEF Types, Places
<1>p. \A s \in {"idle", "ver", "data", "lock", "vote", "power", "agps", "server"} : s \in Places
  BY DEF Places
<1>l. last' \in [server : Values, lock : Values]
  <2>0. last \in [server : Values, lock : Values]
    BY DEF Types
  <2>1. CASE loc_init \/ lockAgain
    <3>1. last' = [last EXCEPT !.lock = "none"] \/ last' = [last EXCEPT !.lock = "conf"]
      BY <2>1 DEF loc_init, lockAgain, setLock
    <3> QED
      BY <1>v, <2>0, <3>1
  <2>2. CASE loc_agps_set_server
    <3>1. PICK h \in Hosts : last' = [last EXCEPT !.server = h]
      BY <2>2 DEF loc_agps_set_server, loc_eng_set_server_proxy
    <3> QED
      BY <1>v, <2>0, <3>1
  <2>3. CASE ~(loc_init \/ lockAgain \/ loc_agps_set_server)
    <3>1. last' = last
      BY <2>3 DEF Next, Framework, Task, vars, others, loc_cleanup, setPowerVote,
         requestPowerVote, loc_agps_init, update_network_availability, noApn,
         loc_configuration_update, UPDATE_CONF, restoreConf, loc_eng_set_server, sendData,
         sendSuplVer, LocEngSetServerUrl, LocEngEnableData, LocEngSuplVer, LocEngGpsLock,
         procSetting, procConstellation, procSetCapabilities, procInit, loc_eng_reinit, voteAgain,
         loc_eng_agps_reinit, crash, recover
    <3> QED
      BY <2>0, <3>1
  <2> QED
    BY <2>1, <2>2, <2>3
<1> USE <1>l
<1>1. CASE loc_init
  <2>1. mQ' \in Seq(Messages)
    <3>1. \A a, b \in Messages : Append(Append(mQ, a), b) \in Seq(Messages)
      BY <1>q DEF Types
    <3>2. \/ mQ' = Append(mQ, Msg("lock", "none"))
          \/ mQ' = Append(Append(mQ, Msg("Init", "")), Msg("lock", "none"))
      BY <1>1 DEF loc_init
    <3>3. Msg("lock", "none") \in Messages /\ Msg("Init", "") \in Messages
      BY <1>m, <1>v
    <3> QED
      BY <1>q, <3>1, <3>2, <3>3
  <2> QED
    BY <1>1, <2>1 DEF loc_init, Types, Cleared, globals, engine
<1>2. CASE loc_cleanup
  BY <1>2 DEF loc_cleanup, Types, globals, engine
<1>3. CASE setPowerVote
  BY <1>3 DEF setPowerVote, Types, Calling, engine
<1>4. CASE requestPowerVote
  <2>1. modem' \in [up : BOOLEAN, has : Settings]
    <3>1. fw.value \in Values /\ (modem' = modem \/ Has("power", fw.value))
      BY <1>4, <1>s DEF requestPowerVote, Calling
    <3> QED
      BY <1>h, <3>1 DEF Types
  <2> QED
    BY <1>4, <2>1 DEF requestPowerVote, Types, globals, engine
<1>28. CASE lockAgain
  BY <1>28, <1>m, <1>v, <1>q DEF lockAgain, Types, globals, engine
<1>5. CASE loc_agps_init
  <2>1. mQ' \in Seq(Messages)
    BY <1>5, <1>m, <1>s, <1>q, ServerMessage DEF loc_agps_init, Types
  <2> QED
    BY <1>5, <2>1 DEF loc_agps_init, Types, globals, engine
<1>6. CASE loc_agps_set_server
  BY <1>6, <1>v DEF loc_agps_set_server, loc_eng_set_server_proxy, Kept, Types, globals
<1>7. CASE update_network_availability
  BY <1>7 DEF update_network_availability, Types, engine
<1>8. CASE noApn
  BY <1>8 DEF noApn, Types, globals, engine
<1>9. CASE loc_configuration_update
  BY <1>9 DEF loc_configuration_update, Types, globals, engine
<1>10. CASE UPDATE_CONF
  BY <1>10 DEF UPDATE_CONF, Types, Confs, engine
<1>11. CASE restoreConf
  BY <1>11 DEF restoreConf, Types, Calling, Confs, engine
<1>12. CASE loc_eng_set_server
  <2>1. fw.value \in Values
    BY <1>12, <1>v DEF loc_eng_set_server, Calling
  <2>2. mQ' = mQ \/ mQ' = Append(mQ, Msg("server", fw.value))
    BY <1>12, ServerMessage DEF loc_eng_set_server
  <2>3. mQ' \in Seq(Messages)
    BY <1>m, <1>q, <2>1, <2>2 DEF Types
  <2> QED
    BY <1>12, <2>3 DEF loc_eng_set_server, Types, globals, engine
<1>13. CASE sendData
  <2>1. mQ' \in Seq(Messages)
    BY <1>13, <1>m, <1>s, <1>q DEF sendData, sendNow, Calling
  <2> QED
    BY <1>13, <2>1 DEF sendData, Types, globals, engine
<1>14. CASE sendSuplVer
  <2>1. mQ' \in Seq(Messages)
    BY <1>14, <1>m, <1>v, <1>q DEF sendSuplVer, sendNow
  <2> QED
    BY <1>14, <2>1 DEF sendSuplVer, Types, globals, engine
<1>15. CASE LocEngSetServerUrl
  <2>1. modem' \in [up : BOOLEAN, has : Settings]
    BY <1>15, <1>q DEF LocEngSetServerUrl, procSetting, Types, Has, Settings
  <2> QED
    BY <1>15, <1>q, <2>1 DEF LocEngSetServerUrl, procSetting, Types, globals, engine
<1>16. CASE LocEngEnableData
  <2>1. modem' \in [up : BOOLEAN, has : Settings]
    BY <1>16, <1>q DEF LocEngEnableData, procSetting, Types, Has, Settings
  <2> QED
    BY <1>16, <1>q, <2>1 DEF LocEngEnableData, procSetting, Types, globals, engine
<1>17. CASE LocEngSuplVer
  <2>1. modem' \in [up : BOOLEAN, has : Settings]
    BY <1>17, <1>q DEF LocEngSuplVer, procSetting, Types, Has, Settings
  <2> QED
    BY <1>17, <1>q, <2>1 DEF LocEngSuplVer, procSetting, Types, globals, engine
<1>18. CASE LocEngGpsLock
  <2>1. modem' \in [up : BOOLEAN, has : Settings]
    BY <1>18, <1>q DEF LocEngGpsLock, procSetting, Types, Has, Settings
  <2> QED
    BY <1>18, <1>q, <2>1 DEF LocEngGpsLock, procSetting, Types, globals, engine
<1>19. CASE procConstellation
  <2>1. conf' \in Confs
    BY <1>19 DEF procConstellation, Types, Confs
  <2> QED
    BY <1>19, <1>q, <2>1 DEF procConstellation, Types, engine
<1>20. CASE procSetCapabilities
  BY <1>20, <1>q DEF procSetCapabilities, Types, globals, engine
<1>21. CASE procInit
  <2>1. reinit' \in [at : Places, value : Values, up : BOOLEAN]
    BY <1>21, <1>v DEF procInit, Places
  <2> QED
    BY <1>21, <1>q, <2>1 DEF procInit, Types, globals, engine
<1>22. CASE loc_eng_reinit
  <2>1. modem' \in [up : BOOLEAN, has : Settings]
    <3>1. modem' = modem \/ Has("lock", "MO")
      BY <1>22 DEF loc_eng_reinit
    <3> QED
      BY <1>h, <1>v, <3>1 DEF Types
  <2>2. mQ' \in Seq(Messages)
    BY <1>22, <1>q, <1>m, <1>s, <1>v DEF loc_eng_reinit
  <2>3. reinit' \in [at : Places, value : Values, up : BOOLEAN]
    <3>1. \/ Read("ver", conf.SUPL_VER) \/ Read("data", agpsStatus) \/ reinit' = Running
          \/ reinit' = [reinit EXCEPT !.at = "vote"] \/ reinit' = [reinit EXCEPT !.at = "lock"]
      BY <1>22 DEF loc_eng_reinit
    <3> QED
      BY <1>r, <1>p, <1>s, <1>v, <3>1
  <2> QED
    BY <1>22, <2>1, <2>2, <2>3 DEF loc_eng_reinit, Types, globals, engine
<1>23. CASE voteAgain
  <2>1. modem' \in [up : BOOLEAN, has : Settings]
    <3>1. modem' = modem \/ Has("power", reinit.value)
      BY <1>23 DEF voteAgain
    <3> QED
      BY <1>h, <1>s, <3>1 DEF Types
  <2>2. reinit' \in [at : Places, value : Values, up : BOOLEAN]
    <3>1. Read("power", mPowerVote) \/ reinit' = [reinit EXCEPT !.at = "agps"]
      BY <1>23 DEF voteAgain
    <3> QED
      BY <1>r, <1>p, <1>s, <3>1
  <2>3. /\ adapter' = adapter /\ agps' = agps /\ host' = host /\ agpsStatus' = agpsStatus
        /\ conf' = conf /\ mPowerVote' = mPowerVote /\ mQ' = mQ
    BY <1>23 DEF voteAgain, globals, engine
  <2> QED
    BY <2>1, <2>2, <2>3 DEF Types
<1>24. CASE loc_eng_agps_reinit
  <2>1. mQ' \in Seq(Messages)
    <3>1. mQ' = mQ \/ mQ' = Append(mQ, Msg("server", reinit.value))
      BY <1>24 DEF loc_eng_agps_reinit
    <3>2. Msg("server", reinit.value) \in Messages
      BY <1>m, <1>s
    <3> QED
      BY <1>q, <3>1, <3>2 DEF Types
  <2>2. reinit' \in [at : Places, value : Values, up : BOOLEAN]
    <3>1. Read("server", host) \/ reinit' = Running
      BY <1>24 DEF loc_eng_agps_reinit
    <3> QED
      BY <1>r, <1>p, <1>s, <3>1
  <2> QED
    BY <1>24, <2>1, <2>2 DEF loc_eng_agps_reinit, Types, globals, engine
<1>25. CASE crash
  BY <1>25, <1>v DEF crash, Types, Forgotten, Settings, globals, engine
<1>26. CASE recover
  <2>1. modem' \in [up : BOOLEAN, has : Settings]
    BY <1>26 DEF recover, Types
  <2> QED
    BY <1>26, <1>m, <1>v, <1>q, <2>1 DEF recover, Types, globals, engine
<1>27. CASE UNCHANGED vars
  BY <1>27 DEF vars, Types
<1> QED
  BY <1>1, <1>2, <1>3, <1>4, <1>5, <1>6, <1>7, <1>8, <1>9, <1>10, <1>11, <1>12, <1>13, <1>14,
     <1>15, <1>16, <1>17, <1>18, <1>19, <1>20, <1>21, <1>22, <1>23, <1>24, <1>25, <1>26, <1>27,
     <1>28 DEF Next, Framework, Task

-----------------------------------------------------------------------------
(* A step that has nothing to do with the setting: it may send a message   *)
(* of another, and give the modem another.                                 *)
Passes(name) ==
    /\ reinit' = reinit \/ (reinit.at # name /\ reinit'.at # name)
    /\ modem'.up = modem.up /\ modem'.has[name] = modem.has[name]
    /\ mQ' = mQ \/ \E m \in Messages : m.name # name /\ mQ' = Append(mQ, m)

(* A step that takes a message: the modem gets the value of the setting's. *)
Takes(name) ==
    /\ mQ # <<>> /\ mQ' = Tail(mQ) /\ reinit.at # name /\ reinit'.at # name
    /\ modem'.up = modem.up
    /\ modem.up => modem'.has[name] = IF Head(mQ).name = name THEN Head(mQ).value
                                      ELSE modem.has[name]

(* What is on its way stays so, and so does a new start of the engine.     *)
LEMMA PassesKeep ==
    ASSUME Types, NEW name, Passes(name)
    PROVE  /\ \A names : Again(names) => Again(names)'
           /\ \A v : OnItsWay(mQ, reinit, modem.has, name, v) =>
                       OnItsWay(mQ', reinit', modem'.has, name, v)
<1>1. mQ \in Seq(Messages)
  BY DEF Types
<1>2. ASSUME NEW names, Again(names) PROVE Again(names)'
  <2>1. CASE ~modem.up
    BY <2>1 DEF Passes, Again
  <2>2. CASE Holds(mQ, Named(names))
    <3>1. Holds(mQ', Named(names))
      BY <1>1, <2>2, AppendHolds DEF Passes
    <3> QED
      BY <3>1 DEF Again, Coming
  <2> QED
    BY <1>2, <2>1, <2>2 DEF Again, Coming
<1>3. ASSUME NEW v, OnItsWay(mQ, reinit, modem.has, name, v)
      PROVE  OnItsWay(mQ', reinit', modem'.has, name, v)
  <2>1. Arranged(mQ, modem.has, name, v) => Arranged(mQ', modem'.has, name, v)
    BY <1>1, OtherSent DEF Passes
  <2> QED
    BY <1>3, <2>1 DEF Passes, OnItsWay
<1> QED
  BY <1>2, <1>3

(* The same when a message is taken, but for the start that it is.         *)
LEMMA TakesKeep ==
    ASSUME Types, NEW name, Takes(name)
    PROVE  /\ \A names : Head(mQ).name \notin names /\ Again(names) => Again(names)'
           /\ \A v : modem.up /\ OnItsWay(mQ, reinit, modem.has, name, v) =>
                       OnItsWay(mQ', reinit', modem'.has, name, v)
<1>1. mQ \in Seq(Messages) /\ mQ # <<>> /\ mQ' = Tail(mQ) /\ Head(mQ) \in Messages
  BY DEF Types, Takes
<1>2. ASSUME NEW names, Again(names), Head(mQ).name \notin names PROVE Again(names)'
  <2>1. CASE ~modem.up
    BY <2>1 DEF Takes, Again
  <2>2. CASE Holds(mQ, Named(names))
    <3>1. Head(mQ) \notin Named(names)
      BY <1>1, <1>2, Kinds
    <3>2. Holds(mQ', Named(names))
      BY <1>1, <2>2, <3>1, TakeHolds
    <3> QED
      BY <3>2 DEF Again, Coming
  <2> QED
    BY <1>2, <2>1, <2>2 DEF Again, Coming
<1>3. ASSUME NEW v, modem.up, OnItsWay(mQ, reinit, modem.has, name, v)
      PROVE  OnItsWay(mQ', reinit', modem'.has, name, v)
  <2>1. Arranged(mQ, modem.has, name, v)
    BY <1>3 DEF Takes, OnItsWay
  <2>2. IF Head(mQ).name = name THEN modem'.has[name] = Head(mQ).value
        ELSE modem'.has[name] = modem.has[name]
    BY <1>3 DEF Takes
  <2>3. Arranged(mQ', modem'.has, name, v)
    BY <1>1, <2>1, <2>2, ValueTaken
  <2> QED
    BY <2>3 DEF Takes, OnItsWay
<1> QED
  BY <1>2, <1>3

(* A new message is one more start of the engine, if it is one.            *)
LEMMA StartSent ==
    ASSUME Types, NEW m \in Messages, mQ' = Append(mQ, m), NEW names
    PROVE  Coming(names)' <=> Coming(names) \/ m.name \in names
<1>1. mQ \in Seq(Messages)
  BY DEF Types
<1>2. Holds(mQ', Named(names)) <=> Holds(mQ, Named(names)) \/ m \in Named(names)
  BY <1>1, AppendHolds
<1>3. m \in Named(names) <=> m.name \in names
  BY Kinds
<1> QED
  BY <1>2, <1>3 DEF Coming

(* The first of two new messages is there. *)
LEMMA TwoSent ==
    ASSUME NEW q \in Seq(Messages), NEW a \in Messages, NEW b \in Messages, NEW r,
           r = Append(Append(q, a), b), NEW names, a.name \in names
    PROVE  Holds(r, Named(names))
<1>0. Append(q, a) \in Seq(Messages)
  OBVIOUS
<1>1. PICK p : p \in Seq(Messages) /\ p = Append(q, a)
  BY <1>0, Zenon
<1>2. Holds(p, Named(names)) <=> Holds(q, Named(names)) \/ a \in Named(names)
  BY <1>1, AppendHolds
<1>3. r = Append(p, b)
  BY <1>1
<1>4. Holds(r, Named(names)) <=> Holds(p, Named(names)) \/ b \in Named(names)
  BY <1>1, <1>3, AppendHolds
<1> QED
  BY <1>2, <1>4, Kinds

(* A value that is sent is on its way, but when the task is about to send  *)
(* another.                                                                *)
LEMMA NowSent ==
    ASSUME Types, NEW name, NEW v, Msg(name, v) \in Messages, sendNow(name, v), reinit' = reinit,
           name \notin lost'
    PROVE  OnItsWay(mQ', reinit', modem'.has, name, v)
<1>1. Arranged(mQ', modem'.has, name, v)
  BY ValueSent DEF sendNow, Types
<1>2. reinit.at = name => reinit.value = v
  BY DEF sendNow, SentNow
<1> QED
  BY <1>1, <1>2 DEF OnItsWay

(* The messages, and what has the modem's settings.                        *)
LEMMA Sorts ==
    ASSUME Types
    PROVE  /\ \A name \in {"Init", "Up", "server", "data", "ver", "lock", "constellation",
                           "SetCapabilities"}, v \in Values :
                Msg(name, v) \in Messages /\ Msg(name, v).name = name
           /\ {host, agpsStatus, mPowerVote, conf.SUPL_VER, reinit.value,
               "", "on", "off", "none", "conf", "MO"} \subseteq Values
           /\ modem.has \in Settings /\ mQ \in Seq(Messages)
BY ZenonT(60) DEF Types, Values, Messages, Msg, Confs

(* What the modem has of the others when it gets a value. *)
LEMMA OthersHad ==
    ASSUME Types, NEW setting \in {"server", "data", "ver", "power", "lock"}, NEW value,
           Has(setting, value)
    PROVE  /\ modem'.up = modem.up
           /\ \A name \in {"server", "data", "ver", "power", "lock"} : name # setting =>
                modem'.has[name] = modem.has[name]
           /\ modem.up => modem'.has[setting] = value
<1>1. modem \in [up : BOOLEAN, has : Settings]
  BY DEF Types
<1>2. CASE modem.up
  <2>1. modem' = [modem EXCEPT !.has[setting] = value]
    BY <1>2 DEF Has
  <2>2. modem.has \in Settings /\ modem'.up = modem.up
        /\ modem'.has = [modem.has EXCEPT ![setting] = value]
    BY <1>1, <2>1
  <2> QED
    BY <2>2 DEF Settings
<1>3. CASE ~modem.up
  BY <1>3 DEF Has
<1> QED
  BY <1>2, <1>3

(* A message of another setting. *)
LEMMA OtherMessage ==
    ASSUME Types, NEW name, NEW v \in Values,
           NEW n \in {"Init", "Up", "server", "data", "ver", "lock", "constellation",
                      "SetCapabilities"},
           n # name, mQ' = Append(mQ, Msg(n, v))
    PROVE  \E m \in Messages : m.name # name /\ mQ' = Append(mQ, m)
<1>1. Msg(n, v) \in Messages /\ Msg(n, v).name = n
  BY DEF Msg, Messages
<1> QED
  BY <1>1

(* The steps that have nothing to do with a setting. *)
LEMMA Passing ==
    ASSUME Types, Calling, NEW name \in {"data", "ver", "server"}
    PROVE  /\ loc_init /\ adapter => Passes(name)
           /\ loc_cleanup \/ setPowerVote \/ loc_agps_set_server
              \/ update_network_availability \/ noApn \/ loc_configuration_update
              \/ UPDATE_CONF \/ restoreConf => Passes(name)
           /\ requestPowerVote \/ lockAgain \/ voteAgain => Passes(name)
           /\ name # "server" /\ (loc_agps_init \/ loc_eng_set_server \/ loc_eng_agps_reinit)
                => Passes(name)
           /\ name # "data" /\ sendData => Passes(name)
           /\ name # "ver" /\ sendSuplVer => Passes(name)
<1>v. /\ host \in Values /\ agpsStatus \in Values /\ conf.SUPL_VER \in Values
      /\ reinit.value \in Values /\ "none" \in Values /\ "conf" \in Values
      /\ \A h \in Hosts : h \in Values
  BY Sorts DEF Values
<1>r. reinit \in [at : Places, value : Values, up : BOOLEAN]
  BY DEF Types
<1>2. ASSUME loc_init, adapter PROVE Passes(name)
  <2>1. mQ' = Append(mQ, Msg("lock", "none")) /\ reinit' = reinit /\ modem' = modem
    BY <1>2 DEF loc_init
  <2> QED
    BY <1>v, <2>1, OtherMessage DEF Passes
<1>3. ASSUME loc_cleanup \/ setPowerVote \/ loc_agps_set_server
             \/ update_network_availability \/ noApn \/ loc_configuration_update
             \/ UPDATE_CONF \/ restoreConf
      PROVE  Passes(name)
  BY <1>3 DEF loc_cleanup, setPowerVote, loc_agps_set_server, loc_eng_set_server_proxy,
     update_network_availability, noApn, loc_configuration_update, UPDATE_CONF, restoreConf, Passes
<1>4. ASSUME requestPowerVote PROVE Passes(name)
  <2>1. modem' = modem \/ Has("power", fw.value)
    BY <1>4 DEF requestPowerVote
  <2>2. modem'.up = modem.up /\ modem'.has[name] = modem.has[name]
    BY <2>1, OthersHad
  <2> QED
    BY <1>4, <2>2 DEF requestPowerVote, Passes
<1>11. ASSUME lockAgain PROVE Passes(name)
  <2>1. mQ' = Append(mQ, Msg("lock", "conf")) /\ reinit' = reinit /\ modem' = modem
    BY <1>11 DEF lockAgain
  <2> QED
    BY <1>v, <2>1, OtherMessage DEF Passes
<1>5. ASSUME voteAgain PROVE Passes(name)
  <2>1. modem' = modem \/ Has("power", reinit.value)
    BY <1>5 DEF voteAgain
  <2>2. modem'.up = modem.up /\ modem'.has[name] = modem.has[name]
    BY <2>1, OthersHad
  <2>3. reinit.at # name /\ reinit'.at # name
    BY <1>5, <1>r DEF voteAgain, Read
  <2> QED
    BY <1>5, <2>2, <2>3 DEF voteAgain, Passes
<1>6. ASSUME name # "server", loc_agps_init PROVE Passes(name)
  <2>1. /\ reinit' = reinit /\ modem' = modem
        /\ mQ' = mQ \/ mQ' = Append(mQ, Msg("server", host))
    BY <1>6, ServerMessage DEF loc_agps_init
  <2> QED
    BY <1>v, <1>6, <2>1, OtherMessage DEF Passes
<1>7. ASSUME name # "server", loc_eng_set_server PROVE Passes(name)
  <2>1. /\ reinit' = reinit /\ modem' = modem
        /\ fw.value \in Values /\ (mQ' = mQ \/ mQ' = Append(mQ, Msg("server", fw.value)))
    BY <1>7, <1>v, ServerMessage DEF loc_eng_set_server, Calling
  <2> QED
    BY <1>v, <1>7, <2>1, OtherMessage DEF Passes
<1>8. ASSUME name # "server", loc_eng_agps_reinit PROVE Passes(name)
  <2>1. /\ reinit.at \in {"agps", "server"} /\ modem' = modem
        /\ reinit' = Running \/ Read("server", host)
        /\ mQ' = mQ \/ mQ' = Append(mQ, Msg("server", reinit.value))
    BY <1>8 DEF loc_eng_agps_reinit
  <2>2. reinit'.at \in {"idle", "server"}
    <3>1. CASE reinit' = Running
      BY <3>1 DEF Running
    <3>2. CASE Read("server", host)
      BY <1>r, <3>2 DEF Read
    <3> QED
      BY <2>1, <3>1, <3>2
  <2>3. mQ' = mQ \/ \E m \in Messages : m.name # name /\ mQ' = Append(mQ, m)
    BY <1>v, <1>8, <2>1, OtherMessage
  <2> QED
    BY <1>8, <2>1, <2>2, <2>3 DEF Passes
<1>9. ASSUME name # "data", sendData PROVE Passes(name)
  <2>1. reinit' = reinit /\ modem' = modem /\ mQ' = Append(mQ, Msg("data", agpsStatus))
    BY <1>9 DEF sendData, sendNow, Calling
  <2> QED
    BY <1>v, <1>9, <2>1, OtherMessage DEF Passes
<1>10. ASSUME name # "ver", sendSuplVer PROVE Passes(name)
  <2>1. reinit' = reinit /\ modem' = modem /\ mQ' = Append(mQ, Msg("ver", conf.SUPL_VER))
    BY <1>10 DEF sendSuplVer, sendNow
  <2> QED
    BY <1>v, <1>10, <2>1, OtherMessage DEF Passes
<1> QED
  BY <1>2, <1>3, <1>4, <1>5, <1>6, <1>7, <1>8, <1>9, <1>10, <1>11

(* The steps that take a message. *)
LEMMA Taking ==
    ASSUME Types, NEW name \in {"data", "ver", "server"}
    PROVE  /\ LocEngSetServerUrl \/ LocEngEnableData \/ LocEngSuplVer \/ LocEngGpsLock =>
                Takes(name) /\ Head(mQ).name \notin {"Init", "Up"}
           /\ procConstellation \/ procSetCapabilities =>
                Takes(name) /\ Head(mQ).name \notin {"Init", "Up"}
           /\ procInit => Takes(name) /\ Head(mQ).name \in {"Init", "Up"}
<1>1. ASSUME NEW n \in {"server", "data", "ver", "lock"}, procSetting(n)
      PROVE  Takes(name) /\ Head(mQ).name \notin {"Init", "Up"}
  <2>1. Has(n, Head(mQ).value) /\ Head(mQ).name = n
    BY <1>1 DEF procSetting
  <2>2. modem'.up = modem.up
        /\ (modem.up => modem'.has[name] = IF n = name THEN Head(mQ).value ELSE modem.has[name])
    BY <2>1, OthersHad
  <2> QED
    BY <1>1, <2>1, <2>2 DEF procSetting, Takes
<1>2. ASSUME procConstellation \/ procSetCapabilities
      PROVE  Takes(name) /\ Head(mQ).name \notin {"Init", "Up"}
  BY <1>2 DEF procConstellation, procSetCapabilities, Takes
<1>3. ASSUME procInit PROVE Takes(name) /\ Head(mQ).name \in {"Init", "Up"}
  BY <1>3 DEF procInit, Takes
<1> QED
  BY <1>1, <1>2, <1>3 DEF LocEngSetServerUrl, LocEngEnableData, LocEngSuplVer, LocEngGpsLock

-----------------------------------------------------------------------------
(* The network's status, step by step. *)
LEMMA DataInv == Types /\ Calling /\ DataSent /\ [Next]_vars => DataSent'
<1> SUFFICES ASSUME Types, Calling, DataSent, [Next]_vars PROVE DataSent'
  OBVIOUS
<1>r. reinit \in [at : Places, value : Values, up : BOOLEAN]
  BY DEF Types
<1>v. /\ agpsStatus \in Values /\ conf.SUPL_VER \in Values /\ reinit.value \in Values
      /\ "" \in Values /\ mQ \in Seq(Messages)
  BY Sorts
<1>m. \A n \in {"Init", "Up", "data", "ver", "constellation", "SetCapabilities"}, v \in Values :
        Msg(n, v) \in Messages /\ Msg(n, v).name = n
  BY DEF Msg, Messages
<1>q. mQ \in Seq(Messages)
  BY Sorts
<1>k. ASSUME Passes("data"), adapter' => adapter, agpsStatus' = agpsStatus,
             "data" \notin lost' => "data" \notin lost,
             fw'.at \notin {"data", "noApn"} => fw.at \notin {"data", "noApn"},
             reinit.at \in {"constellation", "ver"} => reinit'.at \in {"constellation", "ver"}
      PROVE  DataSent'
  <2>1. /\ Again({"Init", "Up"}) => Again({"Init", "Up"})'
        /\ OnItsWay(mQ, reinit, modem.has, "data", agpsStatus) =>
             OnItsWay(mQ', reinit', modem'.has, "data", agpsStatus)
    BY <1>k, PassesKeep
  <2> QED
    BY <1>k, <2>1 DEF DataSent
<1>t. ASSUME Takes("data"), Head(mQ).name \notin {"Init", "Up"}, adapter' = adapter,
             agpsStatus' = agpsStatus, "data" \notin lost' => "data" \notin lost, fw' = fw,
             reinit' = reinit
      PROVE  DataSent'
  <2>1. /\ Again({"Init", "Up"}) => Again({"Init", "Up"})'
        /\ modem.up /\ OnItsWay(mQ, reinit, modem.has, "data", agpsStatus) =>
             OnItsWay(mQ', reinit', modem'.has, "data", agpsStatus)
    BY <1>t, TakesKeep
  <2>2. modem.up \/ Again({"Init", "Up"})
    BY DEF Again
  <2> QED
    BY <1>t, <2>1, <2>2 DEF DataSent
<1>1. CASE loc_init
  <2>1. CASE adapter
    <3>1. Passes("data") /\ reinit' = reinit
      BY <1>1, <2>1, Passing DEF loc_init
    <3>2. agpsStatus' = agpsStatus /\ ("data" \notin lost' => "data" \notin lost)
      BY <1>1 DEF loc_init, setLock, globals
    <3>3. fw.at = "idle"
      BY <1>1 DEF loc_init, Enter
    <3> QED
      BY <1>k, <2>1, <3>1, <3>2, <3>3
  <2>2. CASE ~adapter
    <3>1. mQ' = Append(Append(mQ, Msg("Init", "")), Msg("lock", "none"))
      BY <1>1, <2>2 DEF loc_init
    <3>2. Msg("Init", "") \in Messages /\ Msg("Init", "").name \in {"Init", "Up"}
          /\ Msg("lock", "none") \in Messages
      BY DEF Msg, Messages, Values
    <3>3. Holds(mQ', Named({"Init", "Up"}))
      BY <1>q, <3>1, <3>2, TwoSent
    <3> QED
      BY <3>3 DEF DataSent, Again, Coming
  <2> QED
    BY <2>1, <2>2
<1>2. CASE loc_cleanup \/ setPowerVote \/ loc_agps_set_server \/ loc_configuration_update
           \/ UPDATE_CONF \/ restoreConf
  <2>1. Passes("data") /\ adapter' = adapter /\ agpsStatus' = agpsStatus /\ reinit' = reinit
    BY <1>2, Passing DEF loc_cleanup, setPowerVote, loc_agps_set_server, loc_eng_set_server_proxy,
       loc_configuration_update, UPDATE_CONF, restoreConf, globals, engine
  <2>2. /\ "data" \notin lost' => "data" \notin lost
        /\ fw.at \notin {"data", "noApn"}
    BY <1>2 DEF loc_cleanup, setPowerVote, loc_agps_set_server, loc_eng_set_server_proxy,
       loc_configuration_update, UPDATE_CONF, restoreConf, Enter
  <2> QED
    BY <1>k, <2>1, <2>2
<1>3. CASE requestPowerVote \/ lockAgain
  <2>1. Passes("data") /\ adapter' = adapter /\ agpsStatus' = agpsStatus /\ reinit' = reinit
    BY <1>3, Passing DEF requestPowerVote, lockAgain, globals, engine
  <2>2. /\ "data" \notin lost' => "data" \notin lost
        /\ fw.at \notin {"data", "noApn"}
    BY <1>3 DEF requestPowerVote, lockAgain, setLock, SentNow
  <2> QED
    BY <1>k, <2>1, <2>2
<1>4. CASE loc_agps_init
  <2>1. Passes("data") /\ adapter' = adapter /\ agpsStatus' = agpsStatus /\ reinit' = reinit
    BY <1>4, Passing DEF loc_agps_init, globals
  <2>2. /\ "data" \notin lost' => "data" \notin lost
        /\ fw.at \notin {"data", "noApn"}
    BY <1>4, ServerMessage DEF loc_agps_init, Enter
  <2> QED
    BY <1>k, <2>1, <2>2
<1>5. CASE loc_eng_set_server
  <2>1. Passes("data") /\ adapter' = adapter /\ agpsStatus' = agpsStatus /\ reinit' = reinit
    BY <1>5, Passing DEF loc_eng_set_server, globals, engine
  <2>2. /\ "data" \notin lost' => "data" \notin lost
        /\ fw.at \notin {"data", "noApn"}
    BY <1>5, ServerMessage DEF loc_eng_set_server
  <2> QED
    BY <1>k, <2>1, <2>2
<1>6. CASE sendSuplVer
  <2>1. Passes("data") /\ adapter' = adapter /\ agpsStatus' = agpsStatus /\ reinit' = reinit
    BY <1>6, Passing DEF sendSuplVer, globals, engine
  <2>2. /\ "data" \notin lost' => "data" \notin lost
        /\ fw.at \notin {"data", "noApn"}
    BY <1>6 DEF sendSuplVer, sendNow, SentNow
  <2> QED
    BY <1>k, <2>1, <2>2
<1>7. CASE update_network_availability
  <2>1. adapter' => fw'.at \in {"data", "noApn"}
    BY <1>7 DEF update_network_availability, engine, At
  <2> QED
    BY <2>1 DEF DataSent
<1>8. CASE noApn
  BY <1>8 DEF noApn, DataSent
<1>9. CASE sendData
  <2>1. sendNow("data", agpsStatus) /\ agpsStatus' = agpsStatus /\ reinit' = reinit
    BY <1>9 DEF sendData, Calling, globals
  <2>2. "data" \notin lost' => OnItsWay(mQ', reinit', modem'.has, "data", agpsStatus)
    BY <1>m, <1>v, <2>1, NowSent
  <2> QED
    BY <2>1, <2>2 DEF DataSent
<1>10. CASE LocEngSetServerUrl \/ LocEngEnableData \/ LocEngSuplVer \/ LocEngGpsLock
            \/ procConstellation \/ procSetCapabilities
  <2>1. Takes("data") /\ Head(mQ).name \notin {"Init", "Up"}
    BY <1>10, Taking
  <2>2. adapter' = adapter /\ agpsStatus' = agpsStatus /\ fw' = fw /\ reinit' = reinit
        /\ ("data" \notin lost' => "data" \notin lost)
    BY <1>10 DEF LocEngSetServerUrl, LocEngEnableData, LocEngSuplVer, LocEngGpsLock, procSetting,
       procConstellation, procSetCapabilities, globals, engine
  <2> QED
    BY <1>t, <2>1, <2>2
<1>11. CASE procInit
  BY <1>11 DEF procInit, DataSent
<1>12. CASE loc_eng_reinit
  <2>0. adapter' = adapter /\ agpsStatus' = agpsStatus /\ fw' = fw
    BY <1>12 DEF loc_eng_reinit, globals, engine
  <2>1. CASE reinit.at = "constellation"
    <3>1. reinit'.at = "ver"
      BY <1>12, <1>r, <2>1 DEF loc_eng_reinit, Read
    <3> QED
      BY <3>1 DEF DataSent
  <2>2. CASE reinit.at = "ver"
    <3>1. reinit'.at = "data" /\ reinit'.value = agpsStatus
      BY <1>12, <1>r, <2>2 DEF loc_eng_reinit, Read
    <3> QED
      BY <2>0, <3>1 DEF DataSent, OnItsWay
  <2>3. CASE reinit.at = "data"
    <3>1. /\ mQ' = Append(mQ, Msg("data", reinit.value)) /\ modem' = modem /\ lost' = lost
          /\ reinit'.at # "data"
      BY <1>12, <1>r, <2>3 DEF loc_eng_reinit
    <3>2. Arranged(mQ', modem'.has, "data", reinit.value)
      BY <1>v, <1>m, <3>1, ValueSent
    <3>3. Again({"Init", "Up"}) => Again({"Init", "Up"})'
      <4>1. Coming({"Init", "Up"})' <=> Coming({"Init", "Up"}) \/ "data" \in {"Init", "Up"}
        BY <1>v, <1>m, <3>1, StartSent
      <4> QED
        BY <3>1, <4>1 DEF Again
    <3>4. OnItsWay(mQ, reinit, modem.has, "data", agpsStatus) => reinit.value = agpsStatus
      BY <2>3 DEF OnItsWay
    <3> QED
      BY <2>0, <2>3, <3>1, <3>2, <3>3, <3>4 DEF DataSent, OnItsWay
  <2>4. CASE reinit.at = "lock"
    <3>1. /\ mQ' = Append(mQ, Msg("SetCapabilities", "")) /\ Has("lock", "MO") /\ lost' = lost
          /\ reinit' = Running
      BY <1>12, <2>4 DEF loc_eng_reinit
    <3>2. \E m \in Messages : m.name # "data" /\ mQ' = Append(mQ, m)
      BY <1>v, <3>1, OtherMessage
    <3>3. modem'.up = modem.up /\ modem'.has["data"] = modem.has["data"]
      BY <3>1, OthersHad
    <3>4. Passes("data")
      BY <2>4, <3>1, <3>2, <3>3 DEF Passes, Running
    <3> QED
      BY <1>k, <2>0, <2>4, <3>1, <3>4
  <2> QED
    BY <1>12, <2>1, <2>2, <2>3, <2>4 DEF loc_eng_reinit
<1>13. CASE voteAgain
  <2>1. Passes("data") /\ adapter' = adapter /\ agpsStatus' = agpsStatus /\ fw' = fw
    BY <1>13, Passing DEF voteAgain, globals, engine
  <2>2. "data" \notin lost' => "data" \notin lost
    BY <1>13 DEF voteAgain, Read
  <2>3. reinit.at \notin {"constellation", "ver"}
    BY <1>13 DEF voteAgain
  <2> QED
    BY <1>k, <2>1, <2>2, <2>3
<1>14. CASE loc_eng_agps_reinit
  <2>1. Passes("data") /\ adapter' = adapter /\ agpsStatus' = agpsStatus /\ fw' = fw
    BY <1>14, Passing DEF loc_eng_agps_reinit, globals, engine
  <2>2. "data" \notin lost' => "data" \notin lost
    BY <1>14 DEF loc_eng_agps_reinit, Read
  <2>3. reinit.at \notin {"constellation", "ver"}
    BY <1>14 DEF loc_eng_agps_reinit
  <2> QED
    BY <1>k, <2>1, <2>2, <2>3
<1>15. CASE crash
  BY <1>15 DEF crash, DataSent, Again
<1>16. CASE recover
  <2>1. CASE adapter
    <3>1. mQ' = Append(mQ, Msg("Up", ""))
      BY <1>16, <2>1 DEF recover
    <3>2. Coming({"Init", "Up"})' <=> Coming({"Init", "Up"}) \/ "Up" \in {"Init", "Up"}
      BY <1>v, <1>m, <3>1, StartSent, ZenonT(60)
    <3> QED
      BY <3>2 DEF DataSent, Again
  <2>2. CASE ~adapter
    BY <1>16, <2>2 DEF recover, engine, DataSent
  <2> QED
    BY <2>1, <2>2
<1>17. CASE UNCHANGED vars
  BY <1>17 DEF vars, DataSent, Again, Coming, OnItsWay, Arranged
<1> QED
  BY <1>1, <1>2, <1>3, <1>4, <1>5, <1>6, <1>7, <1>8, <1>9, <1>10, <1>11, <1>12, <1>13, <1>14,
     <1>15, <1>16, <1>17 DEF Next, Framework, Task

(* The version, step by step. *)
LEMMA VersionInv == Types /\ Calling /\ VersionSent /\ [Next]_vars => VersionSent'
<1> SUFFICES ASSUME Types, Calling, VersionSent, [Next]_vars PROVE VersionSent'
  OBVIOUS
<1>r. reinit \in [at : Places, value : Values, up : BOOLEAN]
  BY DEF Types
<1>v. /\ agpsStatus \in Values /\ conf.SUPL_VER \in Values /\ reinit.value \in Values
      /\ "" \in Values /\ mQ \in Seq(Messages)
  BY Sorts
<1>m. \A n \in {"Init", "Up", "data", "ver", "constellation", "SetCapabilities"}, v \in Values :
        Msg(n, v) \in Messages /\ Msg(n, v).name = n
  BY DEF Msg, Messages
<1>q. mQ \in Seq(Messages)
  BY Sorts
<1>k. ASSUME Passes("ver"), adapter' => adapter, conf'.SUPL_VER = conf.SUPL_VER,
             "ver" \notin lost' => "ver" \notin lost,
             fw'.at # "ver" => fw.at # "ver",
             reinit.at = "constellation" => reinit'.at = "constellation"
      PROVE  VersionSent'
  <2>1. /\ Again({"Init", "Up"}) => Again({"Init", "Up"})'
        /\ OnItsWay(mQ, reinit, modem.has, "ver", conf.SUPL_VER) =>
             OnItsWay(mQ', reinit', modem'.has, "ver", conf.SUPL_VER)
    BY <1>k, PassesKeep
  <2> QED
    BY <1>k, <2>1 DEF VersionSent
<1>t. ASSUME Takes("ver"), Head(mQ).name \notin {"Init", "Up"}, adapter' = adapter,
             conf'.SUPL_VER = conf.SUPL_VER, "ver" \notin lost' => "ver" \notin lost, fw' = fw,
             reinit' = reinit
      PROVE  VersionSent'
  <2>1. /\ Again({"Init", "Up"}) => Again({"Init", "Up"})'
        /\ modem.up /\ OnItsWay(mQ, reinit, modem.has, "ver", conf.SUPL_VER) =>
             OnItsWay(mQ', reinit', modem'.has, "ver", conf.SUPL_VER)
    BY <1>t, TakesKeep
  <2>2. modem.up \/ Again({"Init", "Up"})
    BY DEF Again
  <2> QED
    BY <1>t, <2>1, <2>2 DEF VersionSent
<1>1. CASE loc_init
  <2>1. CASE adapter
    <3>1. Passes("ver") /\ reinit' = reinit
      BY <1>1, <2>1, Passing DEF loc_init
    <3>2. conf'.SUPL_VER = conf.SUPL_VER /\ ("ver" \notin lost' => "ver" \notin lost)
      BY <1>1 DEF loc_init, setLock, globals
    <3>3. fw.at = "idle"
      BY <1>1 DEF loc_init, Enter
    <3> QED
      BY <1>k, <2>1, <3>1, <3>2, <3>3
  <2>2. CASE ~adapter
    <3>1. mQ' = Append(Append(mQ, Msg("Init", "")), Msg("lock", "none"))
      BY <1>1, <2>2 DEF loc_init
    <3>2. Msg("Init", "") \in Messages /\ Msg("Init", "").name \in {"Init", "Up"}
          /\ Msg("lock", "none") \in Messages
      BY DEF Msg, Messages, Values
    <3>3. Holds(mQ', Named({"Init", "Up"}))
      BY <1>q, <3>1, <3>2, TwoSent
    <3> QED
      BY <3>3 DEF VersionSent, Again, Coming
  <2> QED
    BY <2>1, <2>2
<1>2. CASE loc_cleanup \/ setPowerVote \/ loc_agps_set_server \/ loc_configuration_update
           \/ update_network_availability \/ noApn
  <2>1. Passes("ver") /\ adapter' = adapter /\ conf'.SUPL_VER = conf.SUPL_VER /\ reinit' = reinit
    BY <1>2, Passing DEF loc_cleanup, setPowerVote, loc_agps_set_server, loc_eng_set_server_proxy,
       loc_configuration_update, update_network_availability, noApn, globals, engine
  <2>2. /\ "ver" \notin lost' => "ver" \notin lost
        /\ fw.at # "ver"
    BY <1>2 DEF loc_cleanup, setPowerVote, loc_agps_set_server, loc_eng_set_server_proxy,
       loc_configuration_update, update_network_availability, noApn, Enter
  <2> QED
    BY <1>k, <2>1, <2>2
<1>3. CASE requestPowerVote \/ lockAgain
  <2>1. Passes("ver") /\ adapter' = adapter /\ conf'.SUPL_VER = conf.SUPL_VER /\ reinit' = reinit
    BY <1>3, Passing DEF requestPowerVote, lockAgain, globals, engine
  <2>2. /\ "ver" \notin lost' => "ver" \notin lost
        /\ fw.at # "ver"
    BY <1>3 DEF requestPowerVote, lockAgain, setLock, SentNow
  <2> QED
    BY <1>k, <2>1, <2>2
<1>4. CASE loc_agps_init
  <2>1. Passes("ver") /\ adapter' = adapter /\ conf'.SUPL_VER = conf.SUPL_VER /\ reinit' = reinit
    BY <1>4, Passing DEF loc_agps_init, globals
  <2>2. /\ "ver" \notin lost' => "ver" \notin lost
        /\ fw.at # "ver"
    BY <1>4, ServerMessage DEF loc_agps_init, Enter
  <2> QED
    BY <1>k, <2>1, <2>2
<1>5. CASE loc_eng_set_server
  <2>1. Passes("ver") /\ adapter' = adapter /\ conf'.SUPL_VER = conf.SUPL_VER /\ reinit' = reinit
    BY <1>5, Passing DEF loc_eng_set_server, globals, engine
  <2>2. /\ "ver" \notin lost' => "ver" \notin lost
        /\ fw.at # "ver"
    BY <1>5, ServerMessage DEF loc_eng_set_server
  <2> QED
    BY <1>k, <2>1, <2>2
<1>6. CASE sendData
  <2>1. Passes("ver") /\ adapter' = adapter /\ conf'.SUPL_VER = conf.SUPL_VER /\ reinit' = reinit
    BY <1>6, Passing DEF sendData, globals, engine
  <2>2. /\ "ver" \notin lost' => "ver" \notin lost
        /\ fw.at # "ver"
    BY <1>6 DEF sendData, sendNow, SentNow
  <2> QED
    BY <1>k, <2>1, <2>2
<1>7. CASE UPDATE_CONF
  <2>1. Passes("ver") /\ adapter' = adapter /\ reinit' = reinit /\ fw.at # "ver" /\ lost' = lost
    BY <1>7, Passing DEF UPDATE_CONF, engine
  <2>2. conf'.SUPL_VER = conf.SUPL_VER \/ (adapter' => fw'.at = "ver")
    BY <1>7 DEF UPDATE_CONF, Calling, At, engine
  <2>3. CASE conf'.SUPL_VER = conf.SUPL_VER
    BY <1>k, <2>1, <2>3
  <2>4. CASE adapter' => fw'.at = "ver"
    BY <2>4 DEF VersionSent
  <2> QED
    BY <2>2, <2>3, <2>4
<1>8. CASE restoreConf
  <2>1. Passes("ver") /\ adapter' = adapter /\ reinit' = reinit /\ fw.at # "ver" /\ lost' = lost
    BY <1>8, Passing DEF restoreConf, engine
  <2>2. conf'.SUPL_VER = conf.SUPL_VER
    BY <1>8 DEF restoreConf, Calling, Confs
  <2> QED
    BY <1>k, <2>1, <2>2
<1>9. CASE sendSuplVer
  <2>1. sendNow("ver", conf.SUPL_VER) /\ conf'.SUPL_VER = conf.SUPL_VER /\ reinit' = reinit
    BY <1>9 DEF sendSuplVer, globals
  <2>2. "ver" \notin lost' => OnItsWay(mQ', reinit', modem'.has, "ver", conf.SUPL_VER)
    BY <1>m, <1>v, <2>1, NowSent
  <2> QED
    BY <2>1, <2>2 DEF VersionSent
<1>10. CASE LocEngSetServerUrl \/ LocEngEnableData \/ LocEngSuplVer \/ LocEngGpsLock
            \/ procSetCapabilities
  <2>1. Takes("ver") /\ Head(mQ).name \notin {"Init", "Up"}
    BY <1>10, Taking
  <2>2. adapter' = adapter /\ conf'.SUPL_VER = conf.SUPL_VER /\ fw' = fw /\ reinit' = reinit
        /\ ("ver" \notin lost' => "ver" \notin lost)
    BY <1>10 DEF LocEngSetServerUrl, LocEngEnableData, LocEngSuplVer, LocEngGpsLock, procSetting,
       procSetCapabilities, globals, engine
  <2> QED
    BY <1>t, <2>1, <2>2
<1>18. CASE procConstellation
  <2>1. Takes("ver") /\ Head(mQ).name \notin {"Init", "Up"}
    BY <1>18, Taking
  <2>2. conf'.SUPL_VER = conf.SUPL_VER
    BY <1>18 DEF procConstellation, Types, Confs
  <2>3. adapter' = adapter /\ lost' = lost /\ fw' = fw /\ reinit' = reinit
    BY <1>18 DEF procConstellation, engine
  <2> QED
    BY <1>t, <2>1, <2>2, <2>3
<1>11. CASE procInit
  BY <1>11 DEF procInit, VersionSent
<1>12. CASE loc_eng_reinit
  <2>0. adapter' = adapter /\ conf'.SUPL_VER = conf.SUPL_VER /\ fw' = fw
    BY <1>12 DEF loc_eng_reinit, globals, engine
  <2>1. CASE reinit.at = "constellation"
    <3>1. reinit'.at = "ver" /\ reinit'.value = conf.SUPL_VER
      BY <1>12, <1>r, <2>1 DEF loc_eng_reinit, Read
    <3> QED
      BY <2>0, <3>1 DEF VersionSent, OnItsWay
  <2>2. CASE reinit.at = "ver"
    <3>1. /\ mQ' = Append(mQ, Msg("ver", reinit.value)) /\ modem' = modem
          /\ Read("data", agpsStatus)
      BY <1>12, <2>2 DEF loc_eng_reinit
    <3>a. reinit'.at # "ver" /\ ("ver" \notin lost' => "ver" \notin lost)
      BY <1>r, <3>1 DEF Read
    <3>2. Arranged(mQ', modem'.has, "ver", reinit.value)
      BY <1>q, <1>v, <1>m, <3>1, ValueSent
    <3>3. Again({"Init", "Up"}) => Again({"Init", "Up"})'
      <4>1. Coming({"Init", "Up"})' <=> Coming({"Init", "Up"}) \/ "ver" \in {"Init", "Up"}
        BY <1>v, <1>m, <3>1, StartSent
      <4> QED
        BY <3>1, <4>1 DEF Again
    <3>4. OnItsWay(mQ, reinit, modem.has, "ver", conf.SUPL_VER) => reinit.value = conf.SUPL_VER
      BY <2>2 DEF OnItsWay
    <3> QED
      BY <2>0, <2>2, <3>a, <3>2, <3>3, <3>4 DEF VersionSent, OnItsWay
  <2>3. CASE reinit.at = "data"
    <3>1. /\ mQ' = Append(mQ, Msg("data", reinit.value)) /\ modem' = modem /\ lost' = lost
          /\ reinit'.at # "ver"
      BY <1>12, <1>r, <2>3 DEF loc_eng_reinit
    <3>2. \E m \in Messages : m.name # "ver" /\ mQ' = Append(mQ, m)
      BY <1>v, <3>1, OtherMessage
    <3>3. Passes("ver")
      BY <2>3, <3>1, <3>2 DEF Passes
    <3> QED
      BY <1>k, <2>0, <2>3, <3>1, <3>3
  <2>4. CASE reinit.at = "lock"
    <3>1. /\ mQ' = Append(mQ, Msg("SetCapabilities", "")) /\ Has("lock", "MO") /\ lost' = lost
          /\ reinit' = Running
      BY <1>12, <2>4 DEF loc_eng_reinit
    <3>2. \E m \in Messages : m.name # "ver" /\ mQ' = Append(mQ, m)
      BY <1>v, <3>1, OtherMessage
    <3>3. modem'.up = modem.up /\ modem'.has["ver"] = modem.has["ver"]
      BY <3>1, OthersHad
    <3>4. Passes("ver")
      BY <2>4, <3>1, <3>2, <3>3 DEF Passes, Running
    <3> QED
      BY <1>k, <2>0, <2>4, <3>1, <3>4
  <2> QED
    BY <1>12, <2>1, <2>2, <2>3, <2>4 DEF loc_eng_reinit
<1>13. CASE voteAgain
  <2>1. Passes("ver") /\ adapter' = adapter /\ conf'.SUPL_VER = conf.SUPL_VER /\ fw' = fw
    BY <1>13, Passing DEF voteAgain, globals, engine
  <2>2. "ver" \notin lost' => "ver" \notin lost
    BY <1>13 DEF voteAgain, Read
  <2>3. reinit.at # "constellation"
    BY <1>13 DEF voteAgain
  <2> QED
    BY <1>k, <2>1, <2>2, <2>3
<1>14. CASE loc_eng_agps_reinit
  <2>1. Passes("ver") /\ adapter' = adapter /\ conf'.SUPL_VER = conf.SUPL_VER /\ fw' = fw
    BY <1>14, Passing DEF loc_eng_agps_reinit, globals, engine
  <2>2. "ver" \notin lost' => "ver" \notin lost
    BY <1>14 DEF loc_eng_agps_reinit, Read
  <2>3. reinit.at # "constellation"
    BY <1>14 DEF loc_eng_agps_reinit
  <2> QED
    BY <1>k, <2>1, <2>2, <2>3
<1>15. CASE crash
  BY <1>15 DEF crash, VersionSent, Again
<1>16. CASE recover
  <2>1. CASE adapter
    <3>1. mQ' = Append(mQ, Msg("Up", ""))
      BY <1>16, <2>1 DEF recover
    <3>2. Coming({"Init", "Up"})' <=> Coming({"Init", "Up"}) \/ "Up" \in {"Init", "Up"}
      BY <1>v, <1>m, <3>1, StartSent
    <3> QED
      BY <3>2 DEF VersionSent, Again
  <2>2. CASE ~adapter
    BY <1>16, <2>2 DEF recover, engine, VersionSent
  <2> QED
    BY <2>1, <2>2
<1>17. CASE UNCHANGED vars
  BY <1>17 DEF vars, VersionSent, Again, Coming, OnItsWay, Arranged
<1> QED
  BY <1>1, <1>2, <1>3, <1>4, <1>5, <1>6, <1>7, <1>8, <1>9, <1>10, <1>11, <1>12, <1>13, <1>14,
     <1>15, <1>16, <1>17, <1>18 DEF Next, Framework, Task

(* The server, step by step. *)
LEMMA ServerInv == Types /\ Calling /\ ServerSent /\ [Next]_vars => ServerSent'
<1> SUFFICES ASSUME Types, Calling, ServerSent, [Next]_vars PROVE ServerSent'
  OBVIOUS
<1>r. reinit \in [at : Places, value : Values, up : BOOLEAN]
  BY DEF Types
<1>v. /\ agpsStatus \in Values /\ conf.SUPL_VER \in Values /\ reinit.value \in Values
      /\ "" \in Values /\ host \in Values /\ mQ \in Seq(Messages)
      /\ \A h \in Hosts : h \in Values
  BY Sorts DEF Values
<1>m. \A n \in {"Up", "server"}, v \in Values :
        Msg(n, v) \in Messages /\ Msg(n, v).name = n
  BY DEF Msg, Messages
<1>q. mQ \in Seq(Messages)
  BY Sorts
<1>k. ASSUME Passes("server"), adapter' => adapter, host' = host,
             "server" \notin lost' => "server" \notin lost,
             fw'.at # "server" => fw.at # "server",
             Early => Early'
      PROVE  ServerSent'
  <2>1. /\ Again({"Up"}) => Again({"Up"})'
        /\ OnItsWay(mQ, reinit, modem.has, "server", host) =>
             OnItsWay(mQ', reinit', modem'.has, "server", host)
    BY <1>k, PassesKeep
  <2> QED
    BY <1>k, <2>1 DEF ServerSent
<1>t. ASSUME Takes("server"), Head(mQ).name \notin {"Up"}, adapter' = adapter,
             host' = host, "server" \notin lost' => "server" \notin lost, fw' = fw,
             Early => Early'
      PROVE  ServerSent'
  <2>1. /\ Again({"Up"}) => Again({"Up"})'
        /\ modem.up /\ OnItsWay(mQ, reinit, modem.has, "server", host) =>
             OnItsWay(mQ', reinit', modem'.has, "server", host)
    BY <1>t, TakesKeep
  <2>2. modem.up \/ Again({"Up"})
    BY DEF Again
  <2> QED
    BY <1>t, <2>1, <2>2 DEF ServerSent
<1>1. CASE loc_init
  <2>1. CASE adapter
    <3>1. Passes("server") /\ reinit' = reinit
      BY <1>1, <2>1, Passing DEF loc_init
    <3>2. host' = host /\ ("server" \notin lost' => "server" \notin lost)
      BY <1>1, <2>1 DEF loc_init, setLock, engine
    <3>3. fw.at = "idle"
      BY <1>1 DEF loc_init, Enter
    <3> QED
      BY <1>k, <2>1, <3>1, <3>2, <3>3 DEF Early
  <2>2. CASE ~adapter
    BY <1>1, <2>2 DEF loc_init, Cleared, ServerSent
  <2> QED
    BY <2>1, <2>2
<1>2. CASE loc_cleanup \/ setPowerVote \/ loc_configuration_update
           \/ update_network_availability \/ noApn \/ UPDATE_CONF \/ restoreConf
  <2>1. Passes("server") /\ adapter' = adapter /\ host' = host /\ reinit' = reinit
    BY <1>2, Passing DEF loc_cleanup, setPowerVote, UPDATE_CONF, restoreConf,
       loc_configuration_update, update_network_availability, noApn, engine
  <2>2. /\ "server" \notin lost' => "server" \notin lost
        /\ fw.at # "server"
    BY <1>2 DEF loc_cleanup, setPowerVote, UPDATE_CONF, restoreConf,
       loc_configuration_update, update_network_availability, noApn, Enter
  <2> QED
    BY <1>k, <2>1, <2>2 DEF Early
<1>3. CASE requestPowerVote \/ lockAgain
  <2>1. Passes("server") /\ adapter' = adapter /\ host' = host /\ reinit' = reinit
    BY <1>3, Passing DEF requestPowerVote, lockAgain, engine
  <2>2. /\ "server" \notin lost' => "server" \notin lost
        /\ fw.at # "server"
    BY <1>3 DEF requestPowerVote, lockAgain, setLock, SentNow
  <2> QED
    BY <1>k, <2>1, <2>2 DEF Early
<1>4. CASE loc_agps_init
  <2>1. host' = host /\ reinit' = reinit /\ adapter' = adapter /\ modem' = modem /\ fw' = fw
    BY <1>4 DEF loc_agps_init
  <2>2. CASE setServer(host)
    <3>1. "server" \notin lost' => OnItsWay(mQ', reinit', modem'.has, "server", host)
      BY <1>m, <1>v, <2>1, <2>2, NowSent, ServerMessage
    <3> QED
      BY <2>1, <3>1 DEF ServerSent
  <2>3. CASE UNCHANGED <<mQ, lost>>
    <3>1. Passes("server")
      BY <2>1, <2>3 DEF Passes
    <3> QED
      BY <1>k, <2>1, <2>3, <3>1 DEF Early
  <2> QED
    BY <1>4, <2>2, <2>3 DEF loc_agps_init
<1>5. CASE loc_agps_set_server
  BY <1>5 DEF loc_agps_set_server, loc_eng_set_server_proxy, At, ServerSent
<1>6. CASE sendData
  <2>1. Passes("server") /\ adapter' = adapter /\ host' = host /\ reinit' = reinit
    BY <1>6, Passing DEF sendData, engine
  <2>2. /\ "server" \notin lost' => "server" \notin lost
        /\ fw.at # "server"
    BY <1>6 DEF sendData, sendNow, SentNow
  <2> QED
    BY <1>k, <2>1, <2>2 DEF Early
<1>7. CASE sendSuplVer
  <2>1. Passes("server") /\ adapter' = adapter /\ host' = host /\ reinit' = reinit
    BY <1>7, Passing DEF sendSuplVer, engine
  <2>2. /\ "server" \notin lost' => "server" \notin lost
        /\ fw.at # "server"
    BY <1>7 DEF sendSuplVer, sendNow, SentNow
  <2> QED
    BY <1>k, <2>1, <2>2 DEF Early
<1>8. CASE loc_eng_set_server
  <2>1. adapter' = adapter /\ host' = host /\ reinit' = reinit
        /\ (adapter => setServer(fw.value)) /\ fw.value \in Values
    BY <1>8, <1>v DEF loc_eng_set_server, Calling, engine
  <2>2. adapter /\ "server" \notin lost' => fw.value = host /\ sendNow("server", host)
    BY <2>1, ServerMessage
  <2>3. adapter /\ "server" \notin lost' => OnItsWay(mQ', reinit', modem'.has, "server", host)
    BY <1>m, <1>v, <2>1, <2>2, NowSent
  <2> QED
    BY <2>1, <2>3 DEF ServerSent
<1>9. CASE LocEngSetServerUrl \/ LocEngEnableData \/ LocEngSuplVer \/ LocEngGpsLock
           \/ procConstellation \/ procSetCapabilities
  <2>1. Takes("server") /\ Head(mQ).name \notin {"Up"}
    BY <1>9, Taking
  <2>2. adapter' = adapter /\ host' = host /\ fw' = fw /\ reinit' = reinit
        /\ ("server" \notin lost' => "server" \notin lost)
    BY <1>9 DEF LocEngSetServerUrl, LocEngEnableData, LocEngSuplVer, LocEngGpsLock, procSetting,
       procConstellation, procSetCapabilities, engine
  <2> QED
    BY <1>t, <2>1, <2>2 DEF Early
<1>10. CASE procInit
  <2>1. Takes("server") /\ Head(mQ).name \in {"Init", "Up"}
    BY <1>10, Taking
  <2>2. /\ adapter' = adapter /\ host' = host /\ lost' = lost /\ fw' = fw
        /\ reinit'.at = "constellation" /\ reinit'.up = (Head(mQ).name = "Up")
        /\ reinit.at = "idle"
    BY <1>10 DEF procInit, engine
  <2>3. CASE Head(mQ).name = "Up"
    BY <2>2, <2>3 DEF ServerSent, Early
  <2>4. CASE Head(mQ).name = "Init"
    <3>1. Head(mQ).name \notin {"Up"} /\ (Early => Early')
      BY <2>2, <2>4 DEF Early
    <3> QED
      BY <1>t, <2>1, <2>2, <3>1
  <2> QED
    BY <2>1, <2>3, <2>4
<1>11. CASE loc_eng_reinit
  <2>0. adapter' = adapter /\ host' = host /\ fw' = fw
    BY <1>11 DEF loc_eng_reinit, engine
  <2>1. "server" \notin lost' => "server" \notin lost
    BY <1>11 DEF loc_eng_reinit, Read
  <2>2. /\ reinit.at \in {"constellation", "ver", "data", "lock"}
        /\ reinit'.at \in {"ver", "data", "vote", "lock", "idle"}
        /\ Early => Early'
    <3>1. CASE reinit.at = "constellation"
      BY <1>11, <1>r, <3>1 DEF loc_eng_reinit, Read, Early
    <3>2. CASE reinit.at = "ver"
      BY <1>11, <1>r, <3>2 DEF loc_eng_reinit, Read, Early
    <3>3. CASE reinit.at = "data"
      BY <1>11, <1>r, <3>3 DEF loc_eng_reinit, Early
    <3>4. CASE reinit.at = "lock"
      <4>1. reinit' = Running
        BY <1>11, <3>4 DEF loc_eng_reinit
      <4>2. ~Early
        BY <3>4 DEF Early
      <4> QED
        BY <3>4, <4>1, <4>2 DEF Running
    <3> QED
      BY <1>11, <3>1, <3>2, <3>3, <3>4 DEF loc_eng_reinit
  <2>3. modem' = modem \/ Has("lock", "MO")
    BY <1>11 DEF loc_eng_reinit
  <2>4. modem'.up = modem.up /\ modem'.has["server"] = modem.has["server"]
    BY <2>3, OthersHad
  <2>5. \E n \in {"constellation", "ver", "data", "SetCapabilities"}, v \in Values :
          mQ' = Append(mQ, Msg(n, v))
    BY <1>11, <1>v DEF loc_eng_reinit
  <2>6. \E m \in Messages : m.name # "server" /\ mQ' = Append(mQ, m)
    BY <2>5, OtherMessage
  <2>7. Passes("server")
    BY <2>2, <2>4, <2>6 DEF Passes
  <2> QED
    BY <1>k, <2>0, <2>1, <2>2, <2>7
<1>12. CASE voteAgain
  <2>1. Passes("server") /\ adapter' = adapter /\ host' = host /\ fw' = fw
    BY <1>12, Passing DEF voteAgain, engine
  <2>2. "server" \notin lost' => "server" \notin lost
    BY <1>12 DEF voteAgain, Read
  <2>3. Early => Early'
    BY <1>12, <1>r DEF voteAgain, Read, Early
  <2> QED
    BY <1>k, <2>1, <2>2, <2>3
<1>13. CASE loc_eng_agps_reinit
  <2>0. adapter' = adapter /\ host' = host /\ fw' = fw /\ modem' = modem
    BY <1>13 DEF loc_eng_agps_reinit, engine
  <2>1. CASE reinit.at = "agps" /\ ~(agps /\ host # "unset")
    BY <1>13, <2>0, <2>1 DEF loc_eng_agps_reinit, ServerSent
  <2>2. CASE reinit.at = "agps" /\ agps /\ host # "unset"
    <3>1. reinit'.at = "server" /\ reinit'.value = host
      BY <1>13, <1>r, <2>2 DEF loc_eng_agps_reinit, Read
    <3> QED
      BY <2>0, <3>1 DEF ServerSent, OnItsWay
  <2>3. CASE reinit.at = "server"
    <3>1. \/ "server" \in lost'
          \/ mQ' = Append(mQ, Msg("server", reinit.value)) /\ lost' = lost /\ reinit' = Running
      BY <1>13, <2>3 DEF loc_eng_agps_reinit
    <3>5. CASE "server" \in lost'
      BY <3>5 DEF ServerSent
    <3> SUFFICES ASSUME /\ mQ' = Append(mQ, Msg("server", reinit.value)) /\ lost' = lost
                        /\ reinit' = Running
                 PROVE  ServerSent'
      BY <3>1, <3>5
    <3>2. Arranged(mQ', modem'.has, "server", reinit.value)
      BY <1>q, <1>v, <1>m, ValueSent
    <3>3. Again({"Up"}) => Again({"Up"})'
      <4>1. Coming({"Up"})' <=> Coming({"Up"}) \/ "server" \in {"Up"}
        BY <1>v, <1>m, StartSent
      <4> QED
        BY <2>0, <4>1 DEF Again
    <3>4. OnItsWay(mQ, reinit, modem.has, "server", host) => reinit.value = host
      BY <2>3 DEF OnItsWay
    <3> QED
      BY <2>0, <2>3, <3>2, <3>3, <3>4 DEF ServerSent, OnItsWay, Running, Early
  <2> QED
    BY <1>13, <2>1, <2>2, <2>3 DEF loc_eng_agps_reinit
<1>14. CASE crash
  BY <1>14 DEF crash, ServerSent, Again
<1>15. CASE recover
  <2>1. CASE adapter
    <3>1. mQ' = Append(mQ, Msg("Up", ""))
      BY <1>15, <2>1 DEF recover
    <3>2. Coming({"Up"})' <=> Coming({"Up"}) \/ "Up" \in {"Up"}
      BY <1>v, <1>m, <3>1, StartSent
    <3> QED
      BY <3>2 DEF ServerSent, Again
  <2>2. CASE ~adapter
    BY <1>15, <2>2 DEF recover, engine, ServerSent
  <2> QED
    BY <2>1, <2>2
<1>16. CASE UNCHANGED vars
  BY <1>16 DEF vars, ServerSent, Early, Again, Coming, OnItsWay, Arranged
<1> QED
  BY <1>1, <1>2, <1>3, <1>4, <1>5, <1>6, <1>7, <1>8, <1>9, <1>10, <1>11, <1>12, <1>13, <1>14,
     <1>15, <1>16 DEF Next, Framework, Task

(* The vote, step by step: it is no message, so that the queue matters     *)
(* only for the start of the engine.                                       *)
LEMMA VoteInv == Types /\ Calling /\ VoteSent /\ [Next]_vars => VoteSent'
<1> SUFFICES ASSUME Types, Calling, VoteSent, [Next]_vars PROVE VoteSent'
  OBVIOUS
<1>r. reinit \in [at : Places, value : Values, up : BOOLEAN]
  BY DEF Types
<1>v. /\ agpsStatus \in Values /\ conf.SUPL_VER \in Values /\ reinit.value \in Values
      /\ "" \in Values /\ host \in Values /\ \A h \in Hosts : h \in Values
  BY Sorts DEF Values
<1>m. Msg("Up", "") \in Messages /\ Msg("Up", "").name = "Up"
  BY DEF Msg, Messages, Values
<1>q. mQ \in Seq(Messages)
  BY Sorts
<1>g. PowerVoteRight' = PowerVoteRight
  BY DEF Next, Framework, Task, vars, others, PowerVoteRight, loc_init, loc_cleanup, setPowerVote,
     requestPowerVote, lockAgain, loc_agps_init, loc_agps_set_server, loc_eng_set_server_proxy,
     update_network_availability, noApn, loc_configuration_update, UPDATE_CONF, restoreConf,
     loc_eng_set_server, sendData, sendSuplVer, LocEngSetServerUrl, LocEngEnableData,
     LocEngSuplVer, LocEngGpsLock, procSetting, procConstellation, procSetCapabilities, procInit,
     loc_eng_reinit, voteAgain, loc_eng_agps_reinit, crash, recover
<1>a. ASSUME modem'.up = modem.up,
             mQ' = mQ \/ \E m \in Messages : mQ' = Append(mQ, m)
      PROVE  Again({"Up"}) => Again({"Up"})'
  <2>1. ASSUME NEW m \in Messages, mQ' = Append(mQ, m) PROVE Coming({"Up"}) => Coming({"Up"})'
    BY <2>1, StartSent
  <2>2. CASE mQ' = mQ
    BY <1>a, <2>2 DEF Again, Coming
  <2> QED
    BY <1>a, <2>1, <2>2 DEF Again
<1>k. ASSUME adapter' => adapter, mPowerVote' = mPowerVote, reinit' = reinit, modem' = modem,
             "power" \notin lost' => "power" \notin lost,
             fw'.at \notin {"vote", "ask"} => fw.at \notin {"vote", "ask"},
             mQ' = mQ \/ \E m \in Messages : mQ' = Append(mQ, m)
      PROVE  VoteSent'
  <2>1. Again({"Up"}) => Again({"Up"})'
    BY <1>k, <1>a
  <2> QED
    BY <1>k, <1>g, <2>1 DEF VoteSent
<1>t. ASSUME mQ # <<>>, mQ' = Tail(mQ), Head(mQ).name # "Up", modem'.up = modem.up,
             modem'.has.power = modem.has.power, adapter' = adapter, mPowerVote' = mPowerVote,
             "power" \notin lost' => "power" \notin lost, fw' = fw, reinit.at = "idle",
             reinit'.at \in {"idle", "constellation"}
      PROVE  VoteSent'
  <2>1. Head(mQ) \in Messages
    BY <1>q, <1>t
  <2>2. Holds(mQ, Named({"Up"})) <=> Holds(mQ', Named({"Up"})) \/ Head(mQ) \in Named({"Up"})
    BY <1>q, <1>t, TakeHolds
  <2>3. Again({"Up"}) => Again({"Up"})'
    BY <1>t, <2>1, <2>2, Kinds DEF Again, Coming
  <2> QED
    BY <1>t, <1>g, <2>3 DEF VoteSent
<1>1. CASE loc_init \/ loc_cleanup
  <2>1. fw' = At("vote", "on") \/ fw' = At("vote", "off")
    BY <1>1 DEF loc_init, loc_cleanup
  <2>2. fw'.at = "vote"
    BY <2>1 DEF At
  <2> QED
    BY <2>2 DEF VoteSent
<1>2. CASE setPowerVote
  BY <1>2 DEF setPowerVote, At, VoteSent
<1>3. CASE requestPowerVote
  <2>1. adapter' = adapter /\ mPowerVote' = mPowerVote /\ reinit' = reinit
        /\ fw.value = mPowerVote
    BY <1>3 DEF requestPowerVote, engine, globals, Calling
  <2>2. PowerVoteRight => Has("power", mPowerVote) /\ SentNow("power", mPowerVote)
    BY <1>3, <2>1 DEF requestPowerVote
  <2>3. PowerVoteRight => /\ modem'.up = modem.up
                          /\ modem.up => modem'.has["power"] = mPowerVote
    BY <2>2, OthersHad
  <2>4. PowerVoteRight /\ "power" \notin lost' /\ reinit.at = "power" => reinit.value = mPowerVote
    BY <2>2 DEF SentNow
  <2> QED
    BY <1>g, <2>1, <2>3, <2>4 DEF VoteSent, Again
<1>4. CASE loc_agps_init
  <2>1. mQ' = mQ \/ mQ' = Append(mQ, Msg("server", host))
    BY <1>4, ServerMessage DEF loc_agps_init
  <2>2. mQ' = mQ \/ \E m \in Messages : mQ' = Append(mQ, m)
    BY <1>v, <2>1 DEF Msg, Messages
  <2>3. "power" \notin lost' => "power" \notin lost
    BY <1>4, ServerMessage DEF loc_agps_init
  <2>4. adapter' = adapter /\ mPowerVote' = mPowerVote /\ reinit' = reinit /\ modem' = modem
        /\ fw' = fw
    BY <1>4 DEF loc_agps_init, globals
  <2> QED
    BY <1>k, <2>2, <2>3, <2>4
<1>16. CASE lockAgain
  <2>1. mQ' = Append(mQ, Msg("lock", "conf")) /\ Msg("lock", "conf") \in Messages
    BY <1>16 DEF lockAgain, Msg, Messages, Values
  <2>2. /\ adapter' = adapter /\ mPowerVote' = mPowerVote /\ reinit' = reinit /\ modem' = modem
        /\ "power" \notin lost' => "power" \notin lost
        /\ fw.at \notin {"vote", "ask"}
    BY <1>16 DEF lockAgain, setLock, globals, engine
  <2> QED
    BY <1>k, <2>1, <2>2
<1>5. CASE loc_agps_set_server \/ update_network_availability \/ noApn
           \/ loc_configuration_update \/ UPDATE_CONF \/ restoreConf
  <2>1. /\ adapter' = adapter /\ mPowerVote' = mPowerVote /\ reinit' = reinit /\ modem' = modem
        /\ mQ' = mQ
    BY <1>5 DEF loc_agps_set_server, loc_eng_set_server_proxy, update_network_availability, noApn,
       loc_configuration_update, UPDATE_CONF, restoreConf, globals, engine
  <2>2. /\ "power" \notin lost' => "power" \notin lost
        /\ fw.at \notin {"vote", "ask"}
    BY <1>5 DEF loc_agps_set_server, loc_eng_set_server_proxy, update_network_availability, noApn,
       loc_configuration_update, UPDATE_CONF, restoreConf, Enter
  <2> QED
    BY <1>k, <2>1, <2>2
<1>6. CASE loc_eng_set_server \/ sendData \/ sendSuplVer
  <2>1. /\ adapter' = adapter /\ mPowerVote' = mPowerVote /\ reinit' = reinit /\ modem' = modem
        /\ fw.at \notin {"vote", "ask"}
    BY <1>6 DEF loc_eng_set_server, sendData, sendSuplVer, globals, engine
  <2>2. "power" \notin lost' => "power" \notin lost
    BY <1>6, ServerMessage DEF loc_eng_set_server, sendData, sendSuplVer, sendNow, SentNow
  <2>3. \/ mQ' = mQ \/ \E h \in Hosts : mQ' = Append(mQ, Msg("server", h))
        \/ mQ' = Append(mQ, Msg("data", agpsStatus)) \/ mQ' = Append(mQ, Msg("ver", conf.SUPL_VER))
    BY <1>6, ServerMessage DEF loc_eng_set_server, sendData, sendSuplVer, sendNow, Calling
  <2>4. mQ' = mQ \/ \E m \in Messages : mQ' = Append(mQ, m)
    BY <1>v, <2>3 DEF Msg, Messages
  <2> QED
    BY <1>k, <2>1, <2>2, <2>4
<1>7. ASSUME NEW n \in {"server", "data", "ver", "lock"}, procSetting(n) PROVE VoteSent'
  <2>1. modem'.up = modem.up /\ modem'.has["power"] = modem.has["power"]
    <3>1. Has(n, Head(mQ).value)
      BY <1>7 DEF procSetting
    <3> QED
      BY <3>1, OthersHad
  <2> QED
    BY <1>7, <1>t, <2>1 DEF procSetting, globals, engine
<1>8. CASE procConstellation \/ procSetCapabilities
  BY <1>8, <1>t DEF procConstellation, procSetCapabilities, globals, engine
<1>9. CASE procInit
  <2>1. CASE Head(mQ).name = "Up"
    BY <1>9, <2>1 DEF procInit, VoteSent
  <2>2. CASE Head(mQ).name # "Up"
    BY <1>9, <1>t, <2>2 DEF procInit, globals, engine
  <2> QED
    BY <2>1, <2>2
<1>10. CASE loc_eng_reinit
  <2>0. adapter' = adapter /\ mPowerVote' = mPowerVote /\ fw' = fw
    BY <1>10 DEF loc_eng_reinit, globals, engine
  <2>1. "power" \notin lost' => "power" \notin lost
    BY <1>10 DEF loc_eng_reinit, Read
  <2>2. modem' = modem \/ Has("lock", "MO")
    BY <1>10 DEF loc_eng_reinit
  <2>3. modem'.up = modem.up /\ modem'.has["power"] = modem.has["power"]
    BY <2>2, OthersHad
  <2>4. \E n \in {"constellation", "ver", "data", "SetCapabilities"}, v \in Values :
          mQ' = Append(mQ, Msg(n, v))
    BY <1>10, <1>v DEF loc_eng_reinit
  <2>5. \E m \in Messages : mQ' = Append(mQ, m)
    BY <2>4 DEF Msg, Messages
  <2>6. Again({"Up"}) => Again({"Up"})'
    BY <1>a, <2>3, <2>5
  <2>7. CASE reinit.at = "constellation"
    BY <1>10, <1>r, <1>g, <2>0, <2>1, <2>3, <2>6, <2>7 DEF loc_eng_reinit, Read, VoteSent
  <2>8. CASE reinit.at = "ver"
    BY <1>10, <1>r, <1>g, <2>0, <2>1, <2>3, <2>6, <2>8 DEF loc_eng_reinit, Read, VoteSent
  <2>9. CASE reinit.at = "data"
    BY <1>10, <1>r, <1>g, <2>0, <2>1, <2>3, <2>6, <2>9 DEF loc_eng_reinit, VoteSent
  <2>10. CASE reinit.at = "lock"
    <3>1. reinit' = Running
      BY <1>10, <2>10 DEF loc_eng_reinit
    <3> QED
      BY <1>g, <2>0, <2>1, <2>3, <2>6, <2>10, <3>1 DEF Running, VoteSent
  <2> QED
    BY <1>10, <2>7, <2>8, <2>9, <2>10 DEF loc_eng_reinit
<1>11. CASE voteAgain
  <2>0. adapter' = adapter /\ mPowerVote' = mPowerVote /\ fw' = fw /\ mQ' = mQ
    BY <1>11 DEF voteAgain, globals, engine
  <2>1. CASE reinit.at = "vote" /\ PowerVoteRight
    <3>1. reinit'.at = "power" /\ reinit'.value = mPowerVote
      BY <1>11, <1>r, <2>1 DEF voteAgain, Read
    <3> QED
      BY <2>0, <3>1 DEF VoteSent
  <2>2. CASE ~PowerVoteRight
    BY <1>g, <2>2 DEF VoteSent
  <2>3. CASE reinit.at = "power"
    <3>1. Has("power", reinit.value) /\ lost' = lost /\ reinit'.at = "agps"
      BY <1>11, <1>r, <2>3 DEF voteAgain
    <3>2. modem'.up = modem.up /\ (modem.up => modem'.has["power"] = reinit.value)
      BY <3>1, OthersHad
    <3>3. Again({"Up"}) => Again({"Up"})'
      BY <1>a, <2>0, <3>2
    <3>4. ~modem.up => Again({"Up"})
      BY DEF Again
    <3> QED
      BY <1>g, <2>0, <2>3, <3>1, <3>2, <3>3, <3>4 DEF VoteSent
  <2> QED
    BY <1>11, <2>1, <2>2, <2>3 DEF voteAgain
<1>12. CASE loc_eng_agps_reinit
  <2>1. /\ adapter' = adapter /\ mPowerVote' = mPowerVote /\ fw' = fw /\ modem' = modem
        /\ "power" \notin lost' => "power" \notin lost
    BY <1>12 DEF loc_eng_agps_reinit, Read, globals, engine
  <2>2. mQ' = mQ \/ mQ' = Append(mQ, Msg("server", reinit.value))
    BY <1>12 DEF loc_eng_agps_reinit
  <2>3. mQ' = mQ \/ \E m \in Messages : mQ' = Append(mQ, m)
    BY <1>v, <2>2 DEF Msg, Messages
  <2>4. reinit.at \in {"agps", "server"} /\ (reinit' = Running \/ Read("server", host))
    BY <1>12 DEF loc_eng_agps_reinit
  <2>5. reinit'.at \in {"idle", "server"}
    <3>1. CASE reinit' = Running
      BY <3>1 DEF Running
    <3>2. CASE Read("server", host)
      BY <1>r, <3>2 DEF Read
    <3> QED
      BY <2>4, <3>1, <3>2
  <2>6. Again({"Up"}) => Again({"Up"})'
    BY <1>a, <2>1, <2>3
  <2> QED
    BY <1>g, <2>1, <2>4, <2>5, <2>6 DEF VoteSent
<1>13. CASE crash
  BY <1>13 DEF crash, VoteSent, Again
<1>14. CASE recover
  <2>1. CASE adapter
    <3>1. mQ' = Append(mQ, Msg("Up", ""))
      BY <1>14, <2>1 DEF recover
    <3>2. Coming({"Up"})' <=> Coming({"Up"}) \/ "Up" \in {"Up"}
      BY <1>m, <3>1, StartSent
    <3> QED
      BY <3>2 DEF VoteSent, Again
  <2>2. CASE ~adapter
    BY <1>14, <2>2 DEF recover, engine, VoteSent
  <2> QED
    BY <2>1, <2>2
<1>15. CASE UNCHANGED vars
  BY <1>15, <1>k DEF vars
<1> QED
  BY <1>1, <1>2, <1>3, <1>4, <1>5, <1>6, <1>7, <1>8, <1>9, <1>10, <1>11, <1>12, <1>13, <1>14,
     <1>15, <1>16 DEF Next, Framework, Task, LocEngSetServerUrl, LocEngEnableData, LocEngSuplVer,
     LocEngGpsLock

(* The lock, step by step. *)
LEMMA LockInv == Types /\ Calling /\ LockSent /\ [Next]_vars => LockSent'
<1> SUFFICES ASSUME Types, Calling, LockSent, [Next]_vars PROVE LockSent'
  OBVIOUS
<1>r. reinit \in [at : Places, value : Values, up : BOOLEAN]
  BY DEF Types
<1>v. /\ agpsStatus \in Values /\ conf.SUPL_VER \in Values /\ reinit.value \in Values
      /\ {"", "none", "conf", "MO"} \subseteq Values /\ host \in Values
      /\ \A h \in Hosts : h \in Values
  BY Sorts DEF Values
<1>m. \A n \in {"Init", "Up", "server", "data", "ver", "lock", "constellation",
                "SetCapabilities"}, v \in Values :
        Msg(n, v) \in Messages /\ Msg(n, v).name = n
  BY DEF Msg, Messages
<1>q. mQ \in Seq(Messages) /\ last \in [server : Values, lock : Values]
  BY DEF Types
<1>b. Before(mQ, Named({"Init"}), Named({"lock"}))
  BY DEF LockSent
<1>a. ASSUME modem'.has["lock"] = modem.has["lock"], last'.lock = last.lock,
             "lock" \notin lost' => "lock" \notin lost
      PROVE  "lock" \notin lost' => Arranged(mQ, modem'.has, "lock", last'.lock)
  BY <1>a DEF LockSent, Arranged
<1>k. ASSUME mQ' = mQ \/ \E m \in Messages : m.name \notin {"Init", "lock"} /\ mQ' = Append(mQ, m),
             "lock" \notin lost' => Arranged(mQ, modem'.has, "lock", last'.lock),
             \/ reinit' = reinit
             \/ reinit'.at = "idle"
             \/ /\ reinit.at # "idle" /\ reinit'.up = reinit.up
                /\ reinit'.at = "lock" => ~reinit.up
      PROVE  LockSent'
  <2>1. "lock" \notin lost' => Arranged(mQ', modem'.has, "lock", last'.lock)
    <3>1. mQ' = mQ \/ \E m \in Messages : m.name # "lock" /\ mQ' = Append(mQ, m)
      BY <1>k
    <3> QED
      BY <1>k, <1>q, <3>1, OtherSent
  <2>2. Before(mQ', Named({"Init"}), Named({"lock"})) /\ (Coming({"lock"}) => Coming({"lock"})')
    <3>1. CASE mQ' = mQ
      BY <1>b, <3>1 DEF Coming
    <3>2. ASSUME NEW m \in Messages, m.name \notin {"Init", "lock"}, mQ' = Append(mQ, m)
          PROVE  Before(mQ', Named({"Init"}), Named({"lock"})) /\ (Coming({"lock"}) => Coming({"lock"})')
      <4>1. m \notin Named({"Init"})
        BY <3>2, Kinds
      <4>2. Before(mQ', Named({"Init"}), Named({"lock"}))
        BY <1>q, <1>b, <3>2, <4>1, AppendBefore
      <4> QED
        BY <3>2, <4>2, StartSent
    <3> QED
      BY <1>k, <3>1, <3>2
  <2> QED
    BY <1>k, <2>1, <2>2 DEF LockSent
<1>s. ASSUME NEW p \in Seq(Messages), NEW v \in Values, mQ' = Append(p, Msg("lock", v)),
             last' = [last EXCEPT !.lock = v], reinit' = reinit
      PROVE  LockSent'
  <2>1. last'.lock = v
    BY <1>q, <1>s
  <2>2. Arranged(mQ', modem'.has, "lock", v)
    BY <1>m, <1>s, ValueSent
  <2>3. PICK m \in Messages : m = Msg("lock", v)
    BY <1>m
  <2>4. m \in Named({"lock"}) /\ m \notin Named({"Init"})
    BY <1>m, <2>3, Kinds
  <2>5. Before(mQ', Named({"Init"}), Named({"lock"}))
    BY <1>s, <2>3, <2>4, AppendBefore
  <2>6. Holds(mQ', Named({"lock"}))
    <3>1. mQ' = Append(p, m)
      BY <1>s, <2>3
    <3>2. Holds(mQ', Named({"lock"})) <=> Holds(p, Named({"lock"})) \/ m \in Named({"lock"})
      BY <3>1, AppendHolds
    <3> QED
      BY <2>4, <3>2
  <2> QED
    BY <1>s, <2>1, <2>2, <2>5, <2>6 DEF LockSent, Coming
<1>t. ASSUME mQ # <<>>, mQ' = Tail(mQ), reinit.at = "idle", last' = last,
             "lock" \notin lost' =>
               /\ "lock" \notin lost
               /\ IF Head(mQ).name = "lock" THEN modem'.has["lock"] = Head(mQ).value
                  ELSE modem'.has["lock"] = modem.has["lock"],
             reinit'.at # "lock",
             reinit'.at # "idle" /\ ~reinit'.up => Head(mQ).name = "Init"
      PROVE  LockSent'
  <2>1. "lock" \notin lost' => Arranged(mQ', modem'.has, "lock", last'.lock)
    BY <1>q, <1>t, ValueTaken DEF LockSent
  <2>2. Before(mQ', Named({"Init"}), Named({"lock"}))
        /\ (Head(mQ) \in Named({"Init"}) => Holds(mQ', Named({"lock"})))
    BY <1>q, <1>b, <1>t, TakeBefore
  <2>3. Head(mQ) \in Named({"Init"}) <=> Head(mQ).name = "Init"
    BY <1>q, <1>t, Kinds
  <2> QED
    BY <1>t, <2>1, <2>2, <2>3 DEF LockSent, Coming
<1>1. CASE loc_init
  <2>1. last' = [last EXCEPT !.lock = "none"] /\ reinit' = reinit
    BY <1>1 DEF loc_init, setLock
  <2>2. \E p \in Seq(Messages) : mQ' = Append(p, Msg("lock", "none"))
    <3>1. Append(mQ, Msg("Init", "")) \in Seq(Messages)
      <4>1. Msg("Init", "") \in Messages
        BY <1>m, <1>v
      <4>2. \A m \in Messages : Append(mQ, m) \in Seq(Messages)
        BY <1>q
      <4> QED
        BY <4>1, <4>2, Zenon
    <3>2. mQ' = Append(mQ, Msg("lock", "none"))
          \/ mQ' = Append(Append(mQ, Msg("Init", "")), Msg("lock", "none"))
      BY <1>1 DEF loc_init
    <3> QED
      BY <1>q, <3>1, <3>2
  <2> QED
    BY <1>s, <1>v, <2>1, <2>2
<1>2. CASE lockAgain
  BY <1>2, <1>s, <1>q, <1>v DEF lockAgain, setLock
<1>3. CASE loc_cleanup \/ setPowerVote \/ update_network_availability \/ noApn
           \/ loc_configuration_update \/ UPDATE_CONF \/ restoreConf \/ UNCHANGED vars
  <2>1. /\ mQ' = mQ /\ modem' = modem /\ last' = last /\ reinit' = reinit
        /\ "lock" \notin lost' => "lock" \notin lost
    BY <1>3 DEF loc_cleanup, setPowerVote, update_network_availability, noApn,
       loc_configuration_update, UPDATE_CONF, restoreConf, others, vars
  <2> QED
    BY <1>k, <1>a, <2>1
<1>4. CASE loc_agps_set_server
  <2>1. /\ mQ' = mQ /\ modem' = modem /\ reinit' = reinit /\ lost' = lost
        /\ \E h : last' = [last EXCEPT !.server = h]
    BY <1>4 DEF loc_agps_set_server, loc_eng_set_server_proxy
  <2>2. last'.lock = last.lock
    BY <1>q, <2>1
  <2> QED
    BY <1>k, <1>a, <2>1, <2>2
<1>5. CASE requestPowerVote
  <2>1. modem' = modem \/ Has("power", fw.value)
    BY <1>5 DEF requestPowerVote
  <2>2. modem'.has["lock"] = modem.has["lock"]
    BY <2>1, OthersHad
  <2>3. /\ mQ' = mQ /\ last' = last /\ reinit' = reinit
        /\ "lock" \notin lost' => "lock" \notin lost
    BY <1>5 DEF requestPowerVote, SentNow, others
  <2> QED
    BY <1>k, <1>a, <2>2, <2>3
<1>6. CASE loc_agps_init \/ loc_eng_set_server \/ sendData \/ sendSuplVer
  <2>1. /\ modem' = modem /\ last' = last /\ reinit' = reinit
        /\ "lock" \notin lost' => "lock" \notin lost
    BY <1>6, ServerMessage DEF loc_agps_init, loc_eng_set_server, sendData, sendSuplVer, sendNow,
       SentNow, others
  <2>2. \/ mQ' = mQ \/ mQ' = Append(mQ, Msg("server", host))
        \/ \E h \in Hosts : mQ' = Append(mQ, Msg("server", h))
        \/ mQ' = Append(mQ, Msg("data", agpsStatus)) \/ mQ' = Append(mQ, Msg("ver", conf.SUPL_VER))
    BY <1>6, ServerMessage DEF loc_agps_init, loc_eng_set_server, sendData, sendSuplVer, sendNow,
       Calling
  <2>3. mQ' = mQ \/ \E m \in Messages : m.name \notin {"Init", "lock"} /\ mQ' = Append(mQ, m)
    BY <1>m, <1>v, <2>2
  <2> QED
    BY <1>k, <1>a, <2>1, <2>3
<1>7. ASSUME NEW n \in {"server", "data", "ver", "lock"}, procSetting(n) PROVE LockSent'
  <2>1. /\ mQ # <<>> /\ mQ' = Tail(mQ) /\ reinit.at = "idle" /\ last' = last /\ reinit' = reinit
        /\ Has(n, Head(mQ).value) /\ Head(mQ).name = n
        /\ "lock" \notin lost' => "lock" \notin lost /\ (n = "lock" => modem.up)
    BY <1>7 DEF procSetting, others
  <2>2. IF n = "lock" THEN modem.up => modem'.has["lock"] = Head(mQ).value
        ELSE modem'.has["lock"] = modem.has["lock"]
    BY <2>1, OthersHad
  <2> QED
    BY <1>t, <2>1, <2>2
<1>8. CASE procConstellation \/ procSetCapabilities
  BY <1>8, <1>t DEF procConstellation, procSetCapabilities, others
<1>9. CASE procInit
  <2>1. /\ mQ # <<>> /\ mQ' = Tail(mQ) /\ reinit.at = "idle" /\ last' = last /\ lost' = lost
        /\ modem' = modem /\ Head(mQ).name \in {"Init", "Up"}
        /\ reinit'.at = "constellation" /\ reinit'.up = (Head(mQ).name = "Up")
    BY <1>9 DEF procInit, others
  <2>2. Head(mQ).name # "lock"
    BY <2>1
  <2> QED
    BY <1>t, <2>1, <2>2
<1>10. CASE loc_eng_reinit
  <2>0. last' = last
    BY <1>10 DEF loc_eng_reinit, others
  <2>1. \E n \in {"constellation", "ver", "data", "SetCapabilities"}, v \in Values :
          mQ' = Append(mQ, Msg(n, v))
    BY <1>10, <1>v DEF loc_eng_reinit
  <2>2. \E m \in Messages : m.name \notin {"Init", "lock"} /\ mQ' = Append(mQ, m)
    BY <1>m, <2>1
  <2>3. CASE reinit.at = "lock"
    <3>1. reinit' = Running /\ lost' = lost
      BY <1>10, <2>3 DEF loc_eng_reinit
    <3>2. Holds(mQ, Named({"lock"}))
      BY <2>3 DEF LockSent, Coming
    <3>3. "lock" \notin lost' => Arranged(mQ, modem'.has, "lock", last'.lock)
      BY <2>0, <3>1, <3>2 DEF LockSent, Arranged
    <3>4. reinit'.at = "idle"
      BY <3>1 DEF Running
    <3> QED
      BY <1>k, <2>2, <3>3, <3>4
  <2>4. CASE reinit.at \in {"constellation", "ver", "data"}
    <3>1. /\ modem' = modem /\ ("lock" \notin lost' => "lock" \notin lost)
          /\ reinit'.up = reinit.up /\ (reinit'.at = "lock" => ~reinit.up)
      BY <1>10, <1>r, <2>4 DEF loc_eng_reinit, Read
    <3>2. "lock" \notin lost' => Arranged(mQ, modem'.has, "lock", last'.lock)
      BY <1>a, <2>0, <3>1
    <3> QED
      BY <1>k, <2>2, <2>4, <3>1, <3>2
  <2> QED
    BY <1>10, <2>3, <2>4 DEF loc_eng_reinit
<1>11. CASE voteAgain
  <2>1. modem' = modem \/ Has("power", reinit.value)
    BY <1>11 DEF voteAgain
  <2>2. modem'.has["lock"] = modem.has["lock"]
    BY <2>1, OthersHad
  <2>3. /\ mQ' = mQ /\ last' = last /\ ("lock" \notin lost' => "lock" \notin lost)
        /\ reinit.at # "idle" /\ reinit'.up = reinit.up /\ reinit'.at # "lock"
    BY <1>11, <1>r DEF voteAgain, Read, others
  <2> QED
    BY <1>k, <1>a, <2>2, <2>3
<1>12. CASE loc_eng_agps_reinit
  <2>1. /\ modem' = modem /\ last' = last /\ ("lock" \notin lost' => "lock" \notin lost)
        /\ reinit.at # "idle" /\ (reinit' = Running \/ Read("server", host))
        /\ mQ' = mQ \/ mQ' = Append(mQ, Msg("server", reinit.value))
    BY <1>12 DEF loc_eng_agps_reinit, Read, others
  <2>2. mQ' = mQ \/ \E m \in Messages : m.name \notin {"Init", "lock"} /\ mQ' = Append(mQ, m)
    BY <1>m, <1>v, <2>1
  <2>3. reinit'.at = "idle" \/ (reinit'.up = reinit.up /\ reinit'.at = "server")
    <3>1. CASE reinit' = Running
      BY <3>1 DEF Running
    <3>2. CASE Read("server", host)
      BY <1>r, <3>2 DEF Read
    <3> QED
      BY <2>1, <3>1, <3>2
  <2> QED
    BY <1>k, <1>a, <2>1, <2>2, <2>3
<1>13. CASE crash
  <2>1. mQ' = mQ /\ reinit' = reinit /\ "lock" \in lost'
    BY <1>13 DEF crash
  <2> QED
    BY <1>k, <2>1
<1>14. CASE recover
  <2>1. /\ last' = last /\ reinit' = reinit /\ lost' = lost /\ modem'.has = modem.has
        /\ mQ' = mQ \/ mQ' = Append(mQ, Msg("Up", ""))
    BY <1>14 DEF recover, others, Types
  <2>2. mQ' = mQ \/ \E m \in Messages : m.name \notin {"Init", "lock"} /\ mQ' = Append(mQ, m)
    BY <1>m, <1>v, <2>1
  <2> QED
    BY <1>k, <1>a, <2>1, <2>2
<1> QED
  BY <1>1, <1>2, <1>3, <1>4, <1>5, <1>6, <1>7, <1>8, <1>9, <1>10, <1>11, <1>12, <1>13, <1>14
     DEF Next, Framework, Task, LocEngSetServerUrl, LocEngEnableData, LocEngSuplVer, LocEngGpsLock

(* The framework's call, step by step. *)
LEMMA CallingInv == Types /\ Calling /\ [Next]_vars => Calling'
<1> SUFFICES ASSUME Types, Calling, [Next]_vars PROVE Calling'
  OBVIOUS
<1>1. CASE loc_init \/ loc_cleanup
  <2>1. fw' = At("vote", "on") \/ fw' = At("vote", "off")
    BY <1>1 DEF loc_init, loc_cleanup
  <2> QED
    BY <2>1 DEF At, Calling
<1>2. CASE setPowerVote
  BY <1>2 DEF setPowerVote, At, Calling
<1>3. CASE requestPowerVote \/ lockAgain \/ noApn \/ restoreConf \/ loc_eng_set_server
           \/ sendData
  <2>1. fw' = Idle \/ fw' = At("lock", "")
    BY <1>3 DEF requestPowerVote, lockAgain, noApn, restoreConf, loc_eng_set_server, sendData
  <2>2. fw'.at \in {"idle", "lock"}
    <3>1. CASE fw' = Idle
      BY <3>1 DEF Idle, At
    <3>2. CASE fw' = At("lock", "")
      BY <3>2 DEF At
    <3> QED
      BY <2>1, <3>1, <3>2
  <2> QED
    BY <2>2 DEF Calling
<1>4. CASE loc_agps_set_server
  BY <1>4 DEF loc_agps_set_server, loc_eng_set_server_proxy, At, Calling
<1>5. CASE update_network_availability
  <2>1. \/ fw' = At("data", agpsStatus') \/ fw' = At("noApn", agpsStatus') \/ fw' = Idle
    BY <1>5 DEF update_network_availability
  <2>2. fw'.at \in {"data", "noApn", "idle"} /\ (fw'.at = "data" => fw'.value = agpsStatus')
    <3>1. CASE fw' = Idle
      BY <3>1 DEF Idle, At
    <3>2. CASE fw' = At("data", agpsStatus')
      BY <3>2 DEF At
    <3>3. CASE fw' = At("noApn", agpsStatus')
      BY <3>3 DEF At
    <3> QED
      BY <2>1, <3>1, <3>2, <3>3
  <2> QED
    BY <2>2 DEF Calling
<1>6. CASE loc_configuration_update
  <2>1. fw' = At("copied", conf) /\ conf' = conf /\ conf \in Confs
    BY <1>6 DEF loc_configuration_update, globals, Types
  <2> QED
    BY <2>1 DEF At, Calling
<1>7. CASE UPDATE_CONF
  <2>1. fw.value \in Confs /\ (fw' = At("ver", fw.value) \/ fw' = At("restore", fw.value))
    BY <1>7 DEF UPDATE_CONF, Calling
  <2> QED
    BY <2>1 DEF At, Calling
<1>8. CASE sendSuplVer
  <2>1. fw.value \in Confs /\ fw' = At("restore", fw.value)
    BY <1>8 DEF sendSuplVer, Calling
  <2> QED
    BY <2>1 DEF At, Calling
<1>9. CASE loc_agps_init \/ LocEngSetServerUrl \/ LocEngEnableData \/ LocEngSuplVer
           \/ LocEngGpsLock \/ procSetCapabilities \/ procInit \/ loc_eng_reinit
           \/ voteAgain \/ loc_eng_agps_reinit \/ crash \/ recover \/ UNCHANGED vars
  <2>1. fw' = fw /\ agpsStatus' = agpsStatus /\ conf' = conf /\ mPowerVote' = mPowerVote
    BY <1>9 DEF loc_agps_init, LocEngSetServerUrl, LocEngEnableData, LocEngSuplVer, LocEngGpsLock,
       procSetting, procSetCapabilities, procInit, loc_eng_reinit, voteAgain, loc_eng_agps_reinit,
       crash, recover, vars, globals
  <2> QED
    BY <2>1 DEF Calling
<1>10. CASE procConstellation
  <2>1. fw' = fw /\ agpsStatus' = agpsStatus /\ mPowerVote' = mPowerVote
        /\ conf'.SUPL_VER = conf.SUPL_VER
    BY <1>10 DEF procConstellation, Types, Confs
  <2> QED
    BY <2>1 DEF Calling
<1> QED
  BY <1>1, <1>2, <1>3, <1>4, <1>5, <1>6, <1>7, <1>8, <1>9, <1>10 DEF Next, Framework, Task

-----------------------------------------------------------------------------
(* Two messages that are not of V leave the order. *)
LEMMA TwoAfter ==
    ASSUME NEW q \in Seq(Messages), NEW a \in Messages, NEW b \in Messages, NEW r,
           r = Append(Append(q, a), b), a.name # "SetCapabilities", b.name # "SetCapabilities",
           After(q, Named({"SetCapabilities"}), Named({"constellation"}))
    PROVE  /\ After(r, Named({"SetCapabilities"}), Named({"constellation"}))
           /\ Holds(q, Named({"constellation"})) => Holds(r, Named({"constellation"}))
<1>0. Append(q, a) \in Seq(Messages)
  OBVIOUS
<1>1. PICK p : p \in Seq(Messages) /\ p = Append(q, a)
  BY <1>0, Zenon
<1>2. r = Append(p, b)
  BY <1>1
<1>3. a \notin Named({"SetCapabilities"}) /\ b \notin Named({"SetCapabilities"})
  BY Kinds
<1>4. After(p, Named({"SetCapabilities"}), Named({"constellation"}))
  BY <1>1, <1>3, AppendAfter
<1>5. After(r, Named({"SetCapabilities"}), Named({"constellation"}))
  BY <1>1, <1>2, <1>3, <1>4, AppendAfter
<1>6. Holds(q, Named({"constellation"})) => Holds(p, Named({"constellation"}))
  BY <1>1, AppendHolds
<1>7. Holds(p, Named({"constellation"})) => Holds(r, Named({"constellation"}))
  BY <1>1, <1>2, AppendHolds
<1> QED
  BY <1>5, <1>6, <1>7

(* The message that tells the capabilities comes behind the one that asks  *)
(* for them, until the modem has answered.                                 *)
LEMMA AskedFirst ==
    ASSUME Types, Answered, answer = "none", NEW m \in Messages, mQ' = Append(mQ, m),
           m.name = "SetCapabilities" => Coming({"constellation"})
    PROVE  /\ After(mQ', Named({"SetCapabilities"}), Named({"constellation"}))
           /\ Coming({"constellation"}) => Coming({"constellation"})'
<1>1. mQ \in Seq(Messages)
  BY DEF Types
<1>2. After(mQ, Named({"SetCapabilities"}), Named({"constellation"}))
  BY DEF Answered
<1>3. m \in Named({"SetCapabilities"}) <=> m.name = "SetCapabilities"
  BY Kinds
<1>4. Holds(mQ, Named({"constellation"})) <=> Coming({"constellation"})
  BY DEF Coming
<1>5. After(mQ', Named({"SetCapabilities"}), Named({"constellation"}))
  BY <1>1, <1>2, <1>3, <1>4, AppendAfter
<1> QED
  BY <1>5, StartSent

(* The capabilities, step by step. *)
LEMMA AnsweredInv == Types /\ Calling /\ Answered /\ [Next]_vars => Answered'
<1> SUFFICES ASSUME Types, Calling, Answered, [Next]_vars PROVE Answered'
  OBVIOUS
<1>r. reinit \in [at : Places, value : Values, up : BOOLEAN]
  BY DEF Types
<1>v. /\ agpsStatus \in Values /\ conf.SUPL_VER \in Values /\ reinit.value \in Values
      /\ "" \in Values /\ host \in Values /\ \A h \in Hosts : h \in Values
  BY Sorts DEF Values
<1>m. \A n \in {"Init", "Up", "server", "data", "ver", "lock", "constellation",
                "SetCapabilities"}, v \in Values :
        Msg(n, v) \in Messages /\ Msg(n, v).name = n
  BY DEF Msg, Messages
<1>q. mQ \in Seq(Messages)
  BY Sorts
<1>e. fw.at \in {"copied", "ver", "restore"} => "measure" \in lost
  BY DEF Answered
<1>k. ASSUME "measure" \notin lost' => "measure" \notin lost,
             "measure" \notin lost' => fw'.at \notin {"copied", "ver", "restore"},
             conf' = conf, answer' = answer,
             \/ answer # "none"
             \/ /\ \/ mQ' = mQ
                   \/ \E m \in Messages : m.name # "SetCapabilities" /\ mQ' = Append(mQ, m)
                /\ reinit'.at \in {"ver", "data", "lock"} => Coming({"constellation"})
      PROVE  Answered'
  <2>1. CASE answer # "none"
    BY <1>k, <2>1 DEF Answered
  <2>2. CASE answer = "none" /\ mQ' = mQ
    BY <1>k, <2>2 DEF Answered, Coming
  <2>3. ASSUME NEW m \in Messages, answer = "none", m.name # "SetCapabilities", mQ' = Append(mQ, m)
        PROVE  Answered'
    BY <1>k, <2>3, AskedFirst DEF Answered
  <2> QED
    BY <1>k, <2>1, <2>2, <2>3
<1>c. answer = "none" /\ reinit.at \in {"ver", "data", "lock"} => Coming({"constellation"})
  BY DEF Answered
<1>1. CASE loc_init
  <2>1. CASE adapter
    <3>1. mQ' = Append(mQ, Msg("lock", "none"))
      BY <1>1, <2>1 DEF loc_init
    <3>2. Msg("lock", "none") \in Messages /\ Msg("lock", "none").name = "lock"
      BY DEF Msg, Messages, Values
    <3>3. /\ "measure" \notin lost' => "measure" \notin lost
          /\ fw'.at = "vote" /\ conf' = conf /\ answer' = answer /\ reinit' = reinit
      BY <1>1 DEF loc_init, setLock, globals, At
    <3> QED
      BY <1>k, <1>c, <3>1, <3>2, <3>3
  <2>2. CASE ~adapter
    <3>1. mQ' = Append(Append(mQ, Msg("Init", "")), Msg("lock", "none"))
      BY <1>1, <2>2 DEF loc_init
    <3>2. /\ Msg("Init", "") \in Messages /\ Msg("Init", "").name = "Init"
          /\ Msg("lock", "none") \in Messages /\ Msg("lock", "none").name = "lock"
      BY DEF Msg, Messages, Values
    <3>3. /\ "measure" \notin lost' => "measure" \notin lost
          /\ fw'.at = "vote" /\ conf' = conf /\ answer' = answer /\ reinit' = reinit
      BY <1>1 DEF loc_init, setLock, globals, At
    <3>4. ASSUME answer = "none"
          PROVE  /\ After(mQ', Named({"SetCapabilities"}), Named({"constellation"}))
                 /\ Coming({"constellation"}) => Coming({"constellation"})'
      <4>1. After(mQ, Named({"SetCapabilities"}), Named({"constellation"}))
        BY <3>4 DEF Answered
      <4>2. PICK a, b : /\ a \in Messages /\ a.name # "SetCapabilities"
                        /\ b \in Messages /\ b.name # "SetCapabilities"
                        /\ mQ' = Append(Append(mQ, a), b)
        BY <3>1, <3>2
      <4> QED
        BY <1>q, <4>1, <4>2, TwoAfter DEF Coming
    <3> QED
      BY <1>c, <3>3, <3>4 DEF Answered
  <2> QED
    BY <2>1, <2>2
<1>2. CASE loc_cleanup \/ setPowerVote \/ loc_agps_set_server \/ update_network_availability
           \/ noApn \/ crash \/ UNCHANGED vars
  <2>1. /\ conf' = conf /\ answer' = answer /\ reinit' = reinit /\ mQ' = mQ
        /\ "measure" \notin lost' => "measure" \notin lost
    BY <1>2 DEF loc_cleanup, setPowerVote, loc_agps_set_server, loc_eng_set_server_proxy,
       update_network_availability, noApn, crash, vars, globals, others
  <2>2. fw'.at \notin {"copied", "ver", "restore"} \/ fw' = fw
    <3>1. CASE loc_cleanup \/ setPowerVote \/ loc_agps_set_server
      BY <3>1 DEF loc_cleanup, setPowerVote, loc_agps_set_server, loc_eng_set_server_proxy, At
    <3>2. CASE update_network_availability
      <4>1. \/ fw' = At("data", agpsStatus') \/ fw' = At("noApn", agpsStatus') \/ fw' = Idle
        BY <3>2 DEF update_network_availability
      <4>2. CASE fw' = Idle
        BY <4>2 DEF Idle, At
      <4>3. CASE fw' = At("data", agpsStatus')
        BY <4>3 DEF At
      <4>4. CASE fw' = At("noApn", agpsStatus')
        BY <4>4 DEF At
      <4> QED
        BY <4>1, <4>2, <4>3, <4>4
    <3>3. CASE noApn \/ crash \/ UNCHANGED vars
      <4>1. fw' = fw \/ fw' = Idle
        BY <3>3 DEF noApn, crash, vars
      <4>2. CASE fw' = Idle
        BY <4>2 DEF Idle, At
      <4> QED
        BY <4>1, <4>2
    <3> QED
      BY <1>2, <3>1, <3>2, <3>3
  <2> QED
    BY <1>k, <1>c, <1>e, <2>1, <2>2
<1>3. CASE requestPowerVote \/ lockAgain
  <2>1. /\ conf' = conf /\ answer' = answer /\ reinit' = reinit
        /\ fw' = Idle \/ fw' = At("lock", "")
        /\ mQ' = mQ \/ mQ' = Append(mQ, Msg("lock", "conf"))
    BY <1>3 DEF requestPowerVote, lockAgain, globals, others
  <2>2. "measure" \notin lost' => "measure" \notin lost
    BY <1>3 DEF requestPowerVote, lockAgain, setLock, SentNow
  <2>3. Msg("lock", "conf") \in Messages /\ Msg("lock", "conf").name = "lock"
    BY DEF Msg, Messages, Values
  <2>4. fw'.at \in {"idle", "lock"}
    <3>1. CASE fw' = Idle
      BY <3>1 DEF Idle, At
    <3>2. CASE fw' = At("lock", "")
      BY <3>2 DEF At
    <3> QED
      BY <2>1, <3>1, <3>2
  <2> QED
    BY <1>k, <1>c, <2>1, <2>2, <2>3, <2>4
<1>4. CASE loc_agps_init
  <2>1. /\ conf' = conf /\ answer' = answer /\ reinit' = reinit /\ fw' = fw
        /\ mQ' = mQ \/ mQ' = Append(mQ, Msg("server", host))
    BY <1>4, ServerMessage DEF loc_agps_init, globals, others
  <2>2. "measure" \notin lost' => "measure" \notin lost
    BY <1>4, ServerMessage DEF loc_agps_init
  <2> QED
    BY <1>k, <1>c, <1>e, <1>m, <1>v, <2>1, <2>2
<1>5. CASE loc_configuration_update \/ UPDATE_CONF \/ restoreConf
  <2>1. "measure" \in lost' /\ mQ' = mQ /\ reinit' = reinit /\ answer' = answer
    BY <1>5, <1>e DEF loc_configuration_update, UPDATE_CONF, restoreConf, others
  <2> QED
    BY <2>1 DEF Answered, Coming
<1>6. CASE loc_eng_set_server \/ sendData
  <2>1. /\ conf' = conf /\ answer' = answer /\ reinit' = reinit /\ fw' = Idle
        /\ mQ' = mQ \/ (\E h \in Hosts : mQ' = Append(mQ, Msg("server", h)))
             \/ mQ' = Append(mQ, Msg("data", agpsStatus))
    BY <1>6, ServerMessage DEF loc_eng_set_server, sendData, sendNow, Calling, globals, others
  <2>2. "measure" \notin lost' => "measure" \notin lost
    BY <1>6, ServerMessage DEF loc_eng_set_server, sendData, sendNow, SentNow
  <2>3. fw'.at = "idle"
    BY <2>1 DEF Idle, At
  <2>4. mQ' = mQ \/ \E m \in Messages : m.name # "SetCapabilities" /\ mQ' = Append(mQ, m)
    BY <1>m, <1>v, <2>1
  <2> QED
    BY <1>k, <1>c, <2>1, <2>2, <2>3, <2>4
<1>7. CASE sendSuplVer
  <2>1. /\ conf' = conf /\ answer' = answer /\ reinit' = reinit
        /\ mQ' = Append(mQ, Msg("ver", conf.SUPL_VER))
    BY <1>7 DEF sendSuplVer, sendNow, globals, others
  <2>2. "measure" \in lost'
    BY <1>7, <1>e DEF sendSuplVer, sendNow, SentNow
  <2>3. \E m \in Messages : m.name # "SetCapabilities" /\ mQ' = Append(mQ, m)
    BY <1>m, <1>v, <2>1
  <2> QED
    BY <1>k, <1>c, <2>1, <2>2, <2>3
<1>8. ASSUME NEW n \in {"server", "data", "ver", "lock", "Init", "Up"}, mQ # <<>>,
             Head(mQ).name = n, mQ' = Tail(mQ), reinit.at = "idle", conf' = conf,
             answer' = answer, fw' = fw, "measure" \notin lost' => "measure" \notin lost,
             reinit'.at \in {"idle", "constellation"}
      PROVE  Answered'
  <2>1. Head(mQ) \in Messages /\ Head(mQ) \notin Named({"constellation"})
    <3>1. Head(mQ) \in Messages
      BY <1>q, <1>8
    <3> QED
      BY <1>8, <3>1, Kinds
  <2>2. answer = "none" => After(mQ', Named({"SetCapabilities"}), Named({"constellation"}))
    BY <1>q, <1>8, <2>1, TakeAfter DEF Answered
  <2> QED
    BY <1>8, <2>2 DEF Answered
<1>9. ASSUME NEW n \in {"server", "data", "ver", "lock"}, procSetting(n) PROVE Answered'
  BY <1>8, <1>9 DEF procSetting, globals, others
<1>10. CASE procInit
  BY <1>8, <1>10 DEF procInit, globals, others
<1>11. CASE procConstellation
  <2>1. answer' \in {"yes", "no"} /\ (answer = "yes" => answer' = "yes") /\ fw' = fw /\ lost' = lost
    BY <1>11 DEF procConstellation, Answered
  <2>2. "measure" \notin lost => (conf'.measure <=> answer' = "yes")
    BY <1>11 DEF procConstellation, Types, Confs, Answered
  <2> QED
    BY <2>1, <2>2 DEF Answered
<1>12. CASE procSetCapabilities
  <2>1. answer # "none"
    <3>1. SUFFICES ASSUME answer = "none" PROVE FALSE
      OBVIOUS
    <3>2. Head(mQ) \notin Named({"SetCapabilities"})
      BY <1>12, <1>q, <3>1, TakeAfter DEF procSetCapabilities, Answered
    <3>3. Head(mQ) \in Messages /\ Head(mQ).name = "SetCapabilities"
      BY <1>12, <1>q DEF procSetCapabilities
    <3> QED
      BY <3>2, <3>3, Kinds
  <2> QED
    BY <1>12, <1>k, <1>e, <2>1 DEF procSetCapabilities, globals
<1>13. CASE loc_eng_reinit
  <2>0. /\ conf' = conf /\ answer' = answer /\ fw' = fw
        /\ "measure" \notin lost' => "measure" \notin lost
    BY <1>13 DEF loc_eng_reinit, Read, globals, others
  <2>1. CASE reinit.at = "constellation"
    <3>1. mQ' = Append(mQ, Msg("constellation", ""))
      BY <1>13, <2>1 DEF loc_eng_reinit
    <3>2. Coming({"constellation"})'
      <4>1. Coming({"constellation"})' <=>
              Coming({"constellation"}) \/ "constellation" \in {"constellation"}
        <5>1. Msg("constellation", "") \in Messages
              /\ Msg("constellation", "").name = "constellation"
          BY <1>m, <1>v
        <5> QED
          BY <3>1, <5>1, StartSent
      <4> QED
        BY <4>1
    <3>3. answer = "none" => After(mQ', Named({"SetCapabilities"}), Named({"constellation"}))
      BY <1>m, <1>v, <3>1, AskedFirst
    <3> QED
      BY <2>0, <3>2, <3>3 DEF Answered
  <2>2. CASE reinit.at \in {"ver", "data"}
    <3>1. mQ' = Append(mQ, Msg("ver", reinit.value)) \/ mQ' = Append(mQ, Msg("data", reinit.value))
      BY <1>13, <2>2 DEF loc_eng_reinit
    <3>2. \E m \in Messages : m.name # "SetCapabilities" /\ mQ' = Append(mQ, m)
      BY <1>m, <1>v, <3>1
    <3> QED
      BY <1>k, <1>c, <1>e, <2>0, <2>2, <3>2
  <2>3. CASE reinit.at = "lock"
    <3>1. mQ' = Append(mQ, Msg("SetCapabilities", "")) /\ reinit' = Running
      BY <1>13, <2>3 DEF loc_eng_reinit
    <3>2. answer = "none" => After(mQ', Named({"SetCapabilities"}), Named({"constellation"}))
      BY <1>m, <1>v, <1>c, <2>3, <3>1, AskedFirst
    <3>3. reinit'.at = "idle"
      BY <3>1 DEF Running
    <3> QED
      BY <2>0, <3>2, <3>3 DEF Answered
  <2> QED
    BY <1>13, <2>1, <2>2, <2>3 DEF loc_eng_reinit
<1>14. CASE voteAgain
  <2>1. /\ conf' = conf /\ answer' = answer /\ fw' = fw /\ mQ' = mQ
        /\ "measure" \notin lost' => "measure" \notin lost
    BY <1>14 DEF voteAgain, Read, globals, others
  <2>2. reinit'.at \in {"power", "agps"}
    BY <1>14, <1>r DEF voteAgain, Read
  <2> QED
    BY <1>k, <1>e, <2>1, <2>2
<1>15. CASE loc_eng_agps_reinit
  <2>1. /\ conf' = conf /\ answer' = answer /\ fw' = fw
        /\ "measure" \notin lost' => "measure" \notin lost
    BY <1>15 DEF loc_eng_agps_reinit, Read, globals, others
  <2>2. /\ reinit' = Running \/ Read("server", host)
        /\ mQ' = mQ \/ mQ' = Append(mQ, Msg("server", reinit.value))
    BY <1>15 DEF loc_eng_agps_reinit
  <2>3. mQ' = mQ \/ \E m \in Messages : m.name # "SetCapabilities" /\ mQ' = Append(mQ, m)
    BY <1>m, <1>v, <2>2
  <2>4. reinit'.at \in {"idle", "server"}
    <3>1. CASE reinit' = Running
      BY <3>1 DEF Running
    <3>2. CASE Read("server", host)
      BY <1>r, <3>2 DEF Read
    <3> QED
      BY <2>2, <3>1, <3>2
  <2> QED
    BY <1>k, <1>e, <2>1, <2>3, <2>4
<1>16. CASE recover
  <2>1. /\ conf' = conf /\ answer' = answer /\ fw' = fw /\ lost' = lost /\ reinit' = reinit
        /\ mQ' = mQ \/ mQ' = Append(mQ, Msg("Up", ""))
    BY <1>16 DEF recover, globals, others
  <2>2. mQ' = mQ \/ \E m \in Messages : m.name # "SetCapabilities" /\ mQ' = Append(mQ, m)
    BY <1>m, <1>v, <2>1
  <2> QED
    BY <1>k, <1>c, <1>e, <2>1, <2>2
<1> QED
  BY <1>1, <1>2, <1>3, <1>4, <1>5, <1>6, <1>7, <1>9, <1>10, <1>11, <1>12, <1>13, <1>14, <1>15,
     <1>16 DEF Next, Framework, Task, LocEngSetServerUrl, LocEngEnableData, LocEngSuplVer,
     LocEngGpsLock

-----------------------------------------------------------------------------
(* The first state. *)
LEMMA InitInv == Init => SettingsInv
<1> SUFFICES ASSUME Init PROVE SettingsInv
  OBVIOUS
<1>1. Types
  <2>1. modem = [up |-> TRUE, has |-> Forgotten] /\ Forgotten \in Settings
    BY DEF Init, Forgotten, Settings, Values
  <2>2. reinit \in [at : Places, value : Values, up : BOOLEAN]
    BY DEF Init, Running, Places, Values
  <2>3. mQ \in Seq(Messages)
    BY DEF Init
  <2>4. conf \in Confs
    BY DEF Init, Confs
  <2> QED
    <3>1. modem \in [up : BOOLEAN, has : Settings]
      BY <2>1
    <3>2. /\ adapter = FALSE /\ agps = FALSE /\ host = "unset" /\ agpsStatus = "off"
          /\ mPowerVote = "off" /\ last = [server |-> "unset", lock |-> "unset"]
      BY DEF Init
    <3>3. last \in [server : Values, lock : Values]
      BY <3>2 DEF Values
    <3> QED
      BY <2>2, <2>3, <2>4, <3>1, <3>2, <3>3 DEF Types
<1>2. fw.at = "idle"
  BY DEF Init, Idle, At
<1>3. Calling
  BY <1>2 DEF Calling
<1>4. DataSent /\ VersionSent /\ ServerSent /\ VoteSent
  BY DEF Init, DataSent, VersionSent, ServerSent, VoteSent
<1>5. Answered
  <2>1. mQ = <<>> /\ answer = "none" /\ conf.measure = FALSE /\ reinit.at = "idle"
    BY DEF Init, Running
  <2>2. After(mQ, Named({"SetCapabilities"}), Named({"constellation"}))
    BY <2>1 DEF After
  <2> QED
    BY <1>2, <2>1, <2>2 DEF Answered
<1>6. LockSent
  <2>1. mQ = <<>> /\ modem.has.lock = last.lock /\ reinit.at = "idle"
    BY DEF Init, Running, Forgotten
  <2>2. ~Holds(mQ, Named({"lock"})) /\ Before(mQ, Named({"Init"}), Named({"lock"}))
    BY <2>1 DEF Holds, Before
  <2> QED
    BY <2>1, <2>2 DEF LockSent, Arranged
<1> QED
  BY <1>1, <1>3, <1>4, <1>5, <1>6 DEF SettingsInv

(* What is settled in a state without messages is what the modem has. *)
LEMMA Arrived == SettingsInv => SettingsReachModem
<1> SUFFICES ASSUME SettingsInv, Quiet
             PROVE  /\ "data" \notin lost => modem.has.data = agpsStatus
                    /\ "ver" \notin lost => modem.has.ver = conf.SUPL_VER
                    /\ "server" \notin lost /\ agps /\ host # "unset" => modem.has.server = host
                    /\ "power" \notin lost /\ PowerVoteRight => modem.has.power = mPowerVote
                    /\ "lock" \notin lost => modem.has.lock = last.lock
  BY DEF SettingsReachModem
<1>1. adapter /\ fw.at = "idle" /\ mQ = <<>> /\ reinit.at = "idle" /\ modem.up
  BY DEF Quiet
<1>2. /\ \A W : ~Holds(mQ, W)
      /\ \A W, V : ~LastIn(mQ, W, V)
  BY <1>1 DEF Holds, LastIn
<1>3. \A names : ~Again(names)
  BY <1>1, <1>2 DEF Again, Coming
<1>4. \A name \in {"data", "ver", "server"} : \A v :
        OnItsWay(mQ, reinit, modem.has, name, v) => modem.has[name] = v
  BY <1>1, <1>2 DEF OnItsWay, Arranged
<1>5. ~Early
  BY <1>1 DEF Early
<1>6. "data" \notin lost => modem.has.data = agpsStatus
  BY <1>1, <1>3, <1>4 DEF SettingsInv, DataSent
<1>7. "ver" \notin lost => modem.has.ver = conf.SUPL_VER
  BY <1>1, <1>3, <1>4 DEF SettingsInv, VersionSent
<1>8. "server" \notin lost /\ agps /\ host # "unset" => modem.has.server = host
  BY <1>1, <1>3, <1>4, <1>5 DEF SettingsInv, ServerSent
<1>9. "power" \notin lost /\ PowerVoteRight => modem.has.power = mPowerVote
  BY <1>1, <1>3 DEF SettingsInv, VoteSent
<1>10. "lock" \notin lost => modem.has.lock = last.lock
  BY <1>2 DEF SettingsInv, LockSent, Arranged
<1> QED
  BY <1>6, <1>7, <1>8, <1>9, <1>10

(* The framework is told when a message that came behind the question is   *)
(* taken, and nothing but an update makes conf and the answer differ.      *)
LEMMA ToldAnswer ==
    SettingsInv /\ [Next]_vars =>
      (told' # told => answer # "none" /\ ("measure" \notin lost => told' = answer))
<1> SUFFICES ASSUME SettingsInv, [Next]_vars, told' # told
             PROVE  answer # "none" /\ ("measure" \notin lost => told' = answer)
  OBVIOUS
<1>1. procSetCapabilities
  BY DEF Next, Framework, Task, vars, others, loc_init, loc_cleanup, setPowerVote,
     requestPowerVote, lockAgain, setServer, loc_agps_init, loc_agps_set_server, loc_eng_set_server_proxy,
     update_network_availability, noApn, loc_configuration_update, UPDATE_CONF, restoreConf,
     loc_eng_set_server, sendData, sendSuplVer, LocEngSetServerUrl, LocEngEnableData,
     LocEngSuplVer, LocEngGpsLock, procSetting, procConstellation, procInit,
     loc_eng_reinit, voteAgain, loc_eng_agps_reinit, crash, recover
<1>2. Types /\ Answered /\ mQ \in Seq(Messages)
  BY DEF SettingsInv, Types
<1>3. answer # "none"
  <2>1. SUFFICES ASSUME answer = "none" PROVE FALSE
    OBVIOUS
  <2>2. mQ # <<>> /\ Head(mQ).name = "SetCapabilities" /\ mQ' = Tail(mQ)
    BY <1>1 DEF procSetCapabilities
  <2>3. After(mQ, Named({"SetCapabilities"}), Named({"constellation"}))
    BY <1>2, <2>1 DEF Answered
  <2>4. Head(mQ) \notin Named({"SetCapabilities"})
    BY <1>2, <2>2, <2>3, TakeAfter
  <2>5. Head(mQ) \in Messages
    BY <1>2, <2>2
  <2> QED
    BY <2>2, <2>4, <2>5, Kinds
<1>4. "measure" \notin lost => told' = answer
  BY <1>1, <1>2, <1>3 DEF procSetCapabilities, Answered
<1> QED
  BY <1>3, <1>4

-----------------------------------------------------------------------------
(* The settings' part of the HAL's behaviours. *)
LEMMA SettingsPart == HalSpec => Spec
<1>1. HalInit => Init
  BY DEF HalInit
<1>2. [HalNext]_halVars => [Next]_vars
  BY DEF HalNext, halVars
<1> QED
  BY <1>1, <1>2, PTL DEF HalSpec, Spec

(* The invariant of the settings: while the HAL is not quiet, the value    *)
(* that the framework set last is in a message, in the task's hand, or the *)
(* engine is going to be made or started again.                            *)
THEOREM SettingsInvariance == Spec => []SettingsInv
<1>1. Init => SettingsInv
  BY InitInv
<1>2. SettingsInv /\ [Next]_vars => SettingsInv'
  BY TypesInv, CallingInv, DataInv, VersionInv, ServerInv, VoteInv, LockInv, AnsweredInv
     DEF SettingsInv
<1> QED
  BY <1>1, <1>2, PTL DEF Spec

(* SettingsReachModem: for every set of servers and any number of calls    *)
(* and restarts, a quiet HAL's modem has what the framework set last, but  *)
(* for what loc.cpp and loc_eng.cpp lose themselves.                       *)
THEOREM ModemHasSettings == HalSpec => []SettingsReachModem
<1>1. Spec => []SettingsReachModem
  BY SettingsInvariance, Arrived, PTL
<1> QED
  BY <1>1, SettingsPart, PTL

(* CapabilitiesAnswered: set_capabilities_cb tells what the modem has      *)
(* answered, and not before it has (LocEngSetCapabilities::proc).          *)
THEOREM ToldWhenAnswered == HalSpec => CapabilitiesAnswered
<1>1. SettingsInv /\ [Next]_vars =>
        [told' # told => answer # "none" /\ ("measure" \notin lost => told' = answer)]_vars
  BY ToldAnswer
<1>2. Spec => [][told' # told => answer # "none" /\ ("measure" \notin lost => told' = answer)]_vars
  BY <1>1, SettingsInvariance, PTL DEF Spec
<1> QED
  BY <1>2, SettingsPart DEF CapabilitiesAnswered

-----------------------------------------------------------------------------
(* The adapters' types. *)
AskingType == [at : {"idle", "loop", "call", "undefined"}, i : Nat, mask : SUBSET Events]
RegisteredType == [up : BOOLEAN, mask : SUBSET Events, ended : BOOLEAN]
DeliveryType ==
    [kind : {"none", "report", "request"}, at : {"look", "call", "undefined"}, i : Nat,
     takers : SUBSET Adapters, heard : SUBSET Adapters, due : SUBSET Adapters,
     moved : SUBSET Adapters]

ApiTypes ==
    /\ mLocAdapters \in [Api!Slots -> Adapters \cup {NULL}]
    /\ mEvtMask \in [Adapters -> SUBSET Events]
    /\ client \in [at : {"idle", "fill", "tell"}, i : Nat]
    /\ client = Api!Idle <=> client.at = "idle"
    /\ opens \in Seq({"open", "ssr"})
    /\ asking \in AskingType /\ registered \in RegisteredType
    /\ delivery \in DeliveryType

(* No adapter is twice in the array, and no hole is in it, but for the one *)
(* that removeAdapter has made and not yet filled.                         *)
Packed ==
    /\ \A i, j \in Api!Slots : mLocAdapters[i] = mLocAdapters[j] /\ i # j => mLocAdapters[i] = NULL
    /\ \A i, j \in Api!Slots :
         i < j /\ mLocAdapters[i] = NULL /\ (client.at = "fill" => i # client.i) =>
           mLocAdapters[j] = NULL
    /\ client.at # "idle" => client.i \in Api!Slots
    /\ client.at = "fill" => /\ mLocAdapters[client.i] = NULL
                             /\ \A k \in Api!Slots : k < client.i => mLocAdapters[k] # NULL
    /\ client.at = "tell" /\ client.i = 1 => \A k \in Api!Slots : mLocAdapters[k] = NULL

(* The adapter in a slot wants the event. *)
Wants(k, e) == mLocAdapters[k] # NULL /\ e \in mEvtMask[mLocAdapters[k]]

(* A thread that is about to call an adapter is at a slot of the array. *)
Calls ==
    /\ asking.at = "call" => asking.i \in Api!Slots
    /\ delivery.at = "call" => delivery.i \in Api!Slots

(* The task has the masks of the adapters before the one it is at, or the *)
(* modem has them all, but for what is excluded.                           *)
Meeting ==
    /\ asking.at \in {"loop", "call"} =>
         /\ asking.i \in 1..(MAX_ADAPTERS + 1)
         /\ \A k \in Api!Slots : k < asking.i => mLocAdapters[k] # NULL
         /\ \A e : e \in asking.mask <=> \E k \in Api!Slots : k < asking.i /\ Wants(k, e)
    /\ asking.at = "call" => mLocAdapters[asking.i] # NULL
    /\ asking.at = "idle" /\ registered.up =>
         \A e : e \in registered.mask <=>
                 e \notin mExcludedMask /\ \E k \in Api!Slots : Wants(k, e)

(* They do unless a message is going to have the mask put together again. *)
Asked == Api!Present # {} /\ client.at = "idle" /\ opens = <<>> => Meeting

(* The adapter is not in a slot the delivery has passed. *)
Ahead(a) == \E k \in Api!Slots : delivery.i <= k /\ mLocAdapters[k] = a

(* The adapters of the beginning have heard, are still ahead, are gone, or *)
(* were moved; at most the last one called took a request.                 *)
Delivering ==
    /\ \E a : delivery.heard \cap delivery.takers \subseteq {a}
    /\ delivery.at = "call" => delivery.kind # "none" /\ delivery.heard \cap delivery.takers = {}
    /\ delivery.kind # "none" =>
        /\ delivery.i \in 1..(MAX_ADAPTERS + 1)
        /\ \A a \in delivery.due :
             a \in delivery.heard \cup removed \cup delivery.moved \/ Ahead(a)

(* The inductive invariant of the adapters. *)
AdaptersInv == ApiTypes /\ Calls /\ Packed /\ Asked /\ Delivering

-----------------------------------------------------------------------------
(* The slots of the array. *)
LEMMA SlotsAre ==
    /\ MAX_ADAPTERS \in Nat /\ 1 \in Api!Slots
    /\ \A i : i \in Api!Slots <=> i \in Nat /\ 1 <= i /\ i <= MAX_ADAPTERS
BY ArrayHasSlots DEF Api!Slots

(* A set of numbers that is not empty has a least one. *)
LEMMA LeastOf ==
    ASSUME NEW T \in SUBSET Nat, T # {}
    PROVE  \E m \in T : \A j \in T : m <= j
<1>1. \E m \in T : \A j \in T : ~(<<j, m>> \in OpToRel(<, Nat))
  BY NatLessThanWellFounded, WFMin
<1>2. \A j, m \in Nat : ~(<<j, m>> \in OpToRel(<, Nat)) => m <= j
  BY DEF OpToRel
<1> QED
  BY <1>1, <1>2

(* The slot that addAdapter takes is the first free one. *)
LEMMA FirstFree ==
    ASSUME NEW free \in SUBSET Api!Slots, free # {}
    PROVE  LET c == CHOOSE i \in free : \A j \in free : i <= j
           IN  c \in free /\ \A j \in free : c <= j
<1>1. \E i \in free : \A j \in free : i <= j
  BY LeastOf, SlotsAre
<1> QED
  BY <1>1

(* The pointer that fills the hole of removeAdapter is the last one: there *)
(* is none behind it.                                                      *)
LEMMA LastPointer ==
    ASSUME Packed, client.at = "fill"
    PROVE  LET i == Api!Last(client.i)
           IN  /\ i \in Api!Slots /\ client.i <= i
               /\ \A k \in Api!Slots : client.i < k /\ k <= i => mLocAdapters[k] # NULL
               /\ \A k \in Api!Slots : i < k => mLocAdapters[k] = NULL
<1>1. client.i \in Api!Slots
  BY DEF Packed
<1>2. PICK c : c = client.i
  OBVIOUS
<1>3. c \in Nat /\ 1 <= c /\ c <= MAX_ADAPTERS /\ MAX_ADAPTERS \in Nat
  BY <1>1, <1>2, SlotsAre
<1> DEFINE T == {i \in c..MAX_ADAPTERS : i < MAX_ADAPTERS => mLocAdapters[i + 1] = NULL}
<1>4. MAX_ADAPTERS \in T /\ T \in SUBSET Nat
  BY <1>3
<1>5. PICK m \in T : \A j \in T : m <= j
  BY <1>4, LeastOf
<1>6. m \in c..MAX_ADAPTERS /\ \A k \in (c + 1)..m : mLocAdapters[k] # NULL
  <2>1. SUFFICES ASSUME NEW k \in (c + 1)..m, mLocAdapters[k] = NULL PROVE FALSE
    OBVIOUS
  <2>2. k - 1 \in c..MAX_ADAPTERS /\ k = (k - 1) + 1
    BY <1>3, <1>5, <2>1
  <2>3. k - 1 \in T
    BY <2>1, <2>2
  <2> QED
    BY <1>3, <1>5, <2>1, <2>3
<1>7. PICK i : i = Api!Last(c)
  OBVIOUS
<1>8. /\ i \in c..MAX_ADAPTERS
      /\ \A k \in (c + 1)..i : mLocAdapters[k] # NULL
      /\ i < MAX_ADAPTERS => mLocAdapters[i + 1] = NULL
  BY <1>5, <1>6, <1>7 DEF Api!Last
<1>9. /\ i \in Api!Slots /\ c <= i
      /\ \A k \in Api!Slots : c < k /\ k <= i => mLocAdapters[k] # NULL
  BY <1>3, <1>8, SlotsAre
<1>10. ASSUME NEW k \in Api!Slots, i < k PROVE mLocAdapters[k] = NULL
  <2>1. i + 1 \in Api!Slots /\ mLocAdapters[i + 1] = NULL /\ i + 1 # c /\ i < MAX_ADAPTERS
    BY <1>3, <1>8, <1>10, SlotsAre
  <2>2. k = i + 1 \/ i + 1 < k
    BY <1>3, <1>8, <1>10, SlotsAre
  <2> QED
    BY <1>2, <2>1, <2>2 DEF Packed
<1> QED
  BY <1>2, <1>7, <1>9, <1>10

(* A call follows the look at its slot. *)
LEMMA CallsInv == ApiTypes /\ Calls /\ [Api!Next]_(Api!vars) => Calls'
<1> SUFFICES ASSUME ApiTypes, Calls, [Api!Next]_(Api!vars) PROVE Calls'
  OBVIOUS
<1>1. asking' = asking \/ Api!procOpenMsg \/ Api!nextMask \/ Api!getEvtMask \/ Api!open
  BY DEF Api!Next, Api!Client, Api!Task, Api!Modem, Api!vars, Api!task, Api!addAdapter,
         Api!removeAdapter, Api!updateEvtMask, Api!fillHole, Api!tellRemoved, Api!send, Api!look,
         Api!deliver, Api!delivered, Api!crash, Api!handleEngineDownEvent,
         Api!handleEngineUpEvent
<1>2. asking'.at = "call" => asking'.i \in Api!Slots
  BY <1>1 DEF Calls, ApiTypes, AskingType, Api!procOpenMsg, Api!nextMask, Api!getEvtMask, Api!open
<1>3. \/ delivery' = delivery \/ Api!look \/ Api!deliver \/ Api!fillHole
      \/ delivery'.at = "look"
  BY DEF Api!Next, Api!Client, Api!Task, Api!Modem, Api!vars, Api!task, Api!array,
         Api!addAdapter, Api!removeAdapter, Api!updateEvtMask, Api!tellRemoved,
         Api!procOpenMsg, Api!nextMask, Api!getEvtMask, Api!open, Api!delivered,
         Api!NoDelivery, Api!Start, Api!send, Api!crash, Api!handleEngineDownEvent,
         Api!handleEngineUpEvent
<1>4. CASE Api!fillHole
  <2>1. PICK S : delivery' = delivery \/ delivery' = [delivery EXCEPT !.moved = S]
    BY <1>4 DEF Api!fillHole
  <2> QED
    BY <2>1, <1>2 DEF Calls, ApiTypes, DeliveryType
<1>5. CASE Api!look \/ Api!deliver
  BY <1>2, <1>5 DEF Calls, ApiTypes, DeliveryType, Api!look, Api!Goes, Api!deliver
<1> QED
  BY <1>2, <1>3, <1>4, <1>5 DEF Calls

(* Types, step by step. *)
LEMMA ApiTypesInv == ApiTypes /\ Calls /\ Packed /\ [Api!Next]_(Api!vars) => ApiTypes'
<1> SUFFICES ASSUME ApiTypes, Calls, Packed, [Api!Next]_(Api!vars) PROVE ApiTypes'
  OBVIOUS
<1>d. Api!Present \subseteq Adapters
  BY DEF ApiTypes, Api!Present
<1>o. \A m \in {"open", "ssr"} : Append(opens, m) \in Seq({"open", "ssr"})
  BY DEF ApiTypes
<1>1. ASSUME NEW a \in Adapters, Api!addAdapter(a) PROVE ApiTypes'
  <2>1. mEvtMask' \in [Adapters -> SUBSET Events]
    BY <1>1 DEF Api!addAdapter, ApiTypes
  <2>2. mLocAdapters' \in [Api!Slots -> Adapters \cup {NULL}]
    BY <1>1 DEF Api!addAdapter, ApiTypes
  <2>3. opens' \in Seq({"open", "ssr"})
    BY <1>1, <1>o DEF Api!addAdapter, ApiTypes
  <2> QED
    BY <1>1, <2>1, <2>2, <2>3 DEF Api!addAdapter, ApiTypes
<1>2. ASSUME NEW a \in Adapters, Api!removeAdapter(a) PROVE ApiTypes'
  <2>1. mEvtMask' \in [Adapters -> SUBSET Events]
    BY <1>2 DEF Api!removeAdapter, ApiTypes
  <2>2. mLocAdapters' \in [Api!Slots -> Adapters \cup {NULL}]
    BY <1>2 DEF Api!removeAdapter, ApiTypes
  <2>3. client' \in [at : {"idle", "fill", "tell"}, i : Nat] /\ client'.at = "fill"
    BY <1>2, SlotsAre DEF Api!removeAdapter
  <2> QED
    BY <1>2, <2>1, <2>2, <2>3 DEF Api!removeAdapter, ApiTypes, Api!task, Api!Idle
<1>3. ASSUME NEW a \in Adapters, Api!updateEvtMask(a) PROVE ApiTypes'
  <2>1. mEvtMask' \in [Adapters -> SUBSET Events]
    BY <1>3 DEF Api!updateEvtMask, ApiTypes
  <2> QED
    BY <1>3, <1>o, <2>1 DEF Api!updateEvtMask, ApiTypes
<1>4. CASE Api!fillHole
  <2>1. PICK i : i = Api!Last(client.i)
    OBVIOUS
  <2>2. i \in Api!Slots /\ client.at = "fill"
    BY <1>4, <2>1, LastPointer DEF Api!fillHole
  <2>3. /\ mLocAdapters' = [mLocAdapters EXCEPT ![client.i] = mLocAdapters[i], ![i] = NULL]
        /\ client' = [at |-> "tell", i |-> i]
    BY <1>4, <2>1 DEF Api!fillHole
  <2>4. mLocAdapters' \in [Api!Slots -> Adapters \cup {NULL}]
    BY <2>2, <2>3 DEF ApiTypes
  <2>5. client' \in [at : {"idle", "fill", "tell"}, i : Nat] /\ client'.at = "tell"
    BY <2>2, <2>3, SlotsAre
  <2>6. delivery' \in DeliveryType
    <3>1. PICK m : m = mLocAdapters[i]
      OBVIOUS
    <3>2. m \in Adapters \cup {NULL} /\ delivery \in DeliveryType
      BY <2>2, <3>1 DEF ApiTypes
    <3>3. delivery' = delivery
          \/ delivery' = [delivery EXCEPT !.moved = delivery.moved \cup ({m} \ {NULL})]
      BY <1>4, <2>1, <3>1 DEF Api!fillHole
    <3> QED
      BY <3>2, <3>3 DEF DeliveryType
  <2> QED
    BY <1>4, <2>4, <2>5, <2>6 DEF Api!fillHole, ApiTypes, Api!task, Api!Idle
<1>5. CASE Api!tellRemoved
  <2>1. registered' \in RegisteredType
    BY <1>5 DEF Api!tellRemoved, ApiTypes, RegisteredType
  <2>2. opens' \in Seq({"open", "ssr"})
    BY <1>5, <1>o DEF Api!tellRemoved, ApiTypes
  <2>3. client' = Api!Idle /\ client' \in [at : {"idle", "fill", "tell"}, i : Nat]
        /\ client'.at = "idle"
    BY <1>5 DEF Api!tellRemoved, Api!Idle
  <2> QED
    BY <1>5, <2>1, <2>2, <2>3 DEF Api!tellRemoved, ApiTypes
<1>6. CASE Api!procOpenMsg
  <2>1. registered' \in RegisteredType
    BY <1>6 DEF Api!procOpenMsg, ApiTypes, RegisteredType
  <2>2. opens' \in Seq({"open", "ssr"})
    BY <1>6 DEF Api!procOpenMsg, ApiTypes
  <2>3. asking' \in AskingType
    BY <1>6 DEF Api!procOpenMsg, AskingType
  <2> QED
    BY <1>6, <2>1, <2>2, <2>3 DEF Api!procOpenMsg, ApiTypes, Api!array
<1>16. CASE Api!nextMask
  BY <1>16 DEF Api!nextMask, ApiTypes, AskingType, Api!array
<1>7. CASE Api!getEvtMask
  <2>1. asking' \in AskingType
    <3>1. PICK mask : mask = mEvtMask[mLocAdapters[asking.i]]
      OBVIOUS
    <3>2. \/ asking' = [asking EXCEPT !.at = "undefined"]
          \/ /\ mLocAdapters[asking.i] # NULL
             /\ asking' = [at |-> "loop", i |-> asking.i + 1, mask |-> asking.mask \cup mask]
      BY <1>7, <3>1 DEF Api!getEvtMask
    <3>3. asking \in AskingType
      BY DEF ApiTypes
    <3>4. CASE asking' = [asking EXCEPT !.at = "undefined"]
      BY <3>3, <3>4 DEF AskingType
    <3>5. CASE /\ mLocAdapters[asking.i] # NULL
               /\ asking' = [at |-> "loop", i |-> asking.i + 1, mask |-> asking.mask \cup mask]
      <4>1. asking.i \in Api!Slots
        BY <1>7 DEF Api!getEvtMask, Calls
      <4>2. mask \subseteq Events
        BY <3>1, <3>5, <4>1 DEF ApiTypes
      <4> QED
        BY <3>3, <3>5, <4>2 DEF AskingType
    <3> QED
      BY <3>2, <3>4, <3>5
  <2> QED
    BY <1>7, <2>1 DEF Api!getEvtMask, ApiTypes, Api!array
<1>8. CASE Api!open
  <2>1. registered' \in RegisteredType
    <3>1. registered' = registered
          \/ registered' = [registered EXCEPT !.mask = asking.mask \ mExcludedMask]
      BY <1>8 DEF Api!open, Api!Wanted
    <3> QED
      BY <3>1 DEF ApiTypes, RegisteredType, AskingType
  <2>2. asking' \in AskingType
    BY <1>8 DEF Api!open, AskingType
  <2> QED
    BY <1>8, <2>1, <2>2 DEF Api!open, ApiTypes, Api!array
<1>9. ASSUME NEW kind \in {"report", "request"}, NEW takers \in SUBSET Adapters,
             Api!Start(kind, takers)
      PROVE  delivery' \in DeliveryType
  BY <1>9, <1>d DEF Api!Start, DeliveryType
<1>10. CASE Api!send
  <2>1. Api!Start("report", {}) \/ \E takers \in SUBSET Adapters : Api!Start("request", takers)
    BY <1>10, <1>d DEF Api!send
  <2>2. delivery' \in DeliveryType
    BY <1>9, <2>1
  <2> QED
    BY <1>10, <2>2 DEF Api!send, ApiTypes, Api!array, Api!task
<1>17. CASE Api!look
  BY <1>17 DEF Api!look, ApiTypes, DeliveryType, Api!array, Api!task
<1>11. CASE Api!deliver
  <2>1. delivery' \in DeliveryType
    <3>1. PICK a : a = mLocAdapters[delivery.i]
      OBVIOUS
    <3>2. delivery \in DeliveryType
      BY DEF ApiTypes
    <3>3. \/ delivery' = [delivery EXCEPT !.at = "undefined"]
          \/ /\ a # NULL
             /\ delivery' = [delivery EXCEPT !.at = "look", !.i = delivery.i + 1,
                                            !.heard = delivery.heard \cup {a}]
      BY <1>11, <3>1 DEF Api!deliver
    <3>4. delivery.i \in Api!Slots => a \in Adapters \cup {NULL}
      BY <3>1 DEF ApiTypes
    <3>5. CASE delivery' = [delivery EXCEPT !.at = "undefined"]
      BY <3>2, <3>5 DEF DeliveryType
    <3>6. CASE /\ a # NULL
               /\ delivery' = [delivery EXCEPT !.at = "look", !.i = delivery.i + 1,
                                              !.heard = delivery.heard \cup {a}]
      <4>1. a \in Adapters
        BY <1>11, <3>4, <3>6 DEF Api!deliver, Calls
      <4>2. delivery.i + 1 \in Nat /\ delivery.heard \cup {a} \in SUBSET Adapters
        BY <3>2, <4>1 DEF DeliveryType
      <4> QED
        BY <3>2, <3>6, <4>2 DEF DeliveryType
    <3> QED
      BY <3>3, <3>5, <3>6
  <2> QED
    BY <1>11, <2>1 DEF Api!deliver, ApiTypes, Api!array, Api!task
<1>12. CASE Api!delivered
  BY <1>12 DEF Api!delivered, Api!NoDelivery, ApiTypes, DeliveryType, Api!array, Api!task
<1>13. CASE Api!crash
  BY <1>13 DEF Api!crash, ApiTypes, RegisteredType, Api!array, Api!task
<1>18. CASE Api!handleEngineDownEvent
  <2>1. registered' \in RegisteredType
    BY <1>18 DEF Api!handleEngineDownEvent, ApiTypes, RegisteredType
  <2>2. delivery' \in DeliveryType
    BY <1>9, <1>18 DEF Api!handleEngineDownEvent
  <2> QED
    BY <1>18, <2>1, <2>2 DEF Api!handleEngineDownEvent, ApiTypes, Api!array, Api!task
<1>14. CASE Api!handleEngineUpEvent
  <2>1. registered' \in RegisteredType
    BY <1>14 DEF Api!handleEngineUpEvent, ApiTypes, RegisteredType
  <2>2. delivery' \in DeliveryType
    BY <1>9, <1>14 DEF Api!handleEngineUpEvent
  <2> QED
    BY <1>14, <1>o, <2>1, <2>2 DEF Api!handleEngineUpEvent, ApiTypes, Api!array
<1>15. CASE UNCHANGED Api!vars
  BY <1>15 DEF Api!vars, Api!array, Api!task, ApiTypes
<1> QED
  BY <1>1, <1>2, <1>3, <1>4, <1>5, <1>6, <1>7, <1>8, <1>10, <1>11, <1>12, <1>13, <1>14, <1>15,
     <1>16, <1>17, <1>18 DEF Api!Next, Api!Client, Api!Task, Api!Modem

-----------------------------------------------------------------------------
(* An adapter in the array is in a slot. *)
LEMMA PresentIs == \A a : a \in Api!Present <=> a # NULL /\ \E k \in Api!Slots : mLocAdapters[k] = a
BY DEF Api!Present

(* The array, step by step. *)
LEMMA PackedInv == ApiTypes /\ Packed /\ [Api!Next]_(Api!vars) => Packed'
<1> SUFFICES ASSUME ApiTypes, Packed, [Api!Next]_(Api!vars) PROVE Packed'
  OBVIOUS
<1>1. ASSUME NEW a \in Adapters, Api!addAdapter(a) PROVE Packed'
  <2> DEFINE free == {i \in Api!Slots : mLocAdapters[i] = NULL}
  <2>1. client = Api!Idle /\ client' = client /\ client.at = "idle" /\ a \notin Api!Present
    BY <1>1 DEF Api!addAdapter, Api!Idle
  <2>2. CASE free = {}
    <3>1. mLocAdapters' = mLocAdapters
      BY <1>1, <2>2 DEF Api!addAdapter
    <3> QED
      BY <2>1, <3>1 DEF Packed
  <2>3. CASE free # {}
    <3>1. PICK c : c = CHOOSE i \in free : \A j \in free : i <= j
      OBVIOUS
    <3>2. c \in free /\ \A j \in free : c <= j
      BY <2>3, <3>1, FirstFree
    <3>3. mLocAdapters' = [mLocAdapters EXCEPT ![c] = a]
      BY <1>1, <2>3, <3>1 DEF Api!addAdapter
    <3>4. /\ a # NULL /\ \A k \in Api!Slots : mLocAdapters[k] # a
          /\ c \in Api!Slots /\ \A k \in Api!Slots : mLocAdapters'[k] =
               IF k = c THEN a ELSE mLocAdapters[k]
      BY <2>1, <3>2, <3>3, NullIsNoAdapter, PresentIs DEF ApiTypes
    <3>5. \A k \in Api!Slots : k < c => mLocAdapters[k] # NULL
      BY <3>2, <3>4, SlotsAre
    <3>6. \A i, j \in Api!Slots :
            mLocAdapters'[i] = mLocAdapters'[j] /\ i # j => mLocAdapters'[i] = NULL
      BY <3>4 DEF Packed
    <3>7. ASSUME NEW i \in Api!Slots, NEW j \in Api!Slots, i < j, mLocAdapters'[i] = NULL
          PROVE  mLocAdapters'[j] = NULL
      <4>1. i # c /\ mLocAdapters[i] = NULL
        BY <3>4, <3>7
      <4>2. c < i
        BY <3>4, <3>5, <4>1, SlotsAre
      <4>3. j # c /\ mLocAdapters[j] = NULL
        BY <2>1, <3>4, <3>7, <4>1, <4>2, SlotsAre DEF Packed
      <4> QED
        BY <3>4, <4>3
    <3> QED
      BY <2>1, <3>6, <3>7 DEF Packed
  <2> QED
    BY <2>2, <2>3
<1>2. ASSUME NEW a \in Adapters, Api!removeAdapter(a) PROVE Packed'
  <2>1. PICK c \in Api!Slots : /\ mLocAdapters[c] = a
                               /\ mLocAdapters' = [mLocAdapters EXCEPT ![c] = NULL]
                               /\ client' = [at |-> "fill", i |-> c]
    BY <1>2 DEF Api!removeAdapter
  <2>2. client.at = "idle" /\ a # NULL /\ client'.at = "fill" /\ client'.i = c
    BY <1>2, <2>1, NullIsNoAdapter DEF Api!removeAdapter, Api!Idle
  <2>3. \A k \in Api!Slots : mLocAdapters'[k] = IF k = c THEN NULL ELSE mLocAdapters[k]
    BY <2>1 DEF ApiTypes
  <2>4. \A i, j \in Api!Slots :
          mLocAdapters'[i] = mLocAdapters'[j] /\ i # j => mLocAdapters'[i] = NULL
    BY <2>3 DEF Packed
  <2>5. \A i, j \in Api!Slots : i < j /\ mLocAdapters'[i] = NULL /\ i # c => mLocAdapters'[j] = NULL
    BY <2>2, <2>3 DEF Packed
  <2>6. \A k \in Api!Slots : k < c => mLocAdapters'[k] # NULL
    <3>1. SUFFICES ASSUME NEW k \in Api!Slots, k < c, mLocAdapters'[k] = NULL PROVE FALSE
      OBVIOUS
    <3>2. k # c
      BY <3>1, SlotsAre
    <3>3. mLocAdapters[k] = NULL
      BY <2>3, <3>1, <3>2
    <3> QED
      BY <2>1, <2>2, <3>1, <3>3 DEF Packed
  <2> QED
    BY <2>2, <2>3, <2>4, <2>5, <2>6 DEF Packed
<1>3. CASE Api!fillHole
  <2>0. client.at = "fill"
    BY <1>3 DEF Api!fillHole
  <2>1. PICK i : i = Api!Last(client.i)
    OBVIOUS
  <2>2. PICK c : c = client.i
    OBVIOUS
  <2>3. /\ i \in Api!Slots /\ c \in Api!Slots /\ c <= i
        /\ \A k \in Api!Slots : c < k /\ k <= i => mLocAdapters[k] # NULL
        /\ \A k \in Api!Slots : i < k => mLocAdapters[k] = NULL
        /\ mLocAdapters[c] = NULL /\ \A k \in Api!Slots : k < c => mLocAdapters[k] # NULL
    BY <2>0, <2>1, <2>2, LastPointer DEF Packed
  <2>4. /\ mLocAdapters' = [mLocAdapters EXCEPT ![c] = mLocAdapters[i], ![i] = NULL]
        /\ client'.at = "tell" /\ client'.i = i
    BY <1>3, <2>1, <2>2 DEF Api!fillHole
  <2>5. \A k \in Api!Slots : mLocAdapters'[k] =
          IF k = i THEN NULL ELSE IF k = c THEN mLocAdapters[i] ELSE mLocAdapters[k]
    BY <2>3, <2>4 DEF ApiTypes
  <2>6. \A k \in Api!Slots : mLocAdapters'[k] = NULL <=> i <= k
    BY <2>3, <2>5, SlotsAre
  <2>7. \A k, j \in Api!Slots :
          mLocAdapters'[k] = mLocAdapters'[j] /\ k # j => mLocAdapters'[k] = NULL
    BY <2>3, <2>5, SlotsAre DEF Packed
  <2>8. \A k, j \in Api!Slots : k < j /\ mLocAdapters'[k] = NULL => mLocAdapters'[j] = NULL
    BY <2>3, <2>6, SlotsAre
  <2>9. i = 1 => \A k \in Api!Slots : mLocAdapters'[k] = NULL
    BY <2>6, SlotsAre
  <2> QED
    BY <2>3, <2>4, <2>7, <2>8, <2>9 DEF Packed
<1>4. CASE Api!tellRemoved
  <2>1. mLocAdapters' = mLocAdapters /\ client'.at = "idle" /\ client.at = "tell"
    BY <1>4 DEF Api!tellRemoved, Api!Idle
  <2> QED
    BY <2>1 DEF Packed
<1>5. CASE \/ \E a \in Adapters : Api!updateEvtMask(a)
           \/ Api!procOpenMsg \/ Api!nextMask \/ Api!getEvtMask \/ Api!open
           \/ Api!Modem \/ UNCHANGED Api!vars
  <2>1. mLocAdapters' = mLocAdapters /\ client' = client
    BY <1>5 DEF Api!updateEvtMask, Api!procOpenMsg, Api!nextMask, Api!getEvtMask, Api!open,
       Api!Modem, Api!send, Api!look, Api!deliver, Api!delivered, Api!crash,
       Api!handleEngineDownEvent, Api!handleEngineUpEvent, Api!vars, Api!array
  <2> QED
    BY <2>1 DEF Packed
<1> QED
  BY <1>1, <1>2, <1>3, <1>4, <1>5 DEF Api!Next, Api!Client, Api!Task

(* The masks, step by step. *)
LEMMA AskedInv == ApiTypes /\ Calls /\ Packed /\ Asked /\ [Api!Next]_(Api!vars) => Asked'
<1> SUFFICES ASSUME ApiTypes, Calls, Packed, Asked, [Api!Next]_(Api!vars),
                    Api!Present' # {}, client'.at = "idle", opens' = <<>>
             PROVE  Meeting'
  BY DEF Asked
<1>o. \A m : Append(opens, m) # <<>>
  BY DEF ApiTypes
<1>k. ASSUME mLocAdapters' = mLocAdapters, \A k \in Api!Slots : \A e : Wants(k, e)' <=> Wants(k, e),
             client.at = "idle", opens = <<>>, asking' = asking,
             registered'.up => registered.up /\ registered'.mask = registered.mask
      PROVE  Meeting'
  <2>1. Api!Present # {}
    BY <1>k DEF Api!Present
  <2> QED
    BY <1>k, <2>1 DEF Asked, Meeting
<1>1. CASE \E a \in Adapters : Api!addAdapter(a)
  <2>1. PICK a \in Adapters : Api!addAdapter(a)
    BY <1>1
  <2>2. /\ mLocAdapters' = mLocAdapters /\ opens = <<>> /\ asking' = asking
        /\ registered' = registered /\ client.at = "idle" /\ a \notin Api!Present
        /\ \E mask : mEvtMask' = [mEvtMask EXCEPT ![a] = mask]
    BY <1>o, <2>1 DEF Api!addAdapter, Api!Idle
  <2>3. ASSUME NEW k \in Api!Slots, NEW e PROVE Wants(k, e)' <=> Wants(k, e)
    <3>1. mLocAdapters[k] # NULL => mLocAdapters[k] # a /\ mLocAdapters[k] \in Adapters
      BY <2>2, PresentIs DEF ApiTypes
    <3>2. mLocAdapters[k] # NULL => mEvtMask'[mLocAdapters[k]] = mEvtMask[mLocAdapters[k]]
      BY <2>2, <3>1 DEF ApiTypes
    <3> QED
      BY <2>2, <3>2 DEF Wants
  <2> QED
    BY <1>k, <2>2, <2>3
<1>2. CASE \E a \in Adapters : Api!removeAdapter(a)
  BY <1>2 DEF Api!removeAdapter
<1>3. CASE \E a \in Adapters : Api!updateEvtMask(a)
  BY <1>3, <1>o DEF Api!updateEvtMask
<1>4. CASE Api!fillHole
  BY <1>4 DEF Api!fillHole
<1>5. CASE Api!tellRemoved
  <2>1. client.i = 1 /\ client.at = "tell" /\ mLocAdapters' = mLocAdapters
    BY <1>5, <1>o DEF Api!tellRemoved
  <2>2. \A k \in Api!Slots : mLocAdapters[k] = NULL
    BY <2>1 DEF Packed
  <2>3. Api!Present' = {}
    BY <2>1, <2>2 DEF Api!Present
  <2> QED
    BY <2>3
<1>6. CASE Api!procOpenMsg
  <2>1. asking'.at = "loop" /\ asking'.i = 1 /\ asking'.mask = {}
    BY <1>6 DEF Api!procOpenMsg
  <2> QED
    BY <2>1, SlotsAre DEF Meeting
<1>11. CASE Api!nextMask
  <2>1. /\ asking.at = "loop" /\ asking.i \in Api!Slots /\ mLocAdapters[asking.i] # NULL
        /\ mLocAdapters' = mLocAdapters /\ mEvtMask' = mEvtMask /\ client' = client
        /\ opens' = opens /\ asking' = [asking EXCEPT !.at = "call"]
    BY <1>11 DEF Api!nextMask, Api!array
  <2>2. asking'.at = "call" /\ asking'.i = asking.i /\ asking'.mask = asking.mask
    BY <2>1 DEF ApiTypes, AskingType
  <2>3. Api!Present # {}
    BY <2>1 DEF Api!Present
  <2>4. \A k, e : Wants(k, e)' <=> Wants(k, e)
    BY <2>1 DEF Wants
  <2> QED
    BY <2>1, <2>2, <2>3, <2>4 DEF Asked, Meeting
<1>7. CASE Api!getEvtMask
  <2>1. PICK i : i = asking.i
    OBVIOUS
  <2>2. PICK mask : mask = mEvtMask[mLocAdapters[i]]
    OBVIOUS
  <2>3. /\ asking.at = "call" /\ i \in Api!Slots
        /\ mLocAdapters' = mLocAdapters /\ mEvtMask' = mEvtMask /\ client' = client
        /\ opens' = opens
    BY <1>7, <2>1 DEF Api!getEvtMask, Api!array, Calls
  <2>6. Api!Present # {}
    BY <2>3 DEF Api!Present
  <2>7. /\ \A k \in Api!Slots : k < i => mLocAdapters[k] # NULL
        /\ \A e : e \in asking.mask <=> \E k \in Api!Slots : k < i /\ Wants(k, e)
        /\ mLocAdapters[i] # NULL
    BY <2>1, <2>3, <2>6 DEF Asked, Meeting
  <2>5. asking'.at = "loop" /\ asking'.i = i + 1 /\ asking'.mask = asking.mask \cup mask
    BY <1>7, <2>1, <2>2, <2>7 DEF Api!getEvtMask
  <2>8. \A k \in Api!Slots : k < i + 1 <=> k < i \/ k = i
    BY <2>3, SlotsAre
  <2>9. i + 1 \in 1..(MAX_ADAPTERS + 1)
    BY <2>3, SlotsAre
  <2>10. \A k, e : Wants(k, e)' <=> Wants(k, e)
    BY <2>3 DEF Wants
  <2>11. \A e : e \in mask <=> Wants(i, e)
    BY <2>2, <2>7 DEF Wants
  <2> QED
    BY <2>3, <2>5, <2>7, <2>8, <2>9, <2>10, <2>11 DEF Meeting
<1>8. CASE Api!open
  <2>1. /\ asking.at = "loop" /\ (asking.i \in Api!Slots => mLocAdapters[asking.i] = NULL)
        /\ mLocAdapters' = mLocAdapters /\ mEvtMask' = mEvtMask /\ client' = client
        /\ opens' = opens /\ asking'.at = "idle"
    BY <1>8 DEF Api!open, Api!array
  <2>2. registered'.up => registered'.mask = asking.mask \ mExcludedMask
    BY <1>8 DEF Api!open, Api!Wanted, ApiTypes, RegisteredType
  <2>3. Api!Present # {}
    BY <2>1 DEF Api!Present
  <2>4. /\ asking.i \in 1..(MAX_ADAPTERS + 1)
        /\ \A e : e \in asking.mask <=> \E k \in Api!Slots : k < asking.i /\ Wants(k, e)
    BY <2>1, <2>3 DEF Asked, Meeting
  <2>5. ASSUME NEW k \in Api!Slots, mLocAdapters[k] # NULL PROVE k < asking.i
    <3>1. k # asking.i
      BY <2>1, <2>5
    <3>2. ~(asking.i < k)
      <4>1. SUFFICES ASSUME asking.i < k PROVE FALSE
        OBVIOUS
      <4>2. asking.i \in Api!Slots
        BY <2>4, <4>1, SlotsAre
      <4> QED
        BY <2>1, <2>5, <4>1, <4>2 DEF Packed
    <3> QED
      BY <2>4, <3>1, <3>2, SlotsAre
  <2>6. \A e : e \in asking.mask <=> \E k \in Api!Slots : Wants(k, e)
    BY <2>4, <2>5 DEF Wants
  <2>7. \A k, e : Wants(k, e)' <=> Wants(k, e)
    BY <2>1 DEF Wants
  <2> QED
    BY <2>1, <2>2, <2>6, <2>7 DEF Meeting
<1>9. CASE Api!Modem \/ UNCHANGED Api!vars
  <2>1. CASE Api!handleEngineUpEvent
    BY <2>1, <1>o DEF Api!handleEngineUpEvent
  <2>2. CASE ~Api!handleEngineUpEvent
    <3>1. /\ mLocAdapters' = mLocAdapters /\ mEvtMask' = mEvtMask /\ client' = client
          /\ opens' = opens /\ asking' = asking
          /\ registered'.up => registered.up /\ registered'.mask = registered.mask
      BY <1>9, <2>2 DEF Api!Modem, Api!send, Api!look, Api!deliver, Api!delivered, Api!crash,
         Api!handleEngineDownEvent, Api!vars, Api!array, Api!task, ApiTypes, RegisteredType
    <3>2. \A k, e : Wants(k, e)' <=> Wants(k, e)
      BY <3>1 DEF Wants
    <3> QED
      BY <1>k, <3>1, <3>2
  <2> QED
    BY <2>1, <2>2
<1> QED
  BY <1>1, <1>2, <1>3, <1>4, <1>5, <1>6, <1>7, <1>8, <1>9, <1>11
     DEF Api!Next, Api!Client, Api!Task

(* The delivery, step by step. *)
LEMMA DeliveringInv ==
    ApiTypes /\ Calls /\ Packed /\ Delivering /\ [Api!Next]_(Api!vars) => Delivering'
<1> SUFFICES ASSUME ApiTypes, Calls, Packed, Delivering, [Api!Next]_(Api!vars) PROVE Delivering'
  OBVIOUS
<1>d. delivery \in DeliveryType
  BY DEF ApiTypes
<1>s. ASSUME NEW kind, NEW takers, Api!Start(kind, takers), UNCHANGED Api!array PROVE Delivering'
  <2>1. /\ delivery'.heard = {} /\ delivery'.i = 1 /\ delivery'.due = Api!Present
        /\ delivery'.at = "look" /\ mLocAdapters' = mLocAdapters
    BY <1>s DEF Api!Start, Api!array
  <2>2. \A a \in Api!Present : Ahead(a)'
    BY <2>1, PresentIs, SlotsAre DEF Ahead
  <2> QED
    BY <2>1, <2>2, SlotsAre DEF Delivering
<1>k. ASSUME UNCHANGED delivery, removed \subseteq removed',
             \A k \in Api!Slots : mLocAdapters[k] \notin {NULL} \cup removed' =>
                                     mLocAdapters'[k] = mLocAdapters[k]
      PROVE  Delivering'
  <2>1. ASSUME NEW a \in Adapters, Ahead(a), a \notin removed' PROVE Ahead(a)'
    BY <1>k, <2>1, NullIsNoAdapter DEF Ahead
  <2>2. delivery.due \subseteq Adapters
    BY <1>d DEF DeliveryType
  <2> QED
    BY <1>k, <2>1, <2>2 DEF Delivering
<1>1. CASE \E a \in Adapters : Api!addAdapter(a)
  <2>1. PICK a \in Adapters : Api!addAdapter(a)
    BY <1>1
  <2> DEFINE free == {i \in Api!Slots : mLocAdapters[i] = NULL}
  <2>2. delivery' = delivery /\ removed' = removed
    BY <2>1 DEF Api!addAdapter
  <2>3. \A k \in Api!Slots : mLocAdapters[k] # NULL => mLocAdapters'[k] = mLocAdapters[k]
    <3>1. CASE free = {}
      BY <2>1, <3>1 DEF Api!addAdapter
    <3>2. CASE free # {}
      <4>1. PICK c : c = CHOOSE i \in free : \A j \in free : i <= j
        OBVIOUS
      <4>2. c \in free /\ mLocAdapters' = [mLocAdapters EXCEPT ![c] = a]
        BY <2>1, <3>2, <4>1, FirstFree DEF Api!addAdapter
      <4> QED
        BY <4>2 DEF ApiTypes
    <3> QED
      BY <3>1, <3>2
  <2> QED
    BY <1>k, <2>2, <2>3
<1>2. CASE \E a \in Adapters : Api!removeAdapter(a)
  <2>1. PICK a \in Adapters : Api!removeAdapter(a)
    BY <1>2
  <2>2. delivery' = delivery /\ removed' = removed \cup {a}
    BY <2>1 DEF Api!removeAdapter
  <2>3. \A k \in Api!Slots : mLocAdapters[k] # a => mLocAdapters'[k] = mLocAdapters[k]
    BY <2>1 DEF Api!removeAdapter, ApiTypes
  <2> QED
    BY <1>k, <2>2, <2>3
<1>3. CASE Api!fillHole
  <2>1. PICK i : i = Api!Last(client.i)
    OBVIOUS
  <2>2. PICK m : m = mLocAdapters[i]
    OBVIOUS
  <2>3. i \in Api!Slots /\ client.i \in Api!Slots /\ mLocAdapters[client.i] = NULL
    BY <1>3, <2>1, LastPointer DEF Api!fillHole, Packed
  <2>4. mLocAdapters' = [mLocAdapters EXCEPT ![client.i] = m, ![i] = NULL] /\ removed' = removed
    BY <1>3, <2>1, <2>2 DEF Api!fillHole
  <2>5. \A k \in Api!Slots : mLocAdapters[k] \notin {NULL, m} => mLocAdapters'[k] = mLocAdapters[k]
    BY <2>2, <2>3, <2>4 DEF ApiTypes
  <2>6. PICK S : S = delivery.moved \cup ({m} \ {NULL})
    OBVIOUS
  <2>7. delivery' = IF delivery.kind = "none" THEN delivery ELSE [delivery EXCEPT !.moved = S]
    BY <1>3, <2>1, <2>2, <2>6 DEF Api!fillHole
  <2>8. CASE delivery.kind = "none"
    BY <2>7, <2>8 DEF Delivering
  <2>9. CASE delivery.kind # "none"
    <3>1. /\ delivery'.kind = delivery.kind /\ delivery'.at = delivery.at
          /\ delivery'.i = delivery.i /\ delivery'.takers = delivery.takers
          /\ delivery'.heard = delivery.heard /\ delivery'.due = delivery.due
          /\ delivery'.moved = S
      BY <1>d, <2>7, <2>9 DEF DeliveryType
    <3>2. ASSUME NEW a \in delivery.due, Ahead(a) PROVE a \in S \/ Ahead(a)'
      <4>1. a # NULL
        BY <1>d, NullIsNoAdapter DEF DeliveryType
      <4>2. PICK k \in Api!Slots : delivery.i <= k /\ mLocAdapters[k] = a
        BY <3>2 DEF Ahead
      <4>3. CASE a = m
        BY <2>6, <4>1, <4>3
      <4>4. CASE a # m
        BY <2>5, <3>1, <4>1, <4>2, <4>4 DEF Ahead
      <4> QED
        BY <4>3, <4>4
    <3> QED
      BY <2>4, <2>6, <3>1, <3>2 DEF Delivering
  <2> QED
    BY <2>8, <2>9
<1>4. CASE \/ \E a \in Adapters : Api!updateEvtMask(a)
           \/ Api!tellRemoved \/ Api!Task \/ Api!crash \/ UNCHANGED Api!vars
  <2>1. delivery' = delivery /\ removed' = removed /\ mLocAdapters' = mLocAdapters
    BY <1>4 DEF Api!updateEvtMask, Api!tellRemoved, Api!Task, Api!procOpenMsg, Api!nextMask,
       Api!getEvtMask, Api!open, Api!crash, Api!vars, Api!array
  <2> QED
    BY <1>k, <2>1
<1>5. CASE Api!send \/ Api!handleEngineDownEvent \/ Api!handleEngineUpEvent
  <2>1. UNCHANGED Api!array /\ \E kind, takers : Api!Start(kind, takers)
    BY <1>5 DEF Api!send, Api!handleEngineDownEvent, Api!handleEngineUpEvent
  <2> QED
    BY <1>s, <2>1
<1>6. CASE Api!look
  <2>1. /\ delivery' = [delivery EXCEPT !.at = "call"] /\ delivery.heard \cap delivery.takers = {}
        /\ mLocAdapters' = mLocAdapters /\ removed' = removed /\ delivery.kind # "none"
    BY <1>6 DEF Api!look, Api!Goes, Api!array
  <2>2. /\ delivery'.kind = delivery.kind /\ delivery'.i = delivery.i
        /\ delivery'.takers = delivery.takers /\ delivery'.moved = delivery.moved
        /\ delivery'.heard = delivery.heard /\ delivery'.due = delivery.due
    BY <1>d, <2>1 DEF DeliveryType
  <2>3. \A a : Ahead(a)' <=> Ahead(a)
    BY <2>1, <2>2 DEF Ahead
  <2> QED
    BY <2>1, <2>2, <2>3 DEF Delivering
<1>7. CASE Api!deliver
  <2>1. PICK i : i = delivery.i
    OBVIOUS
  <2>2. PICK m : m = mLocAdapters[i]
    OBVIOUS
  <2>3. /\ delivery.at = "call" /\ i \in Api!Slots /\ delivery.heard \cap delivery.takers = {}
        /\ mLocAdapters' = mLocAdapters /\ removed' = removed
    BY <1>7, <2>1 DEF Api!deliver, Api!array, Calls, Delivering
  <2>4. CASE m = NULL
    <3>1. delivery' = [delivery EXCEPT !.at = "undefined"]
      BY <1>7, <2>1, <2>2, <2>4 DEF Api!deliver
    <3>2. /\ delivery'.kind = delivery.kind /\ delivery'.i = delivery.i
          /\ delivery'.takers = delivery.takers /\ delivery'.moved = delivery.moved
          /\ delivery'.heard = delivery.heard /\ delivery'.due = delivery.due
          /\ delivery'.at = "undefined"
      BY <1>d, <3>1 DEF DeliveryType
    <3>3. \A a : Ahead(a)' <=> Ahead(a)
      BY <2>3, <3>2 DEF Ahead
    <3> QED
      BY <2>3, <3>2, <3>3 DEF Delivering
  <2>5. CASE m # NULL
    <3>1. delivery' = [delivery EXCEPT !.at = "look", !.i = i + 1, !.heard = delivery.heard \cup {m}]
      BY <1>7, <2>1, <2>2, <2>5 DEF Api!deliver
    <3>2. /\ delivery'.kind = delivery.kind /\ delivery'.i = i + 1
          /\ delivery'.takers = delivery.takers /\ delivery'.moved = delivery.moved
          /\ delivery'.heard = delivery.heard \cup {m} /\ delivery'.due = delivery.due
          /\ delivery'.at = "look"
      BY <1>d, <3>1 DEF DeliveryType
    <3>3. delivery'.heard \cap delivery'.takers \subseteq {m}
      BY <2>3, <3>2
    <3>4. /\ i + 1 \in 1..(MAX_ADAPTERS + 1)
          /\ \A k \in Api!Slots : i <= k => k = i \/ i + 1 <= k
      BY <2>3, SlotsAre
    <3>5. \A a : Ahead(a) => a = m \/ Ahead(a)'
      BY <2>1, <2>2, <2>3, <3>2, <3>4 DEF Ahead
    <3>6. \A a \in delivery'.due :
            a \in delivery'.heard \cup removed' \cup delivery'.moved \/ Ahead(a)'
      <4>1. CASE delivery.kind = "none"
        BY <1>7, <2>3, <4>1 DEF Delivering
      <4>2. CASE delivery.kind # "none"
        BY <2>3, <3>2, <3>5, <4>2 DEF Delivering
      <4> QED
        BY <4>1, <4>2
    <3> QED
      BY <3>2, <3>3, <3>4, <3>6 DEF Delivering
  <2> QED
    BY <2>4, <2>5
<1>8. CASE Api!delivered
  BY <1>8 DEF Api!delivered, Api!NoDelivery, Delivering
<1> QED
  BY <1>1, <1>2, <1>3, <1>4, <1>5, <1>6, <1>7, <1>8 DEF Api!Next, Api!Client, Api!Modem

-----------------------------------------------------------------------------
(* The first state of the adapters. *)
LEMMA ApiInitInv == HalInit => AdaptersInv
<1> SUFFICES ASSUME Api!Init PROVE AdaptersInv
  BY DEF HalInit
<1>1. /\ client.at = "idle" /\ asking.at = "idle" /\ delivery.kind = "none" /\ client = Api!Idle
      /\ delivery.at = "look" /\ delivery.heard = {}
      /\ \A k \in Api!Slots : mLocAdapters[k] = NULL
  BY DEF Api!Init, Api!Idle, Api!NoDelivery
<1>2. ApiTypes
  <2>1. client \in [at : {"idle", "fill", "tell"}, i : Nat]
    BY DEF Api!Init, Api!Idle
  <2>2. delivery \in DeliveryType
    BY DEF Api!Init, Api!NoDelivery, DeliveryType
  <2>3. /\ mLocAdapters \in [Api!Slots -> Adapters \cup {NULL}]
        /\ mEvtMask \in [Adapters -> SUBSET Events] /\ opens \in Seq({"open", "ssr"})
        /\ asking \in AskingType /\ registered \in RegisteredType
    BY DEF Api!Init, AskingType, RegisteredType
  <2> QED
    BY <1>1, <2>1, <2>2, <2>3 DEF ApiTypes
<1>3. Packed
  BY <1>1 DEF Packed
<1>4. Api!Present = {}
  BY <1>1 DEF Api!Present
<1> QED
  BY <1>1, <1>2, <1>3, <1>4 DEF AdaptersInv, Asked, Delivering, Calls

(* When no message is left the modem has all the masks. *)
LEMMA AllAsked == AdaptersInv => MasksMeet
<1> SUFFICES ASSUME AdaptersInv PROVE Api!TypeOK /\ Api!MasksMeet
  BY DEF MasksMeet
<1>1. Api!TypeOK
  BY DEF AdaptersInv, ApiTypes, AskingType, RegisteredType, DeliveryType, Packed, Api!TypeOK
<1>2. ASSUME Api!Present # {}, client = Api!Idle, asking.at = "idle", opens = <<>>, registered.up
      PROVE  registered.mask = (UNION {mEvtMask[a] : a \in Api!Present}) \ mExcludedMask
  <2>1. client.at = "idle"
    BY <1>2 DEF Api!Idle
  <2>2. \A e : e \in registered.mask <=> e \notin mExcludedMask /\ \E k \in Api!Slots : Wants(k, e)
    BY <1>2, <2>1 DEF AdaptersInv, Asked, Meeting
  <2>3. \A e : (\E k \in Api!Slots : Wants(k, e)) <=> \E a \in Api!Present : e \in mEvtMask[a]
    BY DEF Wants, Api!Present
  <2> DEFINE all == UNION {mEvtMask[a] : a \in Api!Present}
  <2>4. \A e : e \in all <=> \E a \in Api!Present : e \in mEvtMask[a]
    OBVIOUS
  <2> HIDE DEF all
  <2>5. \A e : e \in registered.mask <=> e \in all \ mExcludedMask
    BY <2>2, <2>3, <2>4
  <2>6. registered.mask = all \ mExcludedMask
    BY <2>5
  <2> QED
    BY <2>6, Zenon DEF all
<1> QED
  BY <1>1, <1>2 DEF Api!MasksMeet

(* A delivery ends behind the last adapter, or at the hole of a removal. *)
LEMMA AllHear == AdaptersInv => ReportsReachAll
<1> SUFFICES ASSUME AdaptersInv PROVE Api!ReportsReachAll
  BY DEF ReportsReachAll
<1>1. Delivering /\ Packed /\ ApiTypes
  BY DEF AdaptersInv
<1>2. \A a, b \in delivery.heard \cap delivery.takers : a = b
  BY <1>1 DEF Delivering
<1>3. ASSUME Api!Ended, delivery.heard \cap delivery.takers = {},
             client # [at |-> "fill", i |-> delivery.i]
      PROVE  delivery.due \subseteq delivery.heard \cup removed \cup delivery.moved
  <2>1. SUFFICES ASSUME NEW a \in delivery.due, Ahead(a) PROVE FALSE
    BY <1>1, <1>3 DEF Delivering, Api!Ended
  <2>2. PICK k \in Api!Slots : delivery.i <= k /\ mLocAdapters[k] = a
    BY <2>1 DEF Ahead
  <2>3. delivery.i \in 1..(MAX_ADAPTERS + 1)
    BY <1>1, <1>3 DEF Delivering, Api!Ended
  <2>4. delivery.i \in Api!Slots /\ (delivery.i = k \/ delivery.i < k)
    BY <2>2, <2>3, SlotsAre
  <2>5. mLocAdapters[delivery.i] = NULL
    BY <1>3, <2>4 DEF Api!Ended, Api!Goes
  <2>6. a # NULL
    BY <1>1, NullIsNoAdapter DEF ApiTypes, DeliveryType
  <2>7. client.at = "fill" => client.i # delivery.i
    BY <1>1, <1>3 DEF ApiTypes
  <2> QED
    BY <1>1, <2>2, <2>4, <2>5, <2>6, <2>7 DEF Packed
<1> QED
  BY <1>2, <1>3 DEF Api!ReportsReachAll

(* The adapters' part of the HAL's behaviours keeps their invariant, the   *)
(* other parts leave the adapters alone.                                   *)
THEOREM AdaptersInvariance == HalSpec => []AdaptersInv
<1>1. HalInit => AdaptersInv
  BY ApiInitInv
<1>2. [HalNext]_halVars => [Api!Next]_(Api!vars)
  BY DEF HalNext, halVars, apiVars, Api!vars, Api!array, Api!task
<1>3. AdaptersInv /\ [HalNext]_halVars => AdaptersInv'
  BY <1>2, ApiTypesInv, CallsInv, PackedInv, AskedInv, DeliveringInv DEF AdaptersInv
<1> QED
  BY <1>1, <1>3, PTL DEF HalSpec

(* MasksMeet: for every number of adapters and events and every length of  *)
(* the array, the modem of a quiet LocApiBase reports what the adapters    *)
(* want and that are not excluded, and nothing else (addAdapter,           *)
(* removeAdapter, updateEvtMask, LocOpenMsg, LocSsrMsg).                   *)
THEOREM ModemReportsWanted == HalSpec => []MasksMeet
<1> QED
  BY AdaptersInvariance, AllAsked, PTL

(* ReportsReachAll: a report ends when it has reached every adapter of its *)
(* beginning but those that are gone and those a removal has moved, or at  *)
(* the hole of a removal; at most one adapter takes a request              *)
(* (TO_ALL_ADAPTERS, TO_1ST_HANDLING_ADAPTER).                             *)
THEOREM NoReportMissed == HalSpec => []ReportsReachAll
<1> QED
  BY AdaptersInvariance, AllHear, PTL

-----------------------------------------------------------------------------
(* The precision and the satellites that are kept are of the last report.  *)
KeptLast ==
    /\ Sentences!TypeOK
    /\ dop \in {0, reports} /\ usedFrom \in {0, reports}

(* What is kept, step by step. *)
LEMMA KeptLastInv == KeptLast /\ [Sentences!Next]_(Sentences!vars) => KeptLast'
<1> SUFFICES ASSUME KeptLast, [Sentences!Next]_(Sentences!vars) PROVE KeptLast'
  OBVIOUS
<1>1. /\ gps_used_mask \in Sentences!Masks /\ glo_used_mask \in Sentences!Masks
      /\ reports \in 0..MaxReports /\ MaxReports \in Nat
      /\ dop \in {0, reports} /\ usedFrom \in {0, reports}
  BY ReportsNat DEF KeptLast, Sentences!TypeOK
<1>2. CASE Sentences!ReportSv
  <2>1. /\ reports < MaxReports /\ reports' = reports + 1
        /\ dop' \in {0, reports'} /\ usedFrom' \in {0, reports'}
        /\ gps_used_mask' \in Sentences!Masks /\ glo_used_mask' \in Sentences!Masks
    BY <1>2 DEF Sentences!ReportSv, Sentences!loc_eng_nmea_generate_sv, Sentences!KeptDop
  <2>2. reports' \in 0..MaxReports /\ 0 \in 0..reports' /\ reports' \in 0..reports'
    BY <1>1, <2>1
  <2> QED
    BY <2>1, <2>2 DEF KeptLast, Sentences!TypeOK
<1>3. CASE Sentences!ReportPosition
  <2>1. /\ reports' = reports /\ dop' \in {0, dop} /\ usedFrom' \in {0, usedFrom}
        /\ gps_used_mask' \in {{}, gps_used_mask} /\ glo_used_mask' \in {{}, glo_used_mask}
    BY <1>3 DEF Sentences!ReportPosition, Sentences!loc_eng_nmea_generate_pos
  <2>2. {} \in Sentences!Masks /\ 0 \in 0..reports /\ reports \in 0..reports
    BY <1>1 DEF Sentences!Masks
  <2> QED
    BY <1>1, <2>1, <2>2 DEF KeptLast, Sentences!TypeOK
<1>4. CASE UNCHANGED Sentences!vars
  BY <1>4 DEF Sentences!vars, KeptLast, Sentences!TypeOK
<1> QED
  BY <1>2, <1>3, <1>4 DEF Sentences!Next

(* DopMatchesSats: whatever reports and positions come, the precision and  *)
(* the satellites that a position is sent with are of one report           *)
(* (loc_eng_nmea_generate_sv and loc_eng_nmea_generate_pos).               *)
THEOREM PrecisionOfSatellites == HalSpec => [](Sentences!TypeOK /\ Sentences!DopMatchesSats)
<1>1. HalInit => KeptLast
  <2> SUFFICES ASSUME Sentences!Init PROVE KeptLast
    BY DEF HalInit
  <2> QED
    BY ReportsNat DEF Sentences!Init, KeptLast, Sentences!TypeOK, Sentences!Masks
<1>2. [HalNext]_halVars => [Sentences!Next]_(Sentences!vars)
  BY DEF HalNext, halVars, nmeaVars, Sentences!vars
<1>3. KeptLast /\ [HalNext]_halVars => KeptLast'
  BY <1>2, KeptLastInv
<1>4. KeptLast => Sentences!TypeOK /\ Sentences!DopMatchesSats
  BY DEF KeptLast, Sentences!DopMatchesSats
<1> QED
  BY <1>1, <1>3, <1>4, PTL DEF HalSpec
-----------------------------------------------------------------------------
(* The sentences of a satellite report.  First the first numbers of a set. *)

(* A set of numbers that is not empty and has a bound has a greatest one.   *)
LEMMA GreatestOf ==
    ASSUME NEW T \in SUBSET Nat, T # {}, NEW b \in Nat, \A j \in T : j <= b
    PROVE  \E m \in T : \A j \in T : j <= m
<1> DEFINE B == {n \in Nat : \A j \in T : j <= n}
<1>1. B \in SUBSET Nat /\ b \in B
  OBVIOUS
<1>2. PICK m \in B : \A n \in B : m <= n
  <2> HIDE DEF B
  <2> QED BY <1>1, LeastOf
<1>3. m \in Nat /\ \A j \in T : j <= m
  BY <1>2
<1>4. m \in T
  <2> SUFFICES ASSUME m \notin T PROVE FALSE
    OBVIOUS
  <2>1. \A j \in T : j < m
    BY <1>3
  <2>2. m - 1 \in Nat /\ \A j \in T : j <= m - 1
    <3>1. PICK t \in T : t \in Nat
      OBVIOUS
    <3>2. t < m
      BY <2>1
    <3>3. m - 1 \in Nat
      BY <1>3, <3>1, <3>2
    <3>4. ASSUME NEW j \in T PROVE j <= m - 1
      <4>1. j < m /\ j \in Nat
        BY <2>1
      <4> QED BY <1>3, <4>1
    <3> QED BY <3>3, <3>4
  <2> QED BY <1>2, <1>3, <2>2
<1> QED BY <1>3, <1>4

LEMMA CardinalityIs == \A S : Sentences!Cardinality(S) = Cardinality(S)
  BY DEF Sentences!Cardinality, Cardinality

(* The members of S below x, and what FirstOf takes of S.                  *)
Below(S, x) == {y \in S : y < x}

LEMMA FirstOfIs ==
    ASSUME NEW S, NEW n
    PROVE  Sentences!FirstOf(S, n) = {x \in S : Cardinality(Below(S, x)) < n}
  BY CardinalityIs DEF Sentences!FirstOf, Below

(* The first n are at most n and come before the others; they are n unless *)
(* they are all; and there is a first one.                                 *)
LEMMA FirstOfProperties ==
    ASSUME NEW S \in SUBSET Nat, NEW b \in Nat, \A j \in S : j <= b, NEW n \in Nat
    PROVE  /\ Sentences!FirstOf(S, n) \in SUBSET S
           /\ \A x \in Sentences!FirstOf(S, n), y \in S \ Sentences!FirstOf(S, n) : x < y
           /\ IsFiniteSet(Sentences!FirstOf(S, n))
           /\ Cardinality(Sentences!FirstOf(S, n)) <= n
           /\ Cardinality(Sentences!FirstOf(S, n)) < n => Sentences!FirstOf(S, n) = S
           /\ n # 0 /\ S # {} => Sentences!FirstOf(S, n) # {}
<1>1. PICK F : F = Sentences!FirstOf(S, n)
  OBVIOUS
<1>2. F = {x \in S : Cardinality(Below(S, x)) < n}
  BY <1>1, FirstOfIs
<1>3. \A T \in SUBSET S : IsFiniteSet(T) /\ Cardinality(T) \in Nat
  <2> TAKE T \in SUBSET S
  <2>1. T \in SUBSET Nat /\ \A s \in T : s <= b
    OBVIOUS
  <2>2. IsFiniteSet(T)
    BY <2>1, FS_BoundedSetOfNaturals
  <2> QED BY <2>2, FS_CardinalityType
<1>4. \A x : Below(S, x) \in SUBSET S
  BY DEF Below
<1>5. \A T, U \in SUBSET S : T \in SUBSET U => Cardinality(T) <= Cardinality(U)
  BY <1>3, FS_Subset
<1>6. ASSUME NEW x \in F, NEW y \in S, y < x PROVE y \in F
  <2>1. x \in S /\ x \in Nat /\ y \in Nat /\ Cardinality(Below(S, x)) < n
    BY <1>2
  <2>2. Below(S, y) \in SUBSET Below(S, x)
    <3>1. \A z \in S : z \in Nat
      OBVIOUS
    <3>2. \A z \in S : z < y => z < x
      BY <1>6, <2>1, <3>1
    <3> QED BY <3>2 DEF Below
  <2>3. Cardinality(Below(S, y)) <= Cardinality(Below(S, x))
    BY <1>4, <1>5, <2>2
  <2>4. Cardinality(Below(S, y)) \in Nat /\ Cardinality(Below(S, x)) \in Nat
    BY <1>3, <1>4
  <2>5. Cardinality(Below(S, y)) < n
    BY <2>1, <2>3, <2>4
  <2> QED BY <1>2, <2>5
<1>7. F \in SUBSET S
  BY <1>2
<1>8. \A x \in F, y \in S \ F : x < y
  <2> TAKE x \in F, y \in S \ F
  <2>1. x \in Nat /\ y \in Nat /\ x # y
    BY <1>7
  <2>2. ~(y < x)
    BY <1>6
  <2> QED BY <2>1, <2>2
<1>9. Cardinality(F) <= n
  <2>1. CASE F = {}
    <3>1. Cardinality(F) = 0
      BY <2>1, FS_EmptySet
    <3> QED BY <3>1
  <2>2. CASE F # {}
    <3>1. F \in SUBSET Nat /\ \A j \in F : j <= b
      BY <1>7
    <3>2. PICK x \in F : \A j \in F : j <= x
      BY <2>2, <3>1, GreatestOf
    <3>3. F = Below(S, x) \cup {x}
      <4>1. \A j \in F : j \in Below(S, x) \cup {x}
        BY <1>7, <3>1, <3>2 DEF Below
      <4>2. \A j \in Below(S, x) : j \in F
        BY <1>6 DEF Below
      <4> QED BY <4>1, <4>2
    <3>4. x \notin Below(S, x)
      BY <3>1 DEF Below
    <3>5. IsFiniteSet(Below(S, x)) /\ Cardinality(Below(S, x)) \in Nat
      BY <1>3, <1>4
    <3>6. Cardinality(Below(S, x) \cup {x}) = Cardinality(Below(S, x)) + 1
      BY <3>4, <3>5, FS_AddElement
    <3>7. Cardinality(Below(S, x)) < n
      BY <1>2
    <3> QED BY <3>3, <3>5, <3>6, <3>7
  <2> QED BY <2>1, <2>2
<1>10. ASSUME F # S PROVE Cardinality(F) >= n
  <2>1. S \ F \in SUBSET Nat /\ S \ F # {}
    BY <1>7, <1>10
  <2>2. PICK x \in S \ F : \A j \in S \ F : x <= j
    BY <2>1, LeastOf
  <2>3. Below(S, x) \in SUBSET F
    BY <2>1, <2>2 DEF Below
  <2>4. Cardinality(Below(S, x)) <= Cardinality(F)
    BY <1>4, <1>5, <1>7, <2>3
  <2>5. Cardinality(Below(S, x)) \in Nat /\ Cardinality(F) \in Nat
    BY <1>3, <1>4, <1>7
  <2>6. ~(Cardinality(Below(S, x)) < n)
    BY <1>2, <2>2
  <2> QED BY <2>4, <2>5, <2>6
<1>11. ASSUME n # 0, S # {} PROVE F # {}
  <2>1. PICK x \in S : \A j \in S : x <= j
    BY <1>11, LeastOf
  <2>2. Below(S, x) = {}
    <3>1. \A y \in S : y \in Nat /\ x \in Nat
      OBVIOUS
    <3>2. \A y \in S : ~(y < x)
      BY <2>1, <3>1
    <3> QED BY <3>2 DEF Below
  <2>3. Cardinality(Below(S, x)) = 0
    BY <2>2, FS_EmptySet
  <2> QED BY <1>2, <1>11, <2>3
<1>12. IsFiniteSet(F) /\ Cardinality(F) \in Nat
  BY <1>3, <1>7
<1>13. Cardinality(F) < n => F = S
  BY <1>10, <1>12
<1> QED BY <1>1, <1>7, <1>8, <1>9, <1>11, <1>12, <1>13
(* The satellites of kind k from the m-th on; a sentence lists four of     *)
(* them at most, and the next begins with those it leaves.                 *)
Mine(k, m) == {i \in m..Len(view) : view[i] = k}
InView == view \in Seq(Sentences!Kinds)

LEMMA MineIs ==
    ASSUME InView, NEW k, NEW m \in Nat \ {0}
    PROVE  /\ Mine(k, m) \in SUBSET Nat /\ Len(view) \in Nat
           /\ \A i \in Mine(k, m) : i <= Len(view)
           /\ IsFiniteSet(Mine(k, m)) /\ Cardinality(Mine(k, m)) \in Nat
<1>1. Len(view) \in Nat
  BY DEF InView
<1>2. Mine(k, m) \in SUBSET Nat /\ \A i \in Mine(k, m) : i <= Len(view)
  BY <1>1 DEF Mine
<1>3. IsFiniteSet(Mine(k, m))
  BY <1>1, <1>2, FS_BoundedSetOfNaturals
<1> QED BY <1>1, <1>2, <1>3, FS_CardinalityType

LEMMA ListedIs ==
    ASSUME InView, NEW k, NEW m \in Nat \ {0}, m <= Len(view) + 1
    PROVE  /\ Sentences!Listed(k, m) \in SUBSET Mine(k, m)
           /\ Cardinality(Sentences!Listed(k, m)) <= 4
           /\ Mine(k, m) # {} => Sentences!Listed(k, m) # {}
           /\ Sentences!Behind(k, m) \in Nat \ {0}
           /\ m <= Sentences!Behind(k, m) /\ Sentences!Behind(k, m) <= Len(view) + 1
           /\ \A i \in Sentences!Listed(k, m) : i < Sentences!Behind(k, m)
           /\ Mine(k, Sentences!Behind(k, m)) = Mine(k, m) \ Sentences!Listed(k, m)
           /\ Cardinality(Mine(k, Sentences!Behind(k, m)))
                = IF Cardinality(Mine(k, m)) < 4 THEN 0 ELSE Cardinality(Mine(k, m)) - 4
<1>1. PICK R, F, b : R = Mine(k, m) /\ F = Sentences!Listed(k, m) /\ b = Sentences!Behind(k, m)
  OBVIOUS
<1>2. /\ R \in SUBSET Nat /\ Len(view) \in Nat /\ \A i \in R : i <= Len(view)
      /\ IsFiniteSet(R) /\ Cardinality(R) \in Nat
  BY <1>1, MineIs
<1>3. F = Sentences!FirstOf(R, 4)
  BY <1>1 DEF Sentences!Listed, Mine
<1>4. /\ F \in SUBSET R /\ \A x \in F, y \in R \ F : x < y
      /\ IsFiniteSet(F) /\ Cardinality(F) <= 4
      /\ Cardinality(F) < 4 => F = R
      /\ R # {} => F # {}
  <2>1. PICK total \in Nat : \A j \in R : j <= total
    BY <1>2
  <2>2. PICK four \in Nat : four = 4
    OBVIOUS
  <2>3. PICK G : G = Sentences!FirstOf(R, four)
    OBVIOUS
  <2>4. /\ G \in SUBSET R /\ \A x \in G, y \in R \ G : x < y
        /\ IsFiniteSet(G) /\ Cardinality(G) <= four
        /\ Cardinality(G) < four => G = R
        /\ four # 0 /\ R # {} => G # {}
    BY <1>2, <2>1, <2>3, FirstOfProperties
  <2> QED BY <1>3, <2>2, <2>3, <2>4
<1>5. Cardinality(F) \in Nat
  BY <1>4, FS_CardinalityType
<1>6. \A i \in R : i \in m..Len(view) /\ view[i] = k
  BY <1>1 DEF Mine
<1>7. CASE Cardinality(F) < 4
  <2>1. b = Len(view) + 1
    BY <1>1, <1>7, CardinalityIs DEF Sentences!Behind
  <2>2. Mine(k, b) = {} /\ R \ F = {} /\ Cardinality(R) < 4
    BY <1>2, <1>4, <1>7, <2>1 DEF Mine
  <2>3. Cardinality(Mine(k, b)) = 0
    BY <2>2, FS_EmptySet
  <2>4. \A i \in F : i < b
    BY <1>2, <1>4, <2>1
  <2> QED BY <1>1, <1>2, <1>4, <2>1, <2>2, <2>3, <2>4
<1>8. CASE Cardinality(F) = 4
  <2>1. F # {} /\ F \in SUBSET Nat /\ \A i \in F : i <= Len(view)
    <3>1. F # {}
      BY <1>8, FS_EmptySet
    <3> QED BY <1>2, <1>4, <3>1
  <2>2. \E i \in F : \A j \in F : j <= i
    BY <1>2, <2>1, GreatestOf
  <2>3. PICK top : top = CHOOSE i \in F : \A j \in F : j <= i
    OBVIOUS
  <2>4. top \in F /\ \A j \in F : j <= top
    BY <2>2, <2>3
  <2>5. b = 1 + top
    BY <1>1, <1>8, <2>3, CardinalityIs DEF Sentences!Behind
  <2>6. top \in m..Len(view) /\ top \in Nat
    BY <1>2, <1>4, <1>6, <2>4
  <2>7. b \in Nat \ {0} /\ m <= b /\ b <= Len(view) + 1 /\ \A i \in F : i < b
    BY <1>2, <2>1, <2>4, <2>5, <2>6
  <2>8. Mine(k, b) = R \ F
    <3>1. ASSUME NEW i \in Mine(k, b) PROVE i \in R \ F
      <4>1. i \in b..Len(view) /\ view[i] = k
        BY <3>1 DEF Mine
      <4>2. i \in R
        BY <1>1, <1>2, <2>7, <4>1 DEF Mine
      <4> QED BY <1>2, <2>7, <4>1, <4>2
    <3>2. ASSUME NEW i \in R \ F PROVE i \in Mine(k, b)
      <4>1. top < i /\ i \in m..Len(view) /\ view[i] = k
        BY <1>4, <1>6, <2>4, <3>2
      <4>2. i \in b..Len(view)
        BY <1>2, <2>5, <2>6, <4>1
      <4> QED BY <4>1, <4>2 DEF Mine
    <3> QED BY <3>1, <3>2
  <2>9. Cardinality(R) >= 4
    <3>1. F \in SUBSET R
      BY <1>4
    <3>2. Cardinality(F) <= Cardinality(R)
      BY <1>2, <3>1, FS_Subset
    <3> QED BY <1>2, <1>8, <3>2
  <2>10. Cardinality(R \ F) = Cardinality(R) - 4
    <3>1. Cardinality(R \ F) = Cardinality(R) - Cardinality(R \cap F)
      BY <1>2, FS_Difference
    <3>2. R \cap F = F
      BY <1>4
    <3> QED BY <1>8, <3>1, <3>2
  <2> QED BY <1>1, <1>2, <1>4, <2>7, <2>8, <2>9, <2>10
<1> QED BY <1>4, <1>5, <1>7, <1>8

(* From is the function it says.                                           *)
FromUpTo(k, n, f) ==
  f = [m \in 1..n |-> IF m = 1 THEN 1 ELSE Sentences!Behind(k, f[m - 1])]

LEMMA FromExists == ASSUME NEW k, NEW len \in Nat PROVE \E f : FromUpTo(k, len, f)
<1> DEFINE T == {n \in Nat : ~\E f : FromUpTo(k, n, f)}
<1>1. ASSUME T # {} PROVE FALSE
  <2>1. PICK n \in T : \A j \in T : n <= j
    BY <1>1, LeastOf
  <2>2. n \in Nat /\ ~\E f : FromUpTo(k, n, f)
    BY <2>1
  <2>3. n # 0
    <3>1. FromUpTo(k, 0, [j \in 1..0 |-> 1])
      BY DEF FromUpTo
    <3> QED BY <2>2, <3>1
  <2>4. n - 1 \in Nat /\ n - 1 \notin T
    BY <2>1, <2>2, <2>3
  <2>5. PICK f : FromUpTo(k, n - 1, f)
    BY <2>4
  <2> DEFINE g == [j \in 1..n |-> IF j = n
                                  THEN IF n = 1 THEN 1 ELSE Sentences!Behind(k, f[n - 1])
                                  ELSE f[j]]
  <2>6. \A j \in 1..(n - 1) : g[j] = f[j]
    BY <2>2, <2>3
  <2>7. ASSUME NEW j \in 1..n
        PROVE  g[j] = IF j = 1 THEN 1 ELSE Sentences!Behind(k, g[j - 1])
    <3>1. CASE j = n
      BY <2>2, <2>3, <2>6, <3>1
    <3>2. CASE j # n
      <4>1. j \in 1..(n - 1) /\ (j # 1 => j - 1 \in 1..(n - 1))
        BY <2>2, <3>2
      <4>2. f[j] = IF j = 1 THEN 1 ELSE Sentences!Behind(k, f[j - 1])
        BY <2>5, <4>1 DEF FromUpTo
      <4> QED BY <2>6, <4>1, <4>2
    <3> QED BY <3>1, <3>2
  <2>8. FromUpTo(k, n, g)
    <3> HIDE DEF g
    <3>1. g = [j \in 1..n |-> g[j]]
      BY DEF g
    <3> QED BY <2>7, <3>1 DEF FromUpTo
  <2> QED BY <2>2, <2>8
<1> QED BY <1>1

LEMMA FromIs ==
    ASSUME InView, NEW k
    PROVE  /\ Sentences!From(k)[1] = 1
           /\ \A n \in 2..Len(view) + 1 :
                Sentences!From(k)[n] = Sentences!Behind(k, Sentences!From(k)[n - 1])
<1>1. Len(view) \in Nat /\ Len(view) + 1 \in Nat
  BY DEF InView
<1>2. \E f : FromUpTo(k, Len(view) + 1, f)
  BY <1>1, FromExists
<1>3. FromUpTo(k, Len(view) + 1, CHOOSE f : FromUpTo(k, Len(view) + 1, f))
  BY <1>2
<1>4. Sentences!From(k) = CHOOSE f : FromUpTo(k, Len(view) + 1, f)
  BY DEF Sentences!From, FromUpTo
<1>5. PICK f : f = Sentences!From(k) /\ FromUpTo(k, Len(view) + 1, f)
  BY <1>3, <1>4
<1>6. 1 \in 1..Len(view) + 1 /\ \A n \in 2..Len(view) + 1 : n \in 1..Len(view) + 1 /\ n # 1
  BY <1>1
<1>7. \A n \in 1..Len(view) + 1 : f[n] = IF n = 1 THEN 1 ELSE Sentences!Behind(k, f[n - 1])
  BY <1>5 DEF FromUpTo
<1> QED BY <1>5, <1>6, <1>7
(* Where the n-th sentence begins, four satellites are listed in each      *)
(* sentence before it, or all are.                                         *)
Walked(k, n) ==
  /\ Sentences!From(k)[n] \in Nat \ {0} /\ Sentences!From(k)[n] <= Len(view) + 1
  /\ Cardinality(Mine(k, Sentences!From(k)[n]))
       = IF Cardinality(Mine(k, 1)) < 4 * (n - 1) THEN 0 ELSE Cardinality(Mine(k, 1)) - 4 * (n - 1)

LEMMA Walks == ASSUME InView, NEW k PROVE \A n \in 1..Len(view) + 1 : Walked(k, n)
<1> DEFINE T == {n \in 1..Len(view) + 1 : ~Walked(k, n)}
<1>1. Len(view) \in Nat
  BY DEF InView
<1>2. ASSUME T # {} PROVE FALSE
  <2>1. PICK n \in T : \A j \in T : n <= j
    <3>1. T \in SUBSET Nat
      BY <1>1
    <3> HIDE DEF T
    <3> QED BY <1>2, <3>1, LeastOf
  <2>2. PICK count : count = Cardinality(Mine(k, 1))
    OBVIOUS
  <2>3. count \in Nat
    BY <2>2, MineIs
  <2>4. n # 1
    <3>1. Sentences!From(k)[1] = 1
      BY FromIs
    <3> QED BY <1>1, <2>1, <2>2, <2>3, <3>1 DEF Walked
  <2>5. n \in 2..Len(view) + 1 /\ n - 1 \in 1..Len(view) + 1 /\ n - 1 \notin T
    BY <1>1, <2>1, <2>4
  <2>6. Walked(k, n - 1)
    BY <2>5
  <2>7. PICK m, b : m = Sentences!From(k)[n - 1] /\ b = Sentences!From(k)[n]
    OBVIOUS
  <2>8. /\ m \in Nat \ {0} /\ m <= Len(view) + 1
        /\ Cardinality(Mine(k, m)) = IF count < 4 * (n - 2) THEN 0 ELSE count - 4 * (n - 2)
    BY <2>2, <2>5, <2>6, <2>7 DEF Walked
  <2>9. b = Sentences!Behind(k, m)
    BY <2>5, <2>7, FromIs
  <2>10. /\ b \in Nat \ {0} /\ b <= Len(view) + 1
         /\ Cardinality(Mine(k, b))
              = IF Cardinality(Mine(k, m)) < 4 THEN 0 ELSE Cardinality(Mine(k, m)) - 4
    BY <2>8, <2>9, ListedIs
  <2>11. Cardinality(Mine(k, b)) = IF count < 4 * (n - 1) THEN 0 ELSE count - 4 * (n - 1)
    BY <2>3, <2>5, <2>8, <2>10
  <2>12. Walked(k, n)
    BY <2>2, <2>7, <2>10, <2>11 DEF Walked
  <2> QED BY <2>1, <2>12
<1> QED BY <1>2

(* A sentence begins behind all that the ones before it list.              *)
LEMMA Ascends ==
    ASSUME InView, NEW k, NEW p \in 1..Len(view) + 1, NEW n \in p..Len(view) + 1
    PROVE  Sentences!From(k)[p] <= Sentences!From(k)[n]
<1> DEFINE T == {i \in p..Len(view) + 1 : ~(Sentences!From(k)[p] <= Sentences!From(k)[i])}
<1>1. Len(view) \in Nat /\ p \in Nat
  BY DEF InView
<1>2. ASSUME T # {} PROVE FALSE
  <2>1. PICK i \in T : \A j \in T : i <= j
    <3>1. T \in SUBSET Nat
      BY <1>1
    <3> HIDE DEF T
    <3> QED BY <1>2, <3>1, LeastOf
  <2>2. Sentences!From(k)[p] \in Nat
    BY Walks DEF Walked
  <2>3. i # p
    BY <2>1, <2>2
  <2>4. i - 1 \in p..Len(view) + 1 /\ i - 1 \notin T /\ i \in 2..Len(view) + 1
        /\ i - 1 \in 1..Len(view) + 1
    BY <1>1, <2>1, <2>3
  <2>5. PICK a, m, b : /\ a = Sentences!From(k)[p] /\ m = Sentences!From(k)[i - 1]
                       /\ b = Sentences!From(k)[i]
    OBVIOUS
  <2>6. a <= m /\ ~(a <= b)
    BY <2>1, <2>4, <2>5
  <2>7. m \in Nat \ {0} /\ m <= Len(view) + 1
    BY <2>4, <2>5, Walks DEF Walked
  <2>8. b = Sentences!Behind(k, m)
    BY <2>4, <2>5, FromIs
  <2>9. m <= b /\ b \in Nat
    BY <2>7, <2>8, ListedIs
  <2> QED BY <2>2, <2>5, <2>6, <2>7, <2>9
<1>3. p \in p..Len(view) + 1 /\ n \notin T
  BY <1>1, <1>2
<1> QED BY <1>3

(* What GsvComplete asks of the sentences g of a kind, taken by themselves. *)
Complete(k, g) ==
  /\ Len(g) \in Nat /\ DOMAIN g = 1..Len(g) /\ Len(g) # 0 /\ \E V : g \in Seq(V)
  /\ UNION {g[n].svs : n \in 1..Len(g)} = Mine(k, 1)
  /\ \A m, n \in 1..Len(g) : m < n => \A i \in g[m].svs, j \in g[n].svs : i < j
  /\ \A n \in 1..Len(g) : /\ g[n].kind = k /\ g[n].number = n /\ g[n].of = Len(g)
                          /\ Cardinality(g[n].svs) <= 4
                          /\ Mine(k, 1) # {} => g[n].svs # {}

LEMMA GsvIs == ASSUME InView, NEW k PROVE Complete(k, Sentences!Gsv(k))
<1>1. PICK count : count = Cardinality(Mine(k, 1))
  OBVIOUS
<1>2. count \in Nat /\ Len(view) \in Nat /\ IsFiniteSet(Mine(k, 1))
  BY <1>1, MineIs
<1>3. Mine(k, 1) = {i \in DOMAIN view : view[i] = k}
  <2>1. DOMAIN view = 1..Len(view)
    BY DEF InView
  <2> QED BY <2>1 DEF Mine
<1>4. Sentences!Cardinality({i \in DOMAIN view : view[i] = k}) = count
  BY <1>1, <1>3, CardinalityIs
<1>5. CASE count = 0
  <2>1. Sentences!Gsv(k) = <<[kind |-> k, number |-> 1, of |-> 1, svs |-> {}]>>
    BY <1>4, <1>5 DEF Sentences!Gsv
  <2>2. PICK g : g = Sentences!Gsv(k)
    OBVIOUS
  <2>3. /\ Len(g) = 1 /\ DOMAIN g = 1..1 /\ g[1].kind = k /\ g[1].number = 1 /\ g[1].of = 1
        /\ g[1].svs = {}
    BY <2>1, <2>2
  <2>4. Mine(k, 1) = {}
    BY <1>1, <1>2, <1>5, FS_EmptySet
  <2>5. Cardinality(g[1].svs) = 0
    BY <2>3, FS_EmptySet
  <2>6. UNION {g[n].svs : n \in 1..1} = {}
    BY <2>3
  <2>7. g \in Seq({g[1]})
    BY <2>1, <2>2
  <2>8. \E V : g \in Seq(V)
    <3>1. PICK V : V = {g[1]}
      OBVIOUS
    <3>2. g \in Seq(V)
      BY <2>7, <3>1
    <3> QED BY <3>2
  <2>9. Complete(k, g)
    <3>1. PICK one : one = Len(g)
      OBVIOUS
    <3>2. one = 1 /\ 1..one = {1}
      BY <2>3, <3>1
    <3>3. one \in Nat /\ DOMAIN g = 1..one /\ one # 0
      BY <2>3, <3>2
    <3>4. UNION {g[n].svs : n \in 1..one} = Mine(k, 1)
      BY <2>3, <2>4, <3>2
    <3>5. \A m, n \in 1..one : m < n => \A i \in g[m].svs, j \in g[n].svs : i < j
      BY <2>3, <3>2
    <3>6. \A n \in 1..one : /\ g[n].kind = k /\ g[n].number = n /\ g[n].of = one
                            /\ Cardinality(g[n].svs) <= 4
                            /\ Mine(k, 1) # {} => g[n].svs # {}
      BY <2>3, <2>4, <2>5, <3>2
    <3> QED BY <2>8, <3>1, <3>3, <3>4, <3>5, <3>6 DEF Complete
  <2> QED BY <2>2, <2>9
<1>6. CASE count # 0
  <2>1. PICK total : total = (count + 3) \div 4
    OBVIOUS
  <2>2. total \in Nat \ {0} /\ 4 * total <= count + 3 /\ count <= 4 * total
    BY <1>2, <1>6, <2>1
  <2>3. total <= count /\ count <= Len(view)
    <3>1. total <= count
      BY <1>2, <1>6, <2>2
    <3>2. Mine(k, 1) \in SUBSET (1..Len(view))
      BY DEF Mine
    <3>3. IsFiniteSet(1..Len(view)) /\ Cardinality(1..Len(view)) = Len(view)
      <4>1. PICK N \in Nat : N = Len(view)
        BY <1>2
      <4>2. IsFiniteSet(1..N) /\ Cardinality(1..N) = IF 1 > N THEN 0 ELSE N - 1 + 1
        BY FS_Interval
      <4>3. Cardinality(1..N) = N
        BY <4>2
      <4> QED BY <4>1, <4>2, <4>3
    <3>4. Cardinality(Mine(k, 1)) <= Cardinality(1..Len(view))
      BY <3>2, <3>3, FS_Subset
    <3> QED BY <1>1, <3>1, <3>3, <3>4
  <2>4. Sentences!Gsv(k) = [n \in 1..total |-> [kind |-> k, number |-> n, of |-> total,
                                   svs |-> Sentences!Listed(k, Sentences!From(k)[n])]]
    BY <1>4, <1>6, <2>1 DEF Sentences!Gsv
  <2>5. PICK g : g = Sentences!Gsv(k)
    OBVIOUS
  <2>6. Len(g) = total /\ DOMAIN g = 1..total
    BY <2>2, <2>4, <2>5
  <2>7. \A n \in 1..total : /\ g[n].kind = k /\ g[n].number = n /\ g[n].of = total
                            /\ g[n].svs = Sentences!Listed(k, Sentences!From(k)[n])
    BY <2>4, <2>5
  <2>8. PICK fr : fr = Sentences!From(k)
    OBVIOUS
  <2>9. ASSUME NEW n \in 1..total
        PROVE  /\ g[n].svs \in SUBSET Mine(k, fr[n]) /\ Cardinality(g[n].svs) <= 4
               /\ g[n].svs # {} /\ n \in 1..Len(view) + 1 /\ n + 1 \in 1..Len(view) + 1
               /\ \A i \in g[n].svs : i < fr[n + 1]
               /\ Mine(k, fr[n + 1]) = Mine(k, fr[n]) \ g[n].svs
               /\ fr[n] \in Nat \ {0} /\ fr[n + 1] \in Nat \ {0}
    <3>1. n \in 1..Len(view) + 1 /\ n + 1 \in 2..Len(view) + 1 /\ n + 1 \in 1..Len(view) + 1
      BY <1>2, <2>2, <2>3
    <3>2. PICK m, b : m = fr[n] /\ b = fr[n + 1]
      OBVIOUS
    <3>3. /\ m \in Nat \ {0} /\ m <= Len(view) + 1
          /\ Cardinality(Mine(k, m)) = IF count < 4 * (n - 1) THEN 0 ELSE count - 4 * (n - 1)
      BY <1>1, <2>8, <3>1, <3>2, Walks DEF Walked
    <3>4. b = Sentences!Behind(k, m)
      <4>1. \A j \in 2..Len(view) + 1 : fr[j] = Sentences!Behind(k, fr[j - 1])
        BY <2>8, FromIs
      <4>2. fr[n + 1] = Sentences!Behind(k, fr[n + 1 - 1]) /\ n + 1 - 1 = n
        BY <3>1, <4>1
      <4> QED BY <3>2, <4>2
    <3>5. g[n].svs = Sentences!Listed(k, m)
      BY <2>7, <2>8, <3>2
    <3>6. Mine(k, m) # {}
      <4>1. Cardinality(Mine(k, m)) # 0
        BY <1>2, <2>2, <3>3
      <4> QED BY <4>1, FS_EmptySet
    <3> QED BY <3>1, <3>2, <3>3, <3>4, <3>5, <3>6, ListedIs
  <2>10. \A n \in 1..total : g[n].svs \in SUBSET Mine(k, 1)
    <3> TAKE n \in 1..total
    <3>1. g[n].svs \in SUBSET Mine(k, fr[n]) /\ fr[n] \in Nat \ {0}
      BY <2>9
    <3>2. Mine(k, fr[n]) \in SUBSET Mine(k, 1)
      BY <1>2, <3>1 DEF Mine
    <3> QED BY <3>1, <3>2
  <2>11. ASSUME NEW i \in Mine(k, 1) PROVE \E n \in 1..total : i \in g[n].svs
    <3> DEFINE T == {n \in 1..total + 1 : i \notin Mine(k, fr[n])}
    <3>1. total + 1 \in T
      <4>1. total + 1 \in 1..Len(view) + 1 /\ total + 1 \in 1..total + 1
        BY <1>2, <2>2, <2>3
      <4>2. PICK p, m : p = total + 1 /\ m = fr[p]
        OBVIOUS
      <4>3. /\ m \in Nat \ {0}
            /\ Cardinality(Mine(k, m)) = IF count < 4 * (p - 1) THEN 0 ELSE count - 4 * (p - 1)
        <5>1. Walked(k, p)
          BY <4>1, <4>2, Walks
        <5> QED BY <1>1, <2>8, <4>2, <5>1 DEF Walked
      <4>4. Cardinality(Mine(k, m)) = 0
        BY <1>2, <2>2, <4>2, <4>3
      <4>5. Mine(k, m) = {}
        BY <4>3, <4>4, MineIs, FS_EmptySet
      <4> QED BY <4>1, <4>2, <4>5
    <3>2. PICK n \in T : \A j \in T : n <= j
      <4>1. T \in SUBSET Nat /\ T # {}
        BY <2>2, <3>1
      <4> HIDE DEF T
      <4> QED BY <4>1, LeastOf
    <3>3. n # 1
      <4>1. fr[1] = 1
        BY <2>8, FromIs
      <4> QED BY <2>11, <3>2, <4>1
    <3>4. n - 1 \in 1..total /\ n - 1 + 1 = n /\ n - 1 \notin T /\ n - 1 \in 1..total + 1
      BY <2>2, <3>2, <3>3
    <3>5. i \in Mine(k, fr[n - 1]) /\ i \notin Mine(k, fr[n])
      BY <3>2, <3>4
    <3>6. Mine(k, fr[n - 1 + 1]) = Mine(k, fr[n - 1]) \ g[n - 1].svs
      BY <2>9, <3>4
    <3>7. i \in g[n - 1].svs
      BY <3>4, <3>5, <3>6
    <3> QED BY <3>4, <3>7
  <2>12. UNION {g[n].svs : n \in 1..total} = Mine(k, 1)
    BY <2>10, <2>11
  <2>13. ASSUME NEW m \in 1..total, NEW n \in 1..total, m < n, NEW i \in g[m].svs, NEW j \in g[n].svs
         PROVE  i < j
    <3>1. i < fr[m + 1] /\ i \in Mine(k, fr[m]) /\ m + 1 \in 1..Len(view) + 1
          /\ fr[m + 1] \in Nat /\ fr[m] \in Nat \ {0}
      BY <2>9
    <3>2. j \in Mine(k, fr[n]) /\ fr[n] \in Nat \ {0} /\ n \in 1..Len(view) + 1
      BY <2>9
    <3>3. n \in m + 1..Len(view) + 1
      BY <1>2, <2>2, <2>13, <3>2
    <3>4. fr[m + 1] <= fr[n]
      BY <2>8, <3>1, <3>3, Ascends
    <3>5. fr[n] <= j /\ j \in Nat /\ i \in Nat
      BY <1>2, <3>1, <3>2 DEF Mine
    <3> QED BY <3>1, <3>2, <3>4, <3>5
  <2>14. Complete(k, g)
    <3>1. Len(g) \in Nat /\ DOMAIN g = 1..Len(g) /\ Len(g) # 0
      BY <2>2, <2>6
    <3>5. \E V : g \in Seq(V)
      <4>1. g \in [1..total -> {g[n] : n \in 1..total}]
        BY <2>4, <2>5
      <4>2. PICK V : V = {g[n] : n \in 1..total}
        OBVIOUS
      <4>3. g \in Seq(V)
        BY <2>2, <4>1, <4>2
      <4> QED BY <4>3
    <3>2. UNION {g[n].svs : n \in 1..Len(g)} = Mine(k, 1)
      BY <2>6, <2>12
    <3>3. \A m, n \in 1..Len(g) : m < n => \A i \in g[m].svs, j \in g[n].svs : i < j
      BY <2>6, <2>13
    <3>4. \A n \in 1..Len(g) : /\ g[n].kind = k /\ g[n].number = n /\ g[n].of = Len(g)
                               /\ Cardinality(g[n].svs) <= 4
                               /\ Mine(k, 1) # {} => g[n].svs # {}
      BY <2>6, <2>7, <2>9
    <3> QED BY <3>1, <3>2, <3>3, <3>4, <3>5 DEF Complete
  <2> QED BY <2>5, <2>14
<1> QED BY <1>5, <1>6
(* What GsvComplete asks of the sentences of kind k among s, and that they  *)
(* are so when they are complete by themselves and stand in a row.         *)
ListsIn(k, s, mine) ==
  /\ UNION {s[n].svs : n \in mine} = Mine(k, 1)
  /\ \A m, n \in mine : m < n => \A i \in s[m].svs, j \in s[n].svs : i < j
  /\ \A n \in mine : Cardinality(s[n].svs) <= 4 /\ (Mine(k, 1) # {} => s[n].svs # {})
  /\ \E f, total \in 0..Len(s) :
       /\ mine = f + 1..f + total
       /\ \A n \in mine : s[n].number = n - f /\ s[n].of = total

ListsKind(k, s) == ListsIn(k, s, {n \in DOMAIN s : s[n].kind = k})

(* The sentences g are those of kind k in s, from place f + 1 on.          *)
Placed(k, g, s, f) ==
  /\ f \in Nat /\ Len(s) \in Nat /\ DOMAIN s = 1..Len(s) /\ f + Len(g) <= Len(s)
  /\ \A n \in 1..Len(s) : s[n].kind = k <=> n \in f + 1..f + Len(g)
  /\ \A n \in f + 1..f + Len(g) : s[n] = g[n - f]

LEMMA KindLists ==
    ASSUME NEW k, NEW g, Complete(k, g), NEW s, NEW f, Placed(k, g, s, f)
    PROVE  ListsKind(k, s)
<1>1. PICK total, len : total = Len(g) /\ len = Len(s)
  OBVIOUS
<1>a. /\ f \in Nat /\ len \in Nat /\ DOMAIN s = 1..len /\ f + total <= len
      /\ \A n \in 1..len : s[n].kind = k <=> n \in f + 1..f + total
      /\ \A n \in f + 1..f + total : s[n] = g[n - f]
  BY <1>1 DEF Placed
<1>2. /\ total \in Nat /\ total # 0
      /\ UNION {g[n].svs : n \in 1..total} = Mine(k, 1)
      /\ \A m, n \in 1..total : m < n => \A i \in g[m].svs, j \in g[n].svs : i < j
      /\ \A n \in 1..total : /\ g[n].kind = k /\ g[n].number = n /\ g[n].of = total
                             /\ Cardinality(g[n].svs) <= 4
                             /\ Mine(k, 1) # {} => g[n].svs # {}
  BY <1>1 DEF Complete
<1>3. PICK mine : mine = {n \in DOMAIN s : s[n].kind = k}
  OBVIOUS
<1>4. mine = f + 1..f + total
  <2>1. \A n \in f + 1..f + total : n \in 1..len
    BY <1>2, <1>a
  <2> QED BY <1>3, <1>a, <2>1
<1>5. \A n \in mine : n - f \in 1..total /\ n \in Int /\ s[n] = g[n - f]
  BY <1>2, <1>4, <1>a
<1>6. \A n \in 1..total : f + n \in mine /\ f + n - f = n
  BY <1>2, <1>4, <1>a
<1>7. UNION {s[n].svs : n \in mine} = Mine(k, 1)
  <2>1. \A n \in mine : n - f \in 1..total /\ s[n].svs = g[n - f].svs
    BY <1>5
  <2>2. \A n \in 1..total : f + n \in mine /\ s[f + n].svs = g[n].svs
    <3> TAKE n \in 1..total
    <3>1. PICK m : m = f + n
      OBVIOUS
    <3>2. m \in mine /\ m - f = n
      <4>1. m \in mine
        BY <1>6, <3>1, Zenon
      <4>2. m - f = n
        BY <1>2, <1>a, <3>1
      <4> QED BY <4>1, <4>2
    <3>3. s[m] = g[n]
      BY <1>5, <3>2
    <3> QED BY <3>1, <3>2, <3>3
  <2>3. ASSUME NEW x \in UNION {s[n].svs : n \in mine} PROVE x \in UNION {g[n].svs : n \in 1..total}
    <3>1. PICK n \in mine : x \in s[n].svs
      OBVIOUS
    <3> QED BY <2>1, <3>1, Zenon
  <2>4. ASSUME NEW x \in UNION {g[n].svs : n \in 1..total} PROVE x \in UNION {s[n].svs : n \in mine}
    <3>1. PICK n \in 1..total : x \in g[n].svs
      OBVIOUS
    <3> QED BY <2>2, <3>1, Zenon
  <2>5. UNION {s[n].svs : n \in mine} = UNION {g[n].svs : n \in 1..total}
    BY <2>3, <2>4, Zenon
  <2> QED BY <1>2, <2>5
<1>8. \A m, n \in mine : m < n => \A i \in s[m].svs, j \in s[n].svs : i < j
  <2> TAKE m, n \in mine
  <2> HAVE m < n
  <2>1. m - f \in 1..total /\ n - f \in 1..total /\ m - f < n - f
    BY <1>5, <1>a
  <2>2. s[m].svs = g[m - f].svs /\ s[n].svs = g[n - f].svs
    BY <1>5
  <2> QED BY <1>2, <2>1, <2>2
<1>9. \A n \in mine : Cardinality(s[n].svs) <= 4 /\ (Mine(k, 1) # {} => s[n].svs # {})
  <2> TAKE n \in mine
  <2>1. PICK m : m = n - f
    OBVIOUS
  <2>2. m \in 1..total /\ s[n] = g[m]
    BY <1>5, <2>1
  <2> QED BY <1>2, <2>2
<1>10. f \in 0..len /\ total \in 0..len
  BY <1>2, <1>a
<1>11. \A n \in mine : s[n].number = n - f /\ s[n].of = total
  <2> TAKE n \in mine
  <2>1. PICK m : m = n - f
    OBVIOUS
  <2>2. m \in 1..total /\ s[n] = g[m]
    BY <1>5, <2>1
  <2> QED BY <1>2, <2>1, <2>2
<1>12. \E e, l \in 0..Len(s) :
        /\ mine = e + 1..e + l
        /\ \A n \in mine : s[n].number = n - e /\ s[n].of = l
  BY <1>1, <1>4, <1>10, <1>11, Zenon
<1>13. ListsIn(k, s, mine)
  BY <1>7, <1>8, <1>9, <1>12 DEF ListsIn
<1> QED BY <1>3, <1>13 DEF ListsKind

(* Two sequences in a row, element by element.                             *)
InRow(s, a, b) ==
  /\ DOMAIN s = 1..Len(a) + Len(b)
  /\ Len(s) = Len(a) + Len(b)
  /\ \A n \in 1..Len(a) + Len(b) : s[n] = IF n <= Len(a) THEN a[n] ELSE b[n - Len(a)]

LEMMA InRowIs ==
    ASSUME NEW U, NEW a \in Seq(U), NEW b \in Seq(U)
    PROVE  InRow(a \o b, a, b)
<1>1. PICK s : s = a \o b
  OBVIOUS
<1>2. /\ s \in Seq(U) /\ Len(s) = Len(a) + Len(b)
      /\ \A n \in 1..Len(a) + Len(b) : s[n] = IF n <= Len(a) THEN a[n] ELSE b[n - Len(a)]
  BY <1>1, ConcatProperties, Zenon
<1>3. DOMAIN s = 1..Len(s)
  BY <1>2
<1>4. InRow(s, a, b)
  BY <1>2, <1>3 DEF InRow
<1> QED BY <1>1, <1>4, Zenon

LEMMA BothList ==
    ASSUME InView, NEW s, s = Sentences!Gsv("gps") \o Sentences!Gsv("glo")
    PROVE  ListsKind("gps", s) /\ ListsKind("glo", s)
<1>1. PICK a, b : a = Sentences!Gsv("gps") /\ b = Sentences!Gsv("glo")
  OBVIOUS
<1>2. Complete("gps", a) /\ Complete("glo", b)
  BY <1>1, GsvIs
<1>3. PICK p, q : p = Len(a) /\ q = Len(b)
  OBVIOUS
<1>4. /\ p \in Nat \ {0} /\ q \in Nat \ {0} /\ Len(s) = p + q /\ DOMAIN s = 1..p + q
      /\ \A n \in 1..p : s[n] = a[n]
      /\ \A n \in p + 1..p + q : s[n] = b[n - p]
  <2>1. /\ p \in Nat \ {0} /\ q \in Nat \ {0} /\ DOMAIN a = 1..p /\ DOMAIN b = 1..q
        /\ \E V : a \in Seq(V)
        /\ \E V : b \in Seq(V)
    BY <1>2, <1>3 DEF Complete
  <2>2. PICK V : a \in Seq(V)
    BY <2>1
  <2>3. PICK W : b \in Seq(W)
    BY <2>1
  <2>4. PICK U : U = V \cup W
    OBVIOUS
  <2>5. a \in Seq(U) /\ b \in Seq(U)
    <3>1. V \in SUBSET U /\ W \in SUBSET U
      BY <2>4
    <3> QED BY <2>2, <2>3, <3>1
  <2>6. InRow(s, a, b)
    BY <1>1, <2>5, InRowIs, Zenon
  <2>7. /\ DOMAIN s = 1..p + q /\ Len(s) = p + q
        /\ \A n \in 1..p + q : s[n] = IF n <= p THEN a[n] ELSE b[n - p]
    BY <1>3, <2>6 DEF InRow
  <2>8. \A n \in 1..p : n \in 1..p + q /\ n <= p
    BY <2>1
  <2>9. \A n \in p + 1..p + q : n \in 1..p + q /\ ~(n <= p)
    BY <2>1
  <2> QED BY <2>1, <2>7, <2>8, <2>9
<1>5. /\ \A n \in 1..p : a[n].kind = "gps"
      /\ \A n \in 1..q : b[n].kind = "glo"
  BY <1>2, <1>3 DEF Complete
<1>6. /\ \A n \in 1..p : s[n].kind = "gps"
      /\ \A n \in p + 1..p + q : s[n].kind = "glo"
  <2>1. \A n \in p + 1..p + q : n - p \in 1..q
    BY <1>4
  <2> QED BY <1>4, <1>5, <2>1
<1>7. PICK len \in Nat : len = Len(s) /\ len = p + q
  BY <1>4
<1>8. /\ \A n \in 1..len : s[n].kind = "gps" <=> n \in 0 + 1..0 + p
      /\ \A n \in 1..len : s[n].kind = "glo" <=> n \in p + 1..p + q
  <2> SUFFICES ASSUME NEW n \in 1..len
               PROVE  /\ s[n].kind = "gps" <=> n \in 0 + 1..0 + p
                      /\ s[n].kind = "glo" <=> n \in p + 1..p + q
    OBVIOUS
  <2>1. n \in 1..p \/ n \in p + 1..p + q
    BY <1>4, <1>7
  <2>2. ~(n \in 1..p /\ n \in p + 1..p + q) /\ 0 + 1 = 1 /\ 0 + p = p
    BY <1>4
  <2> QED BY <1>6, <2>1, <2>2
<1>9. ListsKind("gps", s)
  <2>1. PICK f : f = 0
    OBVIOUS
  <2>2. /\ f \in Nat /\ Len(s) \in Nat /\ DOMAIN s = 1..Len(s) /\ f + p <= Len(s)
        /\ \A n \in 1..Len(s) : s[n].kind = "gps" <=> n \in f + 1..f + p
    BY <1>4, <1>7, <1>8, <2>1
  <2>3. \A n \in f + 1..f + p : s[n] = a[n - f]
    <3>1. \A n \in f + 1..f + p : n \in 1..p /\ n - f = n
      BY <1>4, <2>1
    <3> QED BY <1>4, <3>1
  <2>4. Placed("gps", a, s, f)
    BY <1>3, <2>2, <2>3 DEF Placed
  <2> QED BY <1>2, <2>4, KindLists
<1>10. ListsKind("glo", s)
  <2>1. /\ p \in Nat /\ Len(s) \in Nat /\ DOMAIN s = 1..Len(s) /\ p + q <= Len(s)
        /\ \A n \in 1..Len(s) : s[n].kind = "glo" <=> n \in p + 1..p + q
        /\ \A n \in p + 1..p + q : s[n] = b[n - p]
    BY <1>4, <1>7, <1>8
  <2>2. Placed("glo", b, s, p)
    BY <1>3, <2>1 DEF Placed
  <2> QED BY <1>2, <2>2, KindLists
<1> QED BY <1>9, <1>10

(* What GsvComplete says of one kind, for any sentences and view. *)
AskedOf(k, s, v) ==
  LET mine == {n \in DOMAIN s : s[n].kind = k}
      all  == {i \in DOMAIN v : v[i] = k}
  IN  mine # {} =>
        /\ UNION {s[n].svs : n \in mine} = all
        /\ \A m, n \in mine : m < n => \A i \in s[m].svs, j \in s[n].svs : i < j
        /\ \A n \in mine : Sentences!Cardinality(s[n].svs) <= 4
        /\ all # {} => \A n \in mine : s[n].svs # {}
        /\ \E f, total \in 0..Len(s) :
             /\ mine = f + 1..f + total
             /\ \A n \in mine : s[n].number = n - f /\ s[n].of = total

LEMMA AskedOfIs == Sentences!GsvComplete <=> \A k \in {"gps", "glo"} : AskedOf(k, sentences, view)
  BY DEF Sentences!GsvComplete, AskedOf

LEMMA ListsAsked ==
    ASSUME InView, NEW k, NEW s, ListsKind(k, s)
    PROVE  AskedOf(k, s, view)
<1>1. {i \in DOMAIN view : view[i] = k} = Mine(k, 1)
  <2>1. DOMAIN view = 1..Len(view)
    BY DEF InView
  <2> QED BY <2>1 DEF Mine
<1>2. PICK mine : mine = {n \in DOMAIN s : s[n].kind = k}
  OBVIOUS
<1>3. /\ UNION {s[n].svs : n \in mine} = Mine(k, 1)
      /\ \A m, n \in mine : m < n => \A i \in s[m].svs, j \in s[n].svs : i < j
      /\ \A n \in mine : Cardinality(s[n].svs) <= 4
      /\ Mine(k, 1) # {} => \A n \in mine : s[n].svs # {}
      /\ \E f, total \in 0..Len(s) :
           /\ mine = f + 1..f + total
           /\ \A n \in mine : s[n].number = n - f /\ s[n].of = total
  BY <1>2 DEF ListsKind, ListsIn
<1>4. \A n \in mine : Sentences!Cardinality(s[n].svs) <= 4
  BY <1>3, CardinalityIs
<1> QED BY <1>1, <1>2, <1>3, <1>4 DEF AskedOf

(* The satellites in view stay, and their sentences are complete.          *)
Listing == InView /\ Sentences!GsvComplete

LEMMA ListingStep == Listing /\ [Sentences!Next]_(Sentences!vars) => Listing'
<1> SUFFICES ASSUME Listing, [Sentences!Next]_(Sentences!vars) PROVE Listing'
  OBVIOUS
<1>0. (\A k \in {"gps", "glo"} : AskedOf(k, sentences', view')) => Sentences!GsvComplete'
  BY DEF Sentences!GsvComplete, AskedOf
<1>1. view' = view
  BY DEF Sentences!Next, Sentences!ReportSv, Sentences!ReportPosition, Sentences!vars
<1>2. InView /\ InView'
  BY <1>1 DEF Listing, InView
<1>3. PICK s : s = sentences'
  OBVIOUS
<1>4. CASE Sentences!ReportSv
  <2>1. s = Sentences!Gsv("gps") \o Sentences!Gsv("glo")
    BY <1>3, <1>4 DEF Sentences!ReportSv, Sentences!loc_eng_nmea_generate_sv
  <2>2. ListsKind("gps", s) /\ ListsKind("glo", s)
    BY <1>2, <2>1, BothList
  <2>3. \A k \in {"gps", "glo"} : AskedOf(k, s, view)
    BY <1>2, <2>2, ListsAsked
  <2> QED BY <1>0, <1>1, <1>2, <1>3, <2>3 DEF Listing
<1>5. CASE Sentences!ReportPosition
  <2>1. \A n \in DOMAIN s : s[n].kind \notin {"gps", "glo"}
    BY <1>3, <1>5 DEF Sentences!ReportPosition, Sentences!loc_eng_nmea_generate_pos,
         Sentences!Blank, Sentences!Gsa, Sentences!GPVTG, Sentences!GPRMC, Sentences!GPGGA
  <2>2. \A k \in {"gps", "glo"} : AskedOf(k, s, view)
    BY <2>1 DEF AskedOf
  <2> QED BY <1>0, <1>1, <1>2, <1>3, <2>2 DEF Listing
<1>6. CASE UNCHANGED Sentences!vars
  <2>1. sentences' = sentences
    BY <1>6 DEF Sentences!vars
  <2>2. \A k \in {"gps", "glo"} : AskedOf(k, sentences, view)
    BY AskedOfIs DEF Listing
  <2> QED BY <1>0, <1>1, <1>2, <2>1, <2>2 DEF Listing
<1> QED BY <1>4, <1>5, <1>6 DEF Sentences!Next

(* SentencesAgree: a position is sent with the precision of the satellites *)
(* it names, and a satellite report lists all satellites in view, each     *)
(* once and in order, in sentences that are numbered through               *)
(* (loc_eng_nmea_generate_pos, loc_eng_nmea_generate_sv), for any number   *)
(* of satellites and reports.                                              *)
THEOREM SatellitesListed == HalSpec => []SentencesAgree
<1>1. HalInit => Listing
  <2> SUFFICES ASSUME Sentences!Init PROVE Listing
    BY DEF HalInit
  <2>1. PICK n \in 0..MaxSvs : view \in [1..n -> Sentences!Kinds]
    BY DEF Sentences!Init
  <2>2. InView
    <3>1. n \in Nat
      BY ReportsNat
    <3> QED BY <2>1, <3>1 DEF InView
  <2>3. DOMAIN sentences = {}
    BY DEF Sentences!Init
  <2> QED BY <2>2, <2>3 DEF Listing, Sentences!GsvComplete
<1>2. [HalNext]_halVars => [Sentences!Next]_(Sentences!vars)
  BY DEF HalNext, halVars, nmeaVars, Sentences!vars
<1>3. Listing /\ [HalNext]_halVars => Listing'
  BY <1>2, ListingStep
<1>4. HalSpec => []Listing
  BY <1>1, <1>3, PTL DEF HalSpec
<1>5. Listing => Sentences!GsvComplete
  BY DEF Listing
<1>6. Sentences!TypeOK /\ Sentences!DopMatchesSats /\ Sentences!GsvComplete => SentencesAgree
  BY DEF SentencesAgree
<1> QED BY <1>4, <1>5, <1>6, PrecisionOfSatellites, PTL
=============================================================================
